------------------------------- MODULE Startup -------------------------------
(***************************************************************************)
(* The process from its command line to the server loop, and out: main's   *)
(* arguments, the configuration, Start with its failures, Close.  A file   *)
(* outlives the process, so one may write the configuration another loads. *)
(* The server loop is in LoginServer, whose Init is pc = "loop" here; of   *)
(* the loop only the console is here.  The terminal outlives the process.  *)
(***************************************************************************)
EXTENDS Configuration, Console, Integers

CONSTANTS
  FileName,      \* names files are given by; "certifier.conf" is the default
  Line,          \* lines of files, as token sequences
  Disk,          \* what files there may be to begin with
  CutTo(_),      \* what a beginning of a run of letters or of digits reads as
  CommandLine,   \* command lines, as sequences of arguments
  atoi(_),       \* the number of an argument, 0 if there is none
  MaxRuns,       \* bound: processes, one after the other
  PortRange,     \* 2^16: port numbers are uint16_t in Start
  Ephemeral,     \* the ports the kernel chooses from for who binds port 0
  MaxKeys        \* bound: keys that wait in the terminal

(***************************************************************************)
(* A file is its lines and what ends a line.                               *)
(***************************************************************************)
Missing == [lines |-> <<>>, eol |-> <<>>]

Written == [lines : Seq(Line), eol : {<<"\n">>, <<"\r", "\n">>}]

ASSUME StartupAssumption ==
  /\ "certifier.conf" \in FileName
  /\ Disk \subseteq [FileName -> {Missing} \cup Written]
  /\ \A line \in CommandLine : \A i \in 1..Len(line) : atoi(line[i]) \in Int
  /\ CommandLine \subseteq Seq(STRING)
  /\ Line \subseteq Seq(STRING)
  /\ \A line \in Line : \A i \in 1..Len(line) : line[i] \notin {"\n", "nul"}
  /\ \A t \in Word \cup Digits : CutTo(t) \subseteq STRING \cap (Word \cup Digits)
  /\ MaxRuns \in Nat /\ MaxKeys \in Nat
  /\ PortRange \in Nat /\ PortRange > 65535

\* the letters and digits of the file that CreateDefault writes
ASSUME DefaultAssumption ==
  LET keys == {"ServerPort", "ClientVersion", "RequireVersion", "AuthenticationTimeout"} IN
  /\ keys \cup {"yes"} \subseteq Word /\ {"23000", "20131016", "30"} \subseteq Digits
  /\ NumberOf("23000") = 23000 /\ NumberOf("30") = 30
  /\ \A v, w \in keys : Lower(v) = Lower(w) => v = w

VARIABLES
  files,      \* name -> [lines, eol]
  argv, argi, \* the command line and main's i
  port, szConfigFile,
  m_sock,     \* "invalid", or the state of the socket: "new", "listening",
              \* "non-blocking", "registered"
  bound,      \* the port it is bound to
  m_efd,      \* "invalid", or "open": the epoll descriptor
  m_nAuthenicationTimeout, m_szRequiredVersion,
  closes,     \* history: how often a socket was closed
  made,       \* history: the files --makecfg has written to their end
  pc, status, runs

mainVars == <<argv, argi, port, szConfigFile>>
serverVars ==
  <<m_sock, bound, m_efd, m_nAuthenicationTimeout, m_szRequiredVersion, closes>>
runVars == <<configVars, files, mainVars, serverVars, made, pc, status, runs>>
vars == <<runVars, consoleVars>>

(***************************************************************************)
(* A file's text: its lines, with an end of line between them.             *)
(***************************************************************************)
Contents(file) ==
  LET text[n \in 0..Len(file.lines)] ==
        IF n = 0 THEN <<>>
        ELSE text[n - 1] \o (IF n = 1 THEN <<>> ELSE file.eol) \o file.lines[n]
  IN text[Len(file.lines)]

(***************************************************************************)
(* What CreateDefault writes.                                              *)
(***************************************************************************)
FileContents ==
  [eol |-> <<"\r", "\n">>,
   lines |-> << <<"#", " ", "words">>,
                <<>>,
                <<"#", " ", "words">>,
                <<"ServerPort", " ", "=", " ", "23000">>,
                <<>>,
                <<"#", " ", "words">>,
                <<"ClientVersion", " ", "=", " ", "20131016">>,
                <<"RequireVersion", " ", "=", " ", "yes">>,
                <<>>,
                <<"#", " ", "words">>,
                <<"AuthenticationTimeout", " ", "=", " ", "30">> >>]

(***************************************************************************)
(* What a write that fails may leave of it: a beginning, which may end     *)
(* within a line, within a run of letters or digits, or between "\r" and   *)
(* "\n".  The whole is one of them.                                        *)
(***************************************************************************)
Beginnings(text) ==
  LET upTo(n) == SubSeq(text, 1, n) IN
  {upTo(n) : n \in 0..Len(text)} \cup
  UNION {{Append(upTo(n - 1), t) : t \in CutTo(text[n])} :
           n \in {m \in 1..Len(text) : text[m] \in Word \cup Digits}}

LineOut(n) ==
  FileContents.lines[n] \o (IF n < Len(FileContents.lines) THEN <<"\r">> ELSE <<>>)

CutShort ==
  UNION {{[FileContents EXCEPT !.lines = Append(SubSeq(FileContents.lines, 1, n - 1), line)] :
            line \in Beginnings(LineOut(n))} : n \in 1..Len(FileContents.lines)}

-----------------------------------------------------------------------------
(***************************************************************************)
(* A new process.                                                          *)
(***************************************************************************)
Begin(line) ==
  /\ argv' = line /\ argi' = 1 /\ port' = -1 /\ szConfigFile' = "certifier.conf"
  /\ m_values' = <<>> /\ buf' = <<>> /\ ptr' = 1
  /\ m_sock' = "invalid" /\ bound' = -1 /\ m_efd' = "invalid" /\ closes' = 0
  /\ m_nAuthenicationTimeout' = 30 /\ m_szRequiredVersion' = <<>>
  /\ ConsoleBegin
  /\ pc' = "arguments" /\ status' = 0

Init ==
  /\ ConfigInit /\ ConsoleInit
  /\ files \in Disk
  /\ argv \in CommandLine /\ argi = 1 /\ port = -1 /\ szConfigFile = "certifier.conf"
  /\ m_sock = "invalid" /\ bound = -1 /\ m_efd = "invalid" /\ closes = 0
  /\ m_nAuthenicationTimeout = 30 /\ m_szRequiredVersion = <<>>
  /\ made = {} /\ pc = "arguments" /\ status = 0 /\ runs = 1

Again ==
  /\ pc = "exited" /\ runs < MaxRuns
  /\ runs' = runs + 1
  /\ \E line \in CommandLine : Begin(line)
  /\ UNCHANGED <<files, made, layout>>

Exit(s) == pc' = "exited" /\ status' = s

-----------------------------------------------------------------------------
(***************************************************************************)
(* main's loop over the arguments.                                         *)
(***************************************************************************)
Argc == Len(argv)
Option(names) == pc = "arguments" /\ argi <= Argc /\ argv[argi] \in names
Operand == argv[argi + 1]

PortOption == {"-p", "--port"}
ConfigOption == {"-cfg", "--config"}
MakeOption == {"--makecfg"}

PortArgument ==
  /\ Option(PortOption) /\ argi < Argc
  /\ port' = atoi(Operand)
  /\ IF port' <= 0 \/ port' > 65535
     THEN Exit(1) /\ UNCHANGED argi
     ELSE argi' = argi + 2 /\ UNCHANGED <<pc, status>>
  /\ UNCHANGED <<configVars, files, argv, szConfigFile, serverVars, made, runs>>

ConfigArgument ==
  /\ Option(ConfigOption) /\ argi < Argc
  /\ szConfigFile' = Operand /\ argi' = argi + 2
  /\ UNCHANGED <<configVars, files, argv, port, serverVars, made, pc, status, runs>>

(***************************************************************************)
(* --makecfg: the file cannot be opened, or is written, or is cut short by *)
(* a write whose failure CreateDefault does not notice.  The exit status   *)
(* is 0 in each case.                                                      *)
(***************************************************************************)
MakeConfig ==
  /\ Option(MakeOption) /\ argi < Argc
  /\ \/ UNCHANGED <<files, made>>
     \/ /\ Operand \in FileName
        /\ \E file \in CutShort :
             /\ files' = [files EXCEPT ![Operand] = file]
             /\ made' = IF file = FileContents THEN made \cup {Operand}
                        ELSE made \ {Operand}
  /\ Exit(0)
  /\ UNCHANGED <<configVars, mainVars, serverVars, runs>>

\* no argument, an option without operand, or another token
BadArgument ==
  /\ pc = "arguments"
  /\ \/ Argc = 0
     \/ argi = Argc /\ argv[argi] \in PortOption \cup ConfigOption \cup MakeOption
     \/ argi <= Argc /\ argv[argi] \notin PortOption \cup ConfigOption \cup MakeOption
  /\ Exit(1)
  /\ UNCHANGED <<configVars, files, mainVars, serverVars, made, runs>>

-----------------------------------------------------------------------------
(***************************************************************************)
(* CConfiguration::Load.  Opening and reading may fail at any time.        *)
(***************************************************************************)
Loading == pc = "arguments" /\ Argc > 0 /\ argi > Argc
Exists == szConfigFile \in FileName /\ files[szConfigFile] # Missing

LoadFails ==
  /\ Loading
  /\ Clear(<<>>)
  /\ Exit(1)
  /\ UNCHANGED <<files, mainVars, serverVars, made, runs>>

Load ==
  /\ Loading /\ Exists
  /\ Contents(files[szConfigFile]) # <<>>
  /\ Clear(Contents(files[szConfigFile]))
  /\ pc' = "parse"
  /\ UNCHANGED <<files, mainVars, serverVars, made, status, runs>>

Parse ==
  /\ pc = "parse" /\ ParseRound
  /\ UNCHANGED <<files, mainVars, serverVars, made, pc, status, runs>>

ParseFails ==
  /\ pc = "parse" /\ Corrupt
  /\ Exit(1)
  /\ UNCHANGED <<configVars, files, mainVars, serverVars, made, runs>>

GetPortFromFile ==    \* mutant: the file's port comes first
  /\ pc = "parse" /\ Parsed
  /\ IF HasNumber("ServerPort")
     THEN port' = Number("ServerPort") /\ pc' = "construct" /\ UNCHANGED status
     ELSE /\ IF port = -1 THEN Exit(1) ELSE pc' = "construct" /\ UNCHANGED status
          /\ UNCHANGED port
  /\ UNCHANGED <<configVars, files, argv, argi, szConfigFile, serverVars, made, runs>>

GetPort ==
  /\ pc = "parse" /\ Parsed
  /\ IF port # -1 THEN pc' = "construct" /\ UNCHANGED <<port, status>>
     ELSE IF HasNumber("ServerPort")
     THEN port' = Number("ServerPort") /\ pc' = "construct" /\ UNCHANGED status
     ELSE Exit(1) /\ UNCHANGED port
  /\ UNCHANGED <<configVars, files, argv, argi, szConfigFile, serverVars, made, runs>>

(***************************************************************************)
(* The constructor of CCertifyServer.                                      *)
(***************************************************************************)
Construct ==
  /\ pc = "construct"
  /\ m_szRequiredVersion' =
       IF /\ HasBoolean("RequireVersion") /\ Boolean("RequireVersion")
          /\ HasText("ClientVersion")
       THEN Text("ClientVersion") ELSE <<>>
  /\ m_nAuthenicationTimeout' =
       IF HasNumber("AuthenticationTimeout") THEN Number("AuthenticationTimeout") ELSE 30
  /\ pc' = "socket"
  /\ UNCHANGED <<configVars, files, mainVars, m_sock, bound, m_efd, closes, made, status, runs>>

-----------------------------------------------------------------------------
(***************************************************************************)
(* CNetworkServer::Start, one system call a step; each may fail.  Close    *)
(* (with no client) ends the server, and the destructor calls it again.    *)
(* It does not close m_efd: no code does, the end of the process closes it.*)
(***************************************************************************)
CloseKeepsSocket ==    \* mutant of Close: m_sock keeps the closed descriptor
  IF m_sock = "invalid" THEN UNCHANGED <<m_sock, closes>>
  ELSE UNCHANGED m_sock /\ closes' = closes + 1

Close ==
  IF m_sock = "invalid" THEN UNCHANGED <<m_sock, closes>>
  ELSE m_sock' = "invalid" /\ closes' = closes + 1

Call(from, to) ==
  /\ pc = from /\ pc' = to
  /\ UNCHANGED <<configVars, files, mainVars, m_nAuthenicationTimeout,
                 m_szRequiredVersion, made, status, runs>>

CreateSocket ==
  \/ Call("socket", "bind") /\ m_sock' = "new" /\ UNCHANGED <<bound, m_efd, closes>>
  \/ Call("socket", "restore") /\ UNCHANGED <<m_sock, bound, m_efd, closes>>

StartStep(from, to, state) ==
  \/ Call(from, to) /\ m_sock' = state /\ UNCHANGED closes
  \/ Call(from, "restore") /\ Close

\* the ports a socket may get that asks for p
Ports(p) == IF p = 0 THEN Ephemeral ELSE {p}

BindListen ==
  /\ StartStep("bind", "F_GETFL", "listening")
  /\ IF pc' = "F_GETFL" THEN bound' \in Ports(port % PortRange) ELSE UNCHANGED bound
  /\ UNCHANGED m_efd

\* SetSocketBlocking( m_sock, false ): two calls of fcntl
GetFlags == StartStep("F_GETFL", "F_SETFL", m_sock) /\ UNCHANGED <<bound, m_efd>>
SetFlags ==
  StartStep("F_SETFL", "epoll_create1", "non-blocking") /\ UNCHANGED <<bound, m_efd>>

EpollCreate ==
  /\ StartStep("epoll_create1", "epoll_ctl", m_sock)
  /\ m_efd' = IF pc' = "epoll_ctl" THEN "open" ELSE m_efd
  /\ UNCHANGED bound

EpollAdd == StartStep("epoll_ctl", "loop", "registered") /\ UNCHANGED <<bound, m_efd>>

-----------------------------------------------------------------------------
(***************************************************************************)
(* A round of the server loop calls server.Process and then asks for a     *)
(* key; ESC ends the loop.  Process may not return: see PacketLoopReturns. *)
(***************************************************************************)
LoopRound ==
  /\ \/ Call("loop", "getch") /\ Kbhit /\ Waiting
     \/ Call("loop", "loop") /\ Kbhit /\ ~Waiting
  /\ UNCHANGED <<m_sock, bound, m_efd, closes>>

Caught ==
  /\ Call("loop", "caught")
  /\ UNCHANGED <<m_sock, bound, m_efd, closes, consoleVars>>

OtherKey ==
  /\ Call("getch", "loop")
  /\ \E key \in Keys \ {"escape"} : Getch(key)
  /\ UNCHANGED <<m_sock, bound, m_efd, closes>>

Shutdown ==
  /\ Call("getch", "restore") /\ Getch("escape")
  /\ Close /\ UNCHANGED <<bound, m_efd>>

(***************************************************************************)
(* The end of main, also after a Start that failed: the console, and the   *)
(* destructor.                                                             *)
(***************************************************************************)
Restore ==
  /\ Call("restore", "destroy") /\ RestoreTermIOS
  /\ UNCHANGED <<m_sock, bound, m_efd, closes>>

Destroy ==
  /\ pc = "destroy" /\ Close /\ Exit(0)
  /\ m_efd' = "invalid"    \* closed by the kernel
  /\ UNCHANGED <<configVars, files, mainVars, bound, m_nAuthenicationTimeout,
                 m_szRequiredVersion, made, runs>>

(***************************************************************************)
(* A signal ends the server: no code of it runs, the kernel closes what    *)
(* it had open.                                                            *)
(***************************************************************************)
Killed ==
  /\ pc \in {"loop", "caught"} /\ Exit(-1)
  /\ m_sock' = "invalid" /\ m_efd' = "invalid"
  /\ UNCHANGED <<configVars, files, mainVars, bound, m_nAuthenicationTimeout,
                 m_szRequiredVersion, closes, made, runs, consoleVars>>

(***************************************************************************)
(* Somebody types to the last of the processes.                            *)
(***************************************************************************)
Typing ==
  /\ runs = MaxRuns /\ pc \in {"socket", "loop", "getch", "caught"}
  /\ Len(edited \o input \o stdio) < MaxKeys
  /\ \E key \in Keys : Type(key)
  /\ UNCHANGED runVars

-----------------------------------------------------------------------------
Arguments == PortArgument \/ ConfigArgument \/ MakeConfig \/ BadArgument
Configure == LoadFails \/ Load \/ Parse \/ ParseFails \/ GetPort
Start == CreateSocket \/ BindListen \/ GetFlags \/ SetFlags \/ EpollCreate \/ EpollAdd

Ended == pc = "exited" /\ runs = MaxRuns /\ UNCHANGED vars

Process ==
  \/ (Arguments \/ Configure \/ Construct \/ Start \/ Destroy) /\ UNCHANGED consoleVars
  \/ LoopRound \/ OtherKey \/ Shutdown \/ Restore

Next == Process \/ Caught \/ Killed \/ Typing \/ Again \/ Ended

(***************************************************************************)
(* The process is scheduled; nobody need type, kill or start anything, and *)
(* Process need not be caught.                                             *)
(***************************************************************************)
Spec == Init /\ [][Next]_vars /\ WF_vars(Process)

-----------------------------------------------------------------------------
File == files[szConfigFile]

(***************************************************************************)
(* A file of settings, comments and blank lines is accepted and gives each *)
(* key the value of the first line that sets it, whatever blanks and ends  *)
(* of line it has; where the build does not remove trailing blanks, if it  *)
(* has none.                                                               *)
(***************************************************************************)
Plain(lines) == WellFormed(lines) /\ (layout \/ \A i \in 1..Len(lines) :
                  lines[i] = <<>> \/ lines[i][Len(lines[i])] \notin Blank)

FileUnderstood ==
  pc = "parse" /\ Plain(File.lines) =>
    /\ ~Corrupt
    /\ Parsed => Means(File.lines, m_values)

Given(n) == n % 2 = 1 /\ n < Argc /\ argv[n] \in PortOption

LastGiven(n) == Given(n) /\ \A k \in 1..Argc : Given(k) => k <= n

(***************************************************************************)
(* "The server port defined here is only used if none is provided in       *)
(* command line parameters": the loop runs on a registered socket, bound   *)
(* to the port of the last -p, whatever the file says.                     *)
(***************************************************************************)
PortFromArguments ==
  pc = "loop" =>
    /\ m_sock = "registered"
    /\ \A n \in 1..Argc : LastGiven(n) => bound = atoi(argv[n + 1])

(***************************************************************************)
(* Without a -p it is the port of the file's first line that gives one, in *)
(* whatever case, of which 16 bits are used; if these are 0, one that the  *)
(* kernel chooses.                                                         *)
(***************************************************************************)
PortFromFile ==
  pc = "loop" /\ (\A n \in 1..Argc : ~Given(n)) /\ Plain(File.lines) =>
    \E n \in 1..Len(File.lines) : \E v \in Values(File.lines[n]) :
      /\ FirstSets(File.lines, n, Lower("ServerPort"), v)
      /\ bound \in Ports(NumberOf(v[1]) % PortRange)

(***************************************************************************)
(* A server whose configuration --makecfg wrote to its end runs with the   *)
(* settings that its comments announce, in every build.                    *)
(***************************************************************************)
DefaultAsAnnounced ==
  pc = "loop" /\ szConfigFile \in made =>
    /\ m_nAuthenicationTimeout = 30 /\ m_szRequiredVersion = <<"20131016">>
    /\ (\A n \in 1..Argc : ~Given(n)) => port = 23000

(***************************************************************************)
(* However Start fails and however the server ends, its listening socket   *)
(* is closed exactly once, although the destructor calls Close again, and  *)
(* before the terminal is given back.  (m_efd may be open then.)           *)
(***************************************************************************)
SocketClosedOnce ==
  /\ closes <= 1
  /\ pc \in {"restore", "destroy", "exited"} => m_sock = "invalid"

(***************************************************************************)
(* ESC ends the server whenever it is typed, behind whatever other keys    *)
(* and before or after the first look at the console, unless Process is    *)
(* caught and does not return: no key is read and then forgotten.          *)
(***************************************************************************)
EscapeHeard ==
  pc \in {"loop", "getch"} /\ Pressed("escape") ~> pc \in {"exited", "caught"}

(***************************************************************************)
(* "Restores the console echo feedback on application exit": a server that *)
(* ran and ended by itself leaves the terminal with echo and line editing, *)
(* also if an earlier one that was killed has left it without.             *)
(***************************************************************************)
EchoRestored ==
  pc = "exited" /\ status = 0 /\ initialized => terminal = Usual
=============================================================================
