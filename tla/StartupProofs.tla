---------------------------- MODULE StartupProofs ----------------------------
(***************************************************************************)
(* Proofs about Startup, for every command line, every file and every      *)
(* number of processes: the socket is closed once, a server that ends by   *)
(* itself gives the terminal back, it listens on the port it was told on   *)
(* the command line, or else in the file; what a file says is what the     *)
(* parser makes of it; and the default file gives the settings it          *)
(* announces.                                                              *)
(***************************************************************************)
EXTENDS Startup, SequenceTheorems, WellFoundedInduction, TLAPS

(***************************************************************************)
(* Before Start the socket does not exist; while Start works on it, it has *)
(* not been closed.                                                        *)
(***************************************************************************)
Before == {"arguments", "parse", "construct", "socket"}
Starting == {"bind", "F_GETFL", "F_SETFL", "epoll_create1", "epoll_ctl"}

SocketInv ==
  /\ closes \in {0, 1}
  /\ m_sock # "invalid" => closes = 0
  /\ pc \in Before => m_sock = "invalid"
  /\ pc \in Before \cup Starting => closes = 0
  /\ pc \in {"restore", "destroy", "exited"} => m_sock = "invalid"

(***************************************************************************)
(* The console is untouched until the server loop, and is given back on    *)
(* the one way out of it that ends with status 0.                          *)
(***************************************************************************)
ConsoleInv ==
  /\ pc \in Before \cup Starting => ~initialized
  /\ pc = "destroy" /\ initialized => terminal = Usual
  /\ EchoRestored

-----------------------------------------------------------------------------
LEMMA EarlySocket ==
  ASSUME SocketInv, Arguments \/ Configure \/ Construct
  PROVE  SocketInv'
<1> USE DEF SocketInv, Before, Starting, Exit, serverVars
<1>1. ASSUME Arguments PROVE SocketInv'
  BY <1>1 DEF Arguments, PortArgument, ConfigArgument, MakeConfig, BadArgument, Option
<1>2. ASSUME Configure PROVE SocketInv'
  BY <1>2 DEF Configure, LoadFails, Load, Parse, ParseFails, GetPort, Loading
<1>3. ASSUME Construct PROVE SocketInv'
  BY <1>3 DEF Construct
<1> QED BY <1>1, <1>2, <1>3

LEMMA StartSocket == ASSUME SocketInv, Start PROVE SocketInv'
<1> USE DEF SocketInv, Before, Starting, StartStep, Call, Close
<1>1. CASE CreateSocket
  BY <1>1 DEF CreateSocket
<1>2. CASE BindListen
  BY <1>2 DEF BindListen
<1>3. CASE GetFlags \/ SetFlags
  BY <1>3 DEF GetFlags, SetFlags
<1>4. CASE EpollCreate \/ EpollAdd
  BY <1>4 DEF EpollCreate, EpollAdd
<1> QED BY <1>1, <1>2, <1>3, <1>4 DEF Start

LEMMA NextSocket == ASSUME SocketInv, [Next]_vars PROVE SocketInv'
<1> USE DEF SocketInv, Before, Starting
<1>1. CASE Arguments \/ Configure \/ Construct
  BY <1>1, EarlySocket
<1>2. CASE Start
  BY <1>2, StartSocket
<1>3. CASE LoopRound \/ Caught \/ OtherKey
  BY <1>3 DEF LoopRound, Caught, OtherKey, Call
<1>4. CASE Shutdown \/ Restore
  BY <1>4 DEF Shutdown, Restore, Call, Close
<1>5. CASE Destroy \/ Killed
  BY <1>5 DEF Destroy, Killed, Exit, Close
<1>6. CASE Typing
  BY <1>6 DEF Typing, runVars, serverVars
<1>7. CASE Again
  BY <1>7 DEF Again, Begin
<1>8. CASE UNCHANGED vars
  BY <1>8 DEF vars, runVars, serverVars
<1> QED BY <1>1, <1>2, <1>3, <1>4, <1>5, <1>6, <1>7, <1>8 DEF Next, Process, Ended

(***************************************************************************)
(* However Start fails and however the server ends, its socket is closed   *)
(* exactly once, although the destructor calls Close again.                *)
(***************************************************************************)
THEOREM ClosedOnce == Spec => []SocketClosedOnce
<1>1. Init => SocketInv
  BY DEF Init, SocketInv, Before, Starting
<1>2. SocketInv => SocketClosedOnce
  BY DEF SocketInv, SocketClosedOnce
<1> QED BY <1>1, <1>2, NextSocket, PTL DEF Spec

-----------------------------------------------------------------------------
LEMMA NextConsole == ASSUME ConsoleInv, [Next]_vars PROVE ConsoleInv'
<1> USE DEF ConsoleInv, EchoRestored, Before, Starting
<1>1. CASE Arguments /\ UNCHANGED consoleVars
  BY <1>1 DEF Arguments, PortArgument, ConfigArgument, MakeConfig, BadArgument,
              Option, Exit, consoleVars
<1>2. CASE (Configure \/ Construct) /\ UNCHANGED consoleVars
  BY <1>2 DEF Configure, LoadFails, Load, Parse, ParseFails, GetPort, Loading,
              Construct, Exit, consoleVars
<1>3. CASE Start /\ UNCHANGED consoleVars
  BY <1>3 DEF Start, CreateSocket, BindListen, GetFlags, SetFlags, EpollCreate,
              EpollAdd, StartStep, Call, consoleVars
<1>4. CASE Destroy /\ UNCHANGED consoleVars
  BY <1>4 DEF Destroy, Exit, consoleVars
<1>5. CASE LoopRound \/ Caught \/ OtherKey \/ Shutdown
  BY <1>5 DEF LoopRound, Caught, OtherKey, Shutdown, Call
<1>6. CASE Restore
  BY <1>6 DEF Restore, Call, RestoreTermIOS, SetTerminal, Usual
<1>7. CASE Killed
  BY <1>7 DEF Killed, Exit
<1>8. CASE Typing
  BY <1>8 DEF Typing, Type, runVars
<1>9. CASE Again
  BY <1>9 DEF Again, Begin, ConsoleBegin
<1>10. CASE UNCHANGED vars
  BY <1>10 DEF vars, runVars, consoleVars
<1> QED BY <1>1, <1>2, <1>3, <1>4, <1>5, <1>6, <1>7, <1>8, <1>9, <1>10
        DEF Next, Process, Ended

(***************************************************************************)
(* A server that ran and ended by itself leaves the terminal with echo and *)
(* line editing, whatever state it found it in.                            *)
(***************************************************************************)
THEOREM EchoGivenBack == Spec => []EchoRestored
<1>1. Init => ConsoleInv
  BY DEF Init, ConsoleInit, ConsoleInv, EchoRestored, Before, Starting
<1>2. ConsoleInv => EchoRestored
  BY DEF ConsoleInv
<1> QED BY <1>1, <1>2, NextConsole, PTL DEF Spec

-----------------------------------------------------------------------------
(***************************************************************************)
(* main's i is on the options.  Until it exits, main's port is that of the *)
(* last -p behind it; it is bound when all arguments are behind it.        *)
(***************************************************************************)
Odd(n) == n % 2 = 1
Behind(n) == Given(n) /\ n < argi
LastBehind(n) == Behind(n) /\ \A k \in 1..Argc : Behind(k) => k <= n

LegalPort == {p \in Int : p > 0 /\ p <= 65535}
PortOf(n) == port = atoi(argv[n + 1]) /\ port \in LegalPort

Scanned == \A n \in 1..Argc : LastBehind(n) => PortOf(n)

ScanInv ==
  /\ argv \in CommandLine /\ argi \in Nat /\ Odd(argi)
  /\ pc # "exited" => Scanned
  /\ pc \notin {"arguments", "exited"} => argi > Argc

Bound == {"loop", "getch"} \cup (Starting \ {"bind"})

BoundInv ==
  /\ pc \in Bound => bound \in Ports(port % PortRange)
  /\ pc \in {"loop", "getch"} => m_sock = "registered"

LEMMA ArgcNat == ASSUME argv \in CommandLine PROVE Argc \in Nat
  BY StartupAssumption DEF Argc

LEMMA OddNext == ASSUME NEW n \in Nat, Odd(n) PROVE n + 2 \in Nat /\ Odd(n + 2)
  BY DEF Odd

LEMMA OperandInt ==
  ASSUME argv \in CommandLine, argi \in Nat, argi < Argc
  PROVE  atoi(Operand) \in Int
<1>1. argi + 1 \in 1..Len(argv)
  BY ArgcNat DEF Argc
<1> QED BY <1>1, StartupAssumption DEF Operand

LEMMA LegalMod ==
  ASSUME NEW p \in LegalPort
  PROVE  p \in Int /\ p # -1 /\ Ports(p % PortRange) = {p}
<1>1. p \in Nat /\ p < PortRange /\ PortRange \in Nat
  BY StartupAssumption DEF LegalPort
<1>2. \A m, k \in Nat : k < m => k % m = k
  OBVIOUS
<1>3. p % PortRange = p /\ p # 0
  BY <1>1, <1>2 DEF LegalPort
<1> QED BY <1>1, <1>3 DEF Ports

(***************************************************************************)
(* A -p becomes the last one behind i; the others are no longer last.      *)
(***************************************************************************)
LEMMA ScanPort ==
  ASSUME ScanInv, PortArgument, pc' # "exited"
  PROVE  ScanInv'
<1>1. /\ pc = "arguments" /\ pc' = "arguments" /\ argi' = argi + 2 /\ argv' = argv
      /\ port' = atoi(Operand) /\ argi < Argc /\ argv[argi] \in PortOption
      /\ ~(port' <= 0 \/ port' > 65535)
  BY DEF PortArgument, Option, Exit
<1>2. argv \in CommandLine /\ argi \in Nat /\ Odd(argi) /\ Argc \in Nat
  BY ArgcNat DEF ScanInv
<1>3. argi' \in Nat /\ Odd(argi')
  BY <1>1, <1>2, OddNext
<1>4. port' \in LegalPort
  <2>1. port' \in Int
    BY <1>1, <1>2, OperandInt
  <2> QED BY <1>1, <2>1 DEF LegalPort
<1>5. PICK i \in 1..Argc : i = argi /\ Odd(i)
  <2>1. argi \in 1..Argc
    BY <1>1, <1>2 DEF Odd
  <2> QED BY <1>2, <2>1
<1>6. Argc' = Argc
  BY <1>1 DEF Argc
<1>7. ASSUME NEW n \in 1..Argc PROVE Given(n)' <=> Given(n)
  BY <1>1, <1>6 DEF Given
<1>8. Given(i)
  BY <1>1, <1>2, <1>5 DEF Given, Odd
<1>9. Behind(i)'
  BY <1>1, <1>2, <1>5, <1>7, <1>8 DEF Behind
<1>10. ASSUME NEW n \in 1..Argc, LastBehind(n)' PROVE PortOf(n)'
  <2>1. i <= n /\ Behind(n)'
    BY <1>6, <1>9, <1>10 DEF LastBehind
  <2>2. n < argi + 2 /\ n % 2 = 1
    BY <1>1, <1>6, <2>1 DEF Behind, Given
  <2>3. n = i
    BY <1>2, <1>5, <2>1, <2>2 DEF Odd
  <2>4. atoi(argv'[n + 1]) = port'
    BY <1>1, <1>5, <2>3 DEF Operand
  <2> QED BY <1>4, <2>4 DEF PortOf
<1>11. Scanned'
  BY <1>6, <1>10 DEF Scanned
<1> QED BY <1>1, <1>2, <1>3, <1>11 DEF ScanInv

(***************************************************************************)
(* A step that leaves main's variables alone, or i alone and exits.        *)
(***************************************************************************)
LEMMA ScanKept ==
  ASSUME ScanInv, UNCHANGED <<argv, argi>>, pc' # "exited" => UNCHANGED port,
         pc' \in {"arguments", "exited"} \/ argi > Argc, pc = "exited" => pc' = "exited"
  PROVE  ScanInv'
<1>1. Argc' = Argc
  BY DEF Argc
<1>2. ASSUME NEW n \in 1..Argc PROVE Given(n)' <=> Given(n)
  BY <1>1 DEF Given
<1>3. ASSUME NEW n \in 1..Argc PROVE LastBehind(n)' <=> LastBehind(n)
  BY <1>1, <1>2 DEF LastBehind, Behind
<1>4. ASSUME Scanned, UNCHANGED port PROVE Scanned'
  BY <1>1, <1>3, <1>4 DEF Scanned, PortOf
<1> QED BY <1>1, <1>4 DEF ScanInv

LEMMA ScanConfig == ASSUME ScanInv, ConfigArgument PROVE ScanInv'
<1>1. /\ pc = "arguments" /\ UNCHANGED <<argv, port, pc>> /\ argi' = argi + 2
      /\ argi < Argc /\ argv[argi] \in ConfigOption
  BY DEF ConfigArgument, Option
<1>2. argi \in Nat /\ Odd(argi) /\ Argc \in Nat /\ Scanned
  BY <1>1, ArgcNat DEF ScanInv
<1>3. Argc' = Argc
  BY <1>1 DEF Argc
<1>4. ASSUME NEW n \in 1..Argc PROVE Behind(n)' <=> Behind(n)
  <2>1. Given(n)' <=> Given(n)
    BY <1>1, <1>3 DEF Given
  <2>2. Given(n) => n # argi /\ Odd(n)
    BY <1>1 DEF Given, ConfigOption, PortOption, Odd
  <2>3. n < argi + 2 /\ n # argi /\ Odd(n) => n < argi
    BY <1>2 DEF Odd
  <2> QED BY <1>1, <1>2, <2>1, <2>2, <2>3 DEF Behind
<1>5. ASSUME NEW n \in 1..Argc PROVE LastBehind(n)' <=> LastBehind(n)
  BY <1>3, <1>4 DEF LastBehind
<1>6. Scanned'
  BY <1>1, <1>2, <1>3, <1>5 DEF Scanned, PortOf
<1>7. argi' \in Nat /\ Odd(argi')
  BY <1>1, <1>2, OddNext
<1> QED BY <1>1, <1>6, <1>7 DEF ScanInv

(***************************************************************************)
(* The file's port is taken where no -p is behind i.                       *)
(***************************************************************************)
LEMMA ScanGetPort == ASSUME ScanInv, GetPort PROVE ScanInv'
<1>1. pc = "parse" /\ UNCHANGED <<argv, argi>> /\ pc' \in {"construct", "exited"}
  BY DEF GetPort, Exit
<1>2. argi > Argc /\ Scanned
  BY <1>1 DEF ScanInv
<1>3. CASE port # -1
  BY <1>1, <1>2, <1>3, ScanKept DEF GetPort
<1>4. CASE port = -1
  <2>1. \A n \in 1..Argc : ~LastBehind(n)
    BY <1>2, <1>4, LegalMod DEF Scanned, PortOf
  <2>2. Argc' = Argc
    BY <1>1 DEF Argc
  <2>3. \A n \in 1..Argc : Given(n)' <=> Given(n)
    BY <1>1, <2>2 DEF Given
  <2>4. Scanned'
    BY <1>1, <2>1, <2>2, <2>3 DEF Scanned, LastBehind, Behind
  <2> QED BY <1>1, <1>2, <2>2, <2>4 DEF ScanInv
<1> QED BY <1>3, <1>4

LEMMA NextScan == ASSUME ScanInv, [Next]_vars PROVE ScanInv'
<1>1. CASE PortArgument \/ MakeConfig \/ BadArgument
  <2>1. CASE PortArgument /\ pc' # "exited"
    BY <2>1, ScanPort
  <2>2. CASE pc' = "exited" /\ UNCHANGED <<argv, argi>>
    BY <2>2, ScanKept
  <2>3. CASE PortArgument /\ pc' = "exited"
    <3>1. UNCHANGED <<argv, argi>>
      BY <2>3 DEF PortArgument, Option
    <3> QED BY <2>2, <2>3, <3>1
  <2>4. CASE MakeConfig \/ BadArgument
    BY <2>2, <2>4 DEF MakeConfig, BadArgument, Exit, mainVars
  <2> QED BY <1>1, <2>1, <2>3, <2>4
<1>2. CASE ConfigArgument
  BY <1>2, ScanConfig
<1>3. CASE GetPort
  BY <1>3, ScanGetPort
<1>4. CASE Again
  <2>1. argv' \in CommandLine /\ argi' = 1 /\ pc' = "arguments"
    BY <1>4 DEF Again, Begin
  <2>2. ASSUME NEW n \in (1..Argc)' PROVE ~LastBehind(n)'
    BY <2>1 DEF LastBehind, Behind
  <2>3. Odd(argi') /\ argi' \in Nat
    BY <2>1 DEF Odd
  <2> QED BY <2>1, <2>2, <2>3 DEF ScanInv, Scanned
<1>5. pc \notin {"arguments", "exited"} => argi > Argc
  BY DEF ScanInv
<1>6. CASE LoadFails \/ Load \/ Parse \/ ParseFails
  <2>1. UNCHANGED <<argv, argi, port>> /\ pc # "exited"
    BY <1>6 DEF LoadFails, Load, Parse, ParseFails, mainVars, Loading
  <2>2. pc' = "exited" \/ argi > Argc
    BY <1>5, <1>6 DEF LoadFails, Load, Parse, ParseFails, Loading, Exit
  <2> QED BY <2>1, <2>2, ScanKept
<1>7. CASE Construct \/ Start
  <2>1. UNCHANGED mainVars /\ pc \notin {"arguments", "exited"}
    BY <1>7 DEF Construct, Start, CreateSocket, BindListen, GetFlags, SetFlags,
                EpollCreate, EpollAdd, StartStep, Call
  <2> QED BY <1>5, <2>1, ScanKept DEF mainVars
<1>8. CASE LoopRound \/ Caught \/ OtherKey \/ Shutdown \/ Restore
  <2>1. UNCHANGED mainVars /\ pc \notin {"arguments", "exited"}
    BY <1>8 DEF LoopRound, Caught, OtherKey, Shutdown, Restore, Call
  <2> QED BY <1>5, <2>1, ScanKept DEF mainVars
<1>9. CASE Destroy \/ Killed
  BY <1>9, ScanKept DEF Destroy, Killed, Exit, mainVars
<1>10. CASE Typing \/ UNCHANGED vars
  <2>1. UNCHANGED mainVars /\ UNCHANGED pc
    BY <1>10 DEF Typing, vars, runVars
  <2> QED BY <1>5, <2>1, ScanKept DEF mainVars
<1> QED BY <1>1, <1>2, <1>3, <1>4, <1>6, <1>7, <1>8, <1>9, <1>10
        DEF Next, Process, Arguments, Configure, Ended

LEMMA NextBound == ASSUME BoundInv, [Next]_vars PROVE BoundInv'
<1> USE DEF BoundInv, Bound, Starting
<1>1. CASE Arguments
  BY <1>1 DEF Arguments, PortArgument, ConfigArgument, MakeConfig, BadArgument, Option, Exit
<1>2. CASE Configure \/ Construct
  BY <1>2 DEF Configure, LoadFails, Load, Parse, ParseFails, GetPort, Loading, Construct, Exit
<1>3. CASE Start
  BY <1>3 DEF Start, CreateSocket, BindListen, GetFlags, SetFlags, EpollCreate,
              EpollAdd, StartStep, Call, mainVars
<1>4. CASE LoopRound \/ Caught \/ OtherKey \/ Shutdown \/ Restore
  BY <1>4 DEF LoopRound, Caught, OtherKey, Shutdown, Restore, Call, mainVars
<1>5. CASE Destroy \/ Killed
  BY <1>5 DEF Destroy, Killed, Exit
<1>6. CASE Typing \/ UNCHANGED vars
  BY <1>6 DEF Typing, vars, runVars, mainVars, serverVars
<1>7. CASE Again
  BY <1>7 DEF Again, Begin
<1> QED BY <1>1, <1>2, <1>3, <1>4, <1>5, <1>6, <1>7 DEF Next, Process, Ended

(***************************************************************************)
(* A port on the command line is the one the server listens on: that of    *)
(* the last -p, whatever the file says, and none of its bits is lost.      *)
(***************************************************************************)
THEOREM ArgumentPort == Spec => []PortFromArguments
<1>1. Init => ScanInv /\ BoundInv
  <2>1. Init => BoundInv
    BY DEF Init, BoundInv, Bound, Starting
  <2>2. ASSUME Init PROVE ScanInv
    BY <2>2 DEF Init, ScanInv, Scanned, LastBehind, Behind, Odd
  <2> QED BY <2>1, <2>2
<1>2. ASSUME ScanInv, BoundInv PROVE PortFromArguments
  <2>1. SUFFICES ASSUME pc = "loop", NEW n \in 1..Argc, LastGiven(n)
                 PROVE  bound = atoi(argv[n + 1])
    BY <1>2 DEF PortFromArguments, BoundInv
  <2>2. argi > Argc /\ argi \in Nat /\ Argc \in Nat
    BY <1>2, <2>1, ArgcNat DEF ScanInv
  <2>3. LastBehind(n)
    BY <2>1, <2>2 DEF LastGiven, LastBehind, Behind
  <2>4. PortOf(n)
    BY <1>2, <2>1, <2>3 DEF ScanInv, Scanned
  <2>5. bound \in Ports(port % PortRange)
    BY <1>2, <2>1 DEF BoundInv, Bound
  <2>6. port \in LegalPort /\ port = atoi(argv[n + 1])
    BY <2>4 DEF PortOf
  <2>7. Ports(port % PortRange) = {port}
    BY <2>6, LegalMod
  <2> QED BY <2>5, <2>6, <2>7
<1> QED BY <1>1, <1>2, NextScan, NextBound, PTL DEF Spec

-----------------------------------------------------------------------------
(* Induction, and the least and greatest of some numbers *)

LEMMA Least ==
  ASSUME NEW S \in SUBSET Nat, S # {}
  PROVE  \E m \in S : \A k \in S : m <= k
<1> DEFINE R == OpToRel(<, Nat)
<1>1. IsWellFoundedOn(R, Nat)
  BY NatLessThanWellFounded
<1>2. \E x \in S : \A y \in S : <<y, x>> \notin R
  <2> HIDE DEF R
  <2> QED BY <1>1, WFMin
<1>3. ASSUME NEW x \in S, NEW y \in S PROVE <<y, x>> \in R <=> y < x
  <2>1. x \in Nat /\ y \in Nat
    OBVIOUS
  <2> QED BY <2>1 DEF OpToRel
<1> HIDE DEF R
<1>4. PICK x \in S : \A y \in S : ~(y < x)
  BY <1>2, <1>3
<1>5. ASSUME NEW y \in S PROVE x <= y
  <2>1. x \in Nat /\ y \in Nat /\ ~(y < x)
    BY <1>4
  <2> QED BY <2>1
<1> QED BY <1>5

LEMMA Induction ==
  ASSUME NEW S \in SUBSET Nat, 0 \in S, \A n \in S : n + 1 \in S
  PROVE  S = Nat
<1> SUFFICES ASSUME Nat \ S # {} PROVE FALSE
  OBVIOUS
<1>1. PICK m \in Nat \ S : \A k \in Nat \ S : m <= k
  BY Least
<1>2. m # 0 /\ m - 1 \in Nat
  BY <1>1
<1> QED BY <1>1, <1>2

LEMMA Greatest ==
  ASSUME NEW n \in Nat, NEW S \in SUBSET (0..n), S # {}
  PROVE  \E m \in S : \A k \in S : k <= m
<1> DEFINE T == {i \in Nat : \E k \in S : k + i = n}
<1>1. \A k \in S : k \in 0..n /\ n - k \in Nat /\ k + (n - k) = n
  OBVIOUS
<1>2. T \in SUBSET Nat /\ T # {}
  BY <1>1
<1>3. PICK t \in T : \A k \in T : t <= k
  <2> HIDE DEF T
  <2> QED BY <1>2, Least
<1>4. PICK m \in S : m + t = n
  OBVIOUS
<1>5. ASSUME NEW k \in S PROVE k <= m
  <2>1. n - k \in T
    BY <1>1
  <2>2. t <= n - k
    BY <1>3, <2>1
  <2>3. k \in Nat /\ m \in Nat /\ t \in Nat
    BY <1>1
  <2> QED BY <1>4, <2>2, <2>3
<1> QED BY <1>5

LEMMA MinIs ==
  ASSUME NEW S \in SUBSET Int, NEW x \in S, \A y \in S : x <= y
  PROVE  Min(S) = x
<1>1. \A z \in S : (\A y \in S : z <= y) => z = x
  OBVIOUS
<1> QED BY <1>1 DEF Min

LEMMA MaxIs ==
  ASSUME NEW S \in SUBSET Int, NEW x \in S, \A y \in S : y <= x
  PROVE  Max(S) = x
<1>1. \A y \in S : x >= y
  OBVIOUS
<1>2. \A z \in S : (\A y \in S : z >= y) => z = x
  OBVIOUS
<1> QED BY <1>1, <1>2 DEF Max

-----------------------------------------------------------------------------
(* Blanks *)

(***************************************************************************)
(* The first and the last token that is not blank.                         *)
(***************************************************************************)
FirstToken(t, a) ==
  a \in 1..Len(t) /\ t[a] \notin Blank /\ \A i \in 1..(a - 1) : t[i] \in Blank
LastToken(t, b) ==
  b \in 1..Len(t) /\ t[b] \notin Blank /\ \A i \in (b + 1)..Len(t) : t[i] \in Blank
AllBlank(t) == \A i \in 1..Len(t) : t[i] \in Blank

LEMMA TokensExist ==
  ASSUME NEW S, NEW t \in Seq(S), ~AllBlank(t)
  PROVE  /\ \E a : FirstToken(t, a)
         /\ \E b : LastToken(t, b)
         /\ \A a, b : FirstToken(t, a) /\ LastToken(t, b) => a <= b
<1> DEFINE T == {i \in 1..Len(t) : t[i] \notin Blank}
<1>1. Len(t) \in Nat /\ T # {} /\ T \in SUBSET Nat /\ T \in SUBSET (0..Len(t))
  BY DEF AllBlank
<1>2. \E a \in T : \A k \in T : a <= k
  <2> HIDE DEF T
  <2> QED BY <1>1, Least
<1>3. \E b \in T : \A k \in T : k <= b
  <2> HIDE DEF T
  <2> QED BY <1>1, Greatest
<1>4. PICK a \in T : \A k \in T : a <= k
  BY <1>2
<1>5. FirstToken(t, a)
  <2> SUFFICES ASSUME NEW i \in 1..(a - 1) PROVE t[i] \in Blank
    BY DEF FirstToken
  <2>1. i \in 1..Len(t) /\ ~(a <= i)
    BY <1>1
  <2> QED BY <1>4, <2>1
<1>6. PICK b \in T : \A k \in T : k <= b
  BY <1>3
<1>7. LastToken(t, b)
  <2> SUFFICES ASSUME NEW i \in (b + 1)..Len(t) PROVE t[i] \in Blank
    BY DEF LastToken
  <2>1. i \in 1..Len(t) /\ ~(i <= b)
    BY <1>1
  <2> QED BY <1>6, <2>1
<1>8. ASSUME NEW c, NEW d, FirstToken(t, c), LastToken(t, d) PROVE c <= d
  <2> SUFFICES ASSUME ~(c <= d) PROVE FALSE
    OBVIOUS
  <2>1. c \in (d + 1)..Len(t)
    BY <1>1, <1>8 DEF FirstToken, LastToken
  <2> QED BY <1>8, <2>1 DEF FirstToken, LastToken
<1> QED BY <1>5, <1>7, <1>8

LEMMA TrimEndIs ==
  ASSUME NEW S, NEW t \in Seq(S)
  PROVE  /\ AllBlank(t) => TrimEnd(t) = <<>>
         /\ \A b : LastToken(t, b) => TrimEnd(t) = SubSeq(t, 1, b)
<1> DEFINE T == {0} \cup {n \in 1..Len(t) : t[n] \notin Blank}
<1>1. T \in SUBSET Int /\ TrimEnd(t) = SubSeq(t, 1, Max(T)) /\ Len(t) \in Nat
  BY DEF TrimEnd
<1>2. CASE AllBlank(t)
  <2>1. T = {0}
    BY <1>2 DEF AllBlank
  <2>2. 0 \in T /\ \A y \in T : y <= 0
    BY <2>1
  <2> HIDE DEF T
  <2>3. Max(T) = 0
    BY <1>1, <2>2, MaxIs
  <2>4. SubSeq(t, 1, 0) = <<>>
    OBVIOUS
  <2>5. ~LastToken(t, 0) /\ \A b : ~LastToken(t, b)
    BY <1>2 DEF LastToken, AllBlank
  <2> QED BY <1>1, <2>3, <2>4, <2>5
<1>3. ASSUME NEW b, LastToken(t, b) PROVE TrimEnd(t) = SubSeq(t, 1, b) /\ ~AllBlank(t)
  <2>1. b \in T
    BY <1>3 DEF LastToken
  <2>2. ASSUME NEW y \in T PROVE y <= b
    <3> SUFFICES ASSUME ~(y <= b) PROVE FALSE
      OBVIOUS
    <3>1. y \in (b + 1)..Len(t) /\ t[y] \notin Blank
      BY <1>3 DEF LastToken
    <3> QED BY <1>3, <3>1 DEF LastToken
  <2> HIDE DEF T
  <2>3. Max(T) = b
    BY <1>1, <2>1, <2>2, MaxIs
  <2> QED BY <1>1, <1>3, <2>3 DEF LastToken, AllBlank
<1> QED BY <1>2, <1>3

LEMMA TrimmedIs ==
  ASSUME NEW S, NEW t \in Seq(S)
  PROVE  /\ AllBlank(t) => Trimmed(t) = <<>>
         /\ \A a, b : FirstToken(t, a) /\ LastToken(t, b) => Trimmed(t) = SubSeq(t, a, b)
<1>1. ASSUME AllBlank(t) PROVE Trimmed(t) = <<>>
  <2>1. TrimEnd(t) = <<>>
    BY <1>1, TrimEndIs
  <2>2. {n \in 1..Len(<<>>) : <<>>[n] \notin Blank} = {}
    OBVIOUS
  <2> QED BY <2>1, <2>2 DEF Trimmed
<1>2. ASSUME NEW a, NEW b, FirstToken(t, a), LastToken(t, b)
      PROVE  Trimmed(t) = SubSeq(t, a, b)
  <2> DEFINE e == SubSeq(t, 1, b)
             T == {n \in 1..Len(e) : e[n] \notin Blank}
  <2>1. a \in Nat /\ b \in Nat /\ 1 <= a /\ b <= Len(t) /\ a <= Len(t) /\ Len(t) \in Nat
    BY <1>2 DEF FirstToken, LastToken
  <2>2. a <= b
    <3>1. ~AllBlank(t)
      BY <1>2 DEF FirstToken, AllBlank
    <3> QED BY <1>2, <3>1, TokensExist
  <2>3. e \in Seq(S) /\ Len(e) = b /\ \A i \in 1..b : e[i] = t[i]
    BY <2>1
  <2>4. TrimEnd(t) = e
    BY <1>2, TrimEndIs
  <2> HIDE DEF e
  <2>5. a \in T /\ T \in SUBSET Int /\ \A y \in T : a <= y
    <3>1. a \in T
      BY <1>2, <2>1, <2>2, <2>3 DEF FirstToken
    <3>2. ASSUME NEW y \in T, ~(a <= y) PROVE FALSE
      <4>1. y \in 1..(a - 1) /\ e[y] = t[y] /\ e[y] \notin Blank
        BY <2>1, <2>2, <2>3, <3>2
      <4> QED BY <1>2, <4>1 DEF FirstToken
    <3> QED BY <3>1, <3>2
  <2> DEFINE TT == T
  <2>6. Min(T) = a /\ T # {}
    <3> HIDE DEF T
    <3> QED BY <2>5, MinIs
  <2>7. Trimmed(t) = SubSeq(e, a, b)
    BY <2>3, <2>4, <2>6 DEF Trimmed
  <2>8. SubSeq(e, a, b) = SubSeq(t, a, b)
    <3> DEFINE l == SubSeq(e, a, b)
               r == SubSeq(t, a, b)
    <3>1. l \in Seq(S) /\ Len(l) = b - a + 1 /\ \A i \in 1..(b - a + 1) : l[i] = e[a + i - 1]
      BY <2>1, <2>2, <2>3
    <3>2. r \in Seq(S) /\ Len(r) = b - a + 1 /\ \A i \in 1..(b - a + 1) : r[i] = t[a + i - 1]
      BY <2>1, <2>2
    <3>3. \A i \in 1..(b - a + 1) : a + i - 1 \in 1..b
      BY <2>1, <2>2
    <3> HIDE DEF l, r
    <3>4. l = r
      BY <2>3, <3>1, <3>2, <3>3, SeqEqual
    <3> QED BY <3>4 DEF l, r
  <2> QED BY <2>7, <2>8
<1> QED BY <1>1, <1>2

-----------------------------------------------------------------------------
(* A line that sets a key: where its key, its sign and its value are. *)

Allowed == Word \cup Digits \cup Blank

Setting(line, p, m, a, b) ==
  /\ FirstToken(line, p) /\ LastToken(line, b)
  /\ m \in (p + 1)..Len(line) /\ line[m] = "="
  /\ \A i \in (p + 1)..(m - 1) : line[i] \in Blank
  /\ a \in (m + 1)..b /\ line[a] \notin Blank
  /\ \A i \in (m + 1)..(a - 1) : line[i] \in Blank
  /\ \A i \in a..b : line[i] \in Allowed

LEMMA SubSeqIs ==
  ASSUME NEW S, NEW t \in Seq(S), NEW m \in 1..(Len(t) + 1), NEW n \in 0..Len(t), m <= n + 1
  PROVE  /\ SubSeq(t, m, n) \in Seq(S) /\ Len(SubSeq(t, m, n)) = n - m + 1
         /\ \A i \in 1..(n - m + 1) : SubSeq(t, m, n)[i] = t[m + i - 1]
<1>1. Len(t) \in Nat
  OBVIOUS
<1> QED BY <1>1

LEMMA SubSeqOf ==
  ASSUME NEW S, NEW t \in Seq(S), NEW m \in 1..(Len(t) + 1), NEW n \in 0..Len(t), m <= n + 1,
         NEW a \in 1..(n - m + 1), NEW b \in 1..(n - m + 1), a <= b
  PROVE  SubSeq(SubSeq(t, m, n), a, b) = SubSeq(t, m + a - 1, m + b - 1)
<1> DEFINE u == SubSeq(t, m, n)
           l == SubSeq(u, a, b)
           r == SubSeq(t, m + a - 1, m + b - 1)
<1>1. u \in Seq(S) /\ Len(u) = n - m + 1
      /\ \A i \in 1..(n - m + 1) : u[i] = t[m + i - 1]
  BY SubSeqIs
<1> HIDE DEF u
<1>2. l \in Seq(S) /\ Len(l) = b - a + 1 /\ \A i \in 1..(b - a + 1) : l[i] = u[a + i - 1]
  BY <1>1, SubSeqIs
<1>3. r \in Seq(S) /\ Len(r) = b - a + 1
      /\ \A i \in 1..(b - a + 1) : r[i] = t[m + a - 1 + i - 1]
  <2> DEFINE x == m + a - 1
             y == m + b - 1
  <2>1. x \in 1..(Len(t) + 1) /\ y \in 0..Len(t) /\ x <= y + 1 /\ y - x + 1 = b - a + 1
    OBVIOUS
  <2> HIDE DEF x, y
  <2>2. /\ SubSeq(t, x, y) \in Seq(S) /\ Len(SubSeq(t, x, y)) = y - x + 1
        /\ \A i \in 1..(y - x + 1) : SubSeq(t, x, y)[i] = t[x + i - 1]
    BY <2>1, SubSeqIs
  <2> QED BY <2>1, <2>2 DEF x, y
<1>4. \A i \in 1..(b - a + 1) : a + i - 1 \in 1..(n - m + 1)
                               /\ m + (a + i - 1) - 1 = m + a - 1 + i - 1
  OBVIOUS
<1> HIDE DEF l, r
<1>5. \A i \in 1..(b - a + 1) : l[i] = r[i]
  BY <1>1, <1>2, <1>3, <1>4
<1>6. l = r
  BY <1>2, <1>3, <1>5, SeqEqual
<1> QED BY <1>6 DEF l, r, u

LEMMA SetsIs ==
  ASSUME NEW S, NEW line \in Seq(S), NEW key, NEW value, Sets(line, key, value)
  PROVE  key \in Word /\ \E p, m, a, b : /\ Setting(line, p, m, a, b)
                                         /\ key = line[p] /\ value = SubSeq(line, a, b)
<1>1. PICK m \in 1..Len(line) :
        /\ line[m] = "=" /\ Trimmed(SubSeq(line, 1, m - 1)) = <<key>>
        /\ key \in Word
        /\ value = Trimmed(SubSeq(line, m + 1, Len(line)))
        /\ value # <<>> /\ \A i \in 1..Len(value) : value[i] \in Allowed
  BY DEF Sets, Allowed
<1>2. Len(line) \in Nat /\ m \in Nat
  OBVIOUS
<1> DEFINE t == SubSeq(line, 1, m - 1)
           u == SubSeq(line, m + 1, Len(line))
<1>3. t \in Seq(S) /\ Len(t) = m - 1 /\ \A i \in 1..(m - 1) : t[i] = line[i]
  BY <1>2, SubSeqIs
<1>4. u \in Seq(S) /\ Len(u) = Len(line) - m /\ \A i \in 1..(Len(line) - m) : u[i] = line[m + i]
  BY <1>2, SubSeqIs
<1> HIDE DEF t
<1>5. PICK p : FirstToken(t, p) /\ LastToken(t, p) /\ key = line[p]
  <2>1. ~AllBlank(t)
    <3>1. AllBlank(t) => Trimmed(t) = <<>>
      BY <1>3, TrimmedIs
    <3>2. Trimmed(t) = <<key>>
      BY <1>1 DEF t
    <3>3. Len(<<key>>) = 1 /\ Len(<<>>) = 0
      OBVIOUS
    <3> QED BY <3>1, <3>2, <3>3
  <2>2. PICK c, d : FirstToken(t, c) /\ LastToken(t, d) /\ c <= d
    BY <1>3, <2>1, TokensExist
  <2>3. c \in 1..(m - 1) /\ d \in 1..(m - 1)
    BY <1>3, <2>2 DEF FirstToken, LastToken
  <2>4. SubSeq(t, c, d) = <<key>>
    BY <1>1, <1>3, <2>2, TrimmedIs DEF t
  <2>5. Len(SubSeq(t, c, d)) = d - c + 1 /\ SubSeq(t, c, d)[1] = t[c]
    BY <1>3, <2>2, <2>3, SubSeqIs
  <2>6. c = d
    BY <2>3, <2>4, <2>5
  <2> QED BY <1>3, <2>2, <2>3, <2>4, <2>5, <2>6
<1>6. PICK c, d : FirstToken(u, c) /\ LastToken(u, d) /\ c <= d /\ value = SubSeq(u, c, d)
  <2> HIDE DEF u
  <2>1. ~AllBlank(u)
    BY <1>1, <1>4, TrimmedIs DEF u
  <2>2. PICK c, d : FirstToken(u, c) /\ LastToken(u, d) /\ c <= d
    BY <1>4, <2>1, TokensExist
  <2> QED BY <1>1, <1>4, <2>2, TrimmedIs DEF u
<1>7. c \in 1..(Len(line) - m) /\ d \in 1..(Len(line) - m)
  <2> HIDE DEF u
  <2> QED BY <1>4, <1>6 DEF FirstToken, LastToken
<1> DEFINE a == m + c
           b == m + d
<1>8. value = SubSeq(line, a, b)
  <2>1. SubSeq(u, c, d) = SubSeq(line, m + 1 + c - 1, m + 1 + d - 1)
    BY <1>2, <1>6, <1>7, SubSeqOf
  <2>2. m + 1 + c - 1 = a /\ m + 1 + d - 1 = b
    BY <1>2, <1>7
  <2> QED BY <1>6, <2>1, <2>2
<1> HIDE DEF u
<1>9. Setting(line, p, m, a, b)
  <2>1. p \in 1..(m - 1) /\ FirstToken(line, p)
    BY <1>2, <1>3, <1>5 DEF FirstToken
  <2>2. \A i \in (p + 1)..(m - 1) : line[i] \in Blank
    BY <1>2, <1>3, <1>5, <2>1 DEF LastToken
  <2>3. b \in 1..Len(line) /\ line[b] \notin Blank /\ line[a] \notin Blank
    BY <1>2, <1>4, <1>6, <1>7 DEF FirstToken, LastToken
  <2>4. ASSUME NEW i \in (b + 1)..Len(line) PROVE line[i] \in Blank
    <3>1. PICK j \in (d + 1)..(Len(line) - m) : i = m + j
      <4>1. i - m \in (d + 1)..(Len(line) - m) /\ i = m + (i - m)
        BY <1>2, <1>7
      <4> QED BY <4>1
    <3>2. u[j] \in Blank /\ j \in 1..(Len(line) - m)
      BY <1>4, <1>6, <1>7, <3>1 DEF LastToken
    <3> QED BY <1>4, <3>1, <3>2
  <2>5. ASSUME NEW i \in (m + 1)..(a - 1) PROVE line[i] \in Blank
    <3>1. PICK j \in 1..(c - 1) : i = m + j
      <4>1. i - m \in 1..(c - 1) /\ i = m + (i - m)
        BY <1>2, <1>7
      <4> QED BY <4>1
    <3>2. u[j] \in Blank /\ j \in 1..(Len(line) - m)
      BY <1>4, <1>6, <1>7, <3>1 DEF FirstToken
    <3> QED BY <1>4, <3>1, <3>2
  <2>6. ASSUME NEW i \in a..b PROVE line[i] \in Allowed
    <3>1. PICK j \in 1..(b - a + 1) : i = a + j - 1
      <4>1. i - a + 1 \in 1..(b - a + 1) /\ i = a + (i - a + 1) - 1
        BY <1>2, <1>7
      <4> QED BY <4>1
    <3>2. a \in 1..(Len(line) + 1) /\ b \in 0..Len(line) /\ a <= b + 1
      BY <1>2, <1>6, <1>7
    <3> HIDE DEF a, b
    <3>3. Len(value) = b - a + 1 /\ value[j] = line[a + j - 1]
      BY <1>8, <3>2, SubSeqIs
    <3> QED BY <1>1, <3>1, <3>3
  <2>7. m \in (p + 1)..Len(line) /\ a \in (m + 1)..b
    BY <1>2, <1>6, <1>7, <2>1
  <2> HIDE DEF a, b
  <2> QED BY <1>1, <2>1, <2>2, <2>3, <2>4, <2>5, <2>6, <2>7 DEF Setting, LastToken
<1> HIDE DEF a, b
<1> QED BY <1>1, <1>5, <1>8, <1>9

LEMMA FirstUnique ==
  ASSUME NEW t, NEW a, NEW b, Len(t) \in Nat, FirstToken(t, a), FirstToken(t, b)
  PROVE  a = b
BY DEF FirstToken

LEMMA SettingUnique ==
  ASSUME NEW S, NEW line \in Seq(S),
         NEW p, NEW m, NEW a, NEW b, Setting(line, p, m, a, b),
         NEW q, NEW n, NEW c, NEW d, Setting(line, q, n, c, d)
  PROVE  p = q /\ m = n /\ a = c /\ b = d
<1>1. Len(line) \in Nat /\ p \in Nat /\ q \in Nat
  BY DEF Setting, FirstToken
<1>2. p = q
  BY <1>1, FirstUnique DEF Setting
<1>3. m \in Nat /\ n \in Nat /\ b \in Nat /\ d \in Nat
  BY <1>1 DEF Setting, LastToken
<1>4. "=" \notin Blank
  BY DEF Blank
<1>5. m = n
  <2>1. ~(m < n)
    <3>1. m < n => m \in (q + 1)..(n - 1)
      BY <1>1, <1>2, <1>3 DEF Setting
    <3> QED BY <1>4, <3>1 DEF Setting
  <2>2. ~(n < m)
    <3>1. n < m => n \in (p + 1)..(m - 1)
      BY <1>1, <1>2, <1>3 DEF Setting
    <3> QED BY <1>4, <3>1 DEF Setting
  <2> QED BY <1>3, <2>1, <2>2
<1>6. a \in Nat /\ c \in Nat
  BY <1>3 DEF Setting
<1>7. a = c
  <2>1. ~(a < c)
    <3>1. a < c => a \in (n + 1)..(c - 1)
      BY <1>3, <1>5, <1>6 DEF Setting
    <3> QED BY <3>1 DEF Setting
  <2>2. ~(c < a)
    <3>1. c < a => c \in (m + 1)..(a - 1)
      BY <1>3, <1>5, <1>6 DEF Setting
    <3> QED BY <3>1 DEF Setting
  <2> QED BY <1>6, <2>1, <2>2
<1>8. b = d
  <2>1. ~(b < d)
    <3>1. b < d => d \in (b + 1)..Len(line)
      BY <1>1, <1>3 DEF Setting, LastToken
    <3> QED BY <3>1 DEF Setting, LastToken
  <2>2. ~(d < b)
    <3>1. d < b => b \in (d + 1)..Len(line)
      BY <1>1, <1>3 DEF Setting, LastToken
    <3> QED BY <3>1 DEF Setting, LastToken
  <2> QED BY <1>3, <2>1, <2>2
<1> QED BY <1>2, <1>5, <1>7, <1>8

(***************************************************************************)
(* A line sets one key, to one value.                                      *)
(***************************************************************************)
LEMMA SetsUnique ==
  ASSUME NEW S, NEW line \in Seq(S), NEW k, NEW v, NEW l, NEW w,
         Sets(line, k, v), Sets(line, l, w)
  PROVE  k = l /\ v = w
<1>1. PICK p, m, a, b : Setting(line, p, m, a, b) /\ k = line[p] /\ v = SubSeq(line, a, b)
  BY SetsIs
<1>2. PICK q, n, c, d : Setting(line, q, n, c, d) /\ l = line[q] /\ w = SubSeq(line, c, d)
  BY SetsIs
<1>3. p = q /\ a = c /\ b = d
  BY <1>1, <1>2, SettingUnique
<1> QED BY <1>1, <1>2, <1>3

-----------------------------------------------------------------------------
(* The text of a file *)

TextAt(f, file, n) ==
  IF n = 0 THEN <<>>
  ELSE f[n - 1] \o (IF n = 1 THEN <<>> ELSE file.eol) \o file.lines[n]
IsText(f, file, k) == f = [n \in 0..k |-> TextAt(f, file, n)]

LEMMA TextElement ==
  ASSUME NEW f, NEW file, NEW k, IsText(f, file, k), NEW n \in 0..k
  PROVE  f[n] = TextAt(f, file, n)
<1> DEFINE h == [m \in 0..k |-> TextAt(f, file, m)]
<1>1. f = h
  BY DEF IsText
<1>2. h[n] = TextAt(f, file, n)
  OBVIOUS
<1> HIDE DEF h
<1> QED BY <1>1, <1>2

(***************************************************************************)
(* The function Contents defines exists.                                   *)
(***************************************************************************)
LEMMA TextExists == ASSUME NEW file PROVE \A k \in Nat : \E f : IsText(f, file, k)
<1> DEFINE S == {k \in Nat : \E f : IsText(f, file, k)}
<1>1. 0 \in S
  <2> DEFINE g == [n \in 0..0 |-> <<>>]
  <2>1. \A n \in 0..0 : <<>> = TextAt(g, file, n)
    BY DEF TextAt
  <2>2. g = [n \in 0..0 |-> TextAt(g, file, n)]
    BY <2>1
  <2> HIDE DEF g
  <2> QED BY <2>2 DEF IsText
<1>2. ASSUME NEW k \in S PROVE k + 1 \in S
  <2>1. PICK f : IsText(f, file, k)
    BY <1>2
  <2> DEFINE last == TextAt(f, file, k + 1)
             g == [n \in 0..(k + 1) |-> IF n = k + 1 THEN last ELSE f[n]]
  <2>2. ASSUME NEW n \in 0..(k + 1) PROVE TextAt(g, file, n) = TextAt(f, file, n)
    <3>1. n # 0 => g[n - 1] = f[n - 1]
      OBVIOUS
    <3> HIDE DEF g
    <3> QED BY <3>1 DEF TextAt
  <2>3. ASSUME NEW n \in 0..(k + 1) PROVE g[n] = TextAt(g, file, n)
    <3>1. CASE n = k + 1
      BY <2>2, <3>1
    <3>2. CASE n # k + 1
      <4>1. n \in 0..k /\ g[n] = f[n]
        BY <3>2
      <4>2. f[n] = TextAt(f, file, n)
        BY <2>1, <4>1, TextElement
      <4> QED BY <2>2, <4>1, <4>2
    <3> QED BY <3>1, <3>2
  <2>4. IsText(g, file, k + 1)
    <3>1. g = [n \in 0..(k + 1) |-> g[n]]
      OBVIOUS
    <3> HIDE DEF g
    <3> QED BY <2>3, <3>1 DEF IsText
  <2> QED BY <2>4
<1> HIDE DEF S
<1>3. S \in SUBSET Nat
  BY DEF S
<1>4. S = Nat
  BY <1>1, <1>2, <1>3, Induction
<1> QED BY <1>4 DEF S

LEMMA ContentsIsText ==
  ASSUME NEW file, Len(file.lines) \in Nat
  PROVE  \E f : IsText(f, file, Len(file.lines)) /\ Contents(file) = f[Len(file.lines)]
<1> DEFINE f == CHOOSE g : IsText(g, file, Len(file.lines))
<1>1. IsText(f, file, Len(file.lines))
  BY TextExists
<1>2. Contents(file) = f[Len(file.lines)]
  BY Zenon DEF Contents, IsText, TextAt
<1> QED BY <1>1, <1>2

-----------------------------------------------------------------------------
(***************************************************************************)
(* The provers know no member of STRING: those in the model are named.     *)
(***************************************************************************)
Token ==
  STRING \cup {"\n", "\r", "#", " ", "=", "words", "ServerPort", "23000", "ClientVersion",
               "20131016", "RequireVersion", "yes", "AuthenticationTimeout", "30"}

(***************************************************************************)
(* Where a file's lines are in its text: e[n] is the end of the n-th.      *)
(***************************************************************************)
FileOf(file) ==
  /\ file.lines \in Seq(Seq(Token)) /\ file.eol \in {<<"\n">>, <<"\r", "\n">>}
  /\ \A n \in 1..Len(file.lines) : \A i \in 1..Len(file.lines[n]) :
       file.lines[n][i] \notin {"\n", "nul"}

Gap(file, n) == IF n = 1 THEN 0 ELSE Len(file.eol)
From(file, e, n) == e[n - 1] + Gap(file, n) + 1

LaidTo(text, file, e, k) ==
  /\ e[0] = 0 /\ e[k] = Len(text)
  /\ \A n \in 0..k : e[n] \in Nat /\ e[n] <= Len(text)
  /\ \A n \in 1..k :
       /\ e[n] + 1 = From(file, e, n) + Len(file.lines[n])
       /\ \A i \in 1..Len(file.lines[n]) : text[From(file, e, n) + i - 1] = file.lines[n][i]
       /\ \A j \in 1..Gap(file, n) : text[e[n - 1] + j] = file.eol[j]

Laid(text, file, e) == text \in Seq(Token) /\ LaidTo(text, file, e, Len(file.lines))

LEMMA ThreeParts ==
  ASSUME NEW S, NEW x \in Seq(S), NEW y \in Seq(S), NEW z \in Seq(S)
  PROVE  /\ x \o y \o z \in Seq(S) /\ Len(x \o y \o z) = Len(x) + Len(y) + Len(z)
         /\ \A i \in 1..Len(x) : (x \o y \o z)[i] = x[i]
         /\ \A i \in 1..Len(y) : (x \o y \o z)[Len(x) + i] = y[i]
         /\ \A i \in 1..Len(z) : (x \o y \o z)[Len(x) + Len(y) + i] = z[i]
<1>1. Len(x) \in Nat /\ Len(y) \in Nat /\ Len(z) \in Nat
  OBVIOUS
<1> DEFINE u == x \o y
<1>2. /\ u \in Seq(S) /\ Len(u) = Len(x) + Len(y)
      /\ \A i \in 1..(Len(x) + Len(y)) : u[i] = IF i <= Len(x) THEN x[i] ELSE y[i - Len(x)]
  BY ConcatProperties
<1> HIDE DEF u
<1>3. /\ u \o z \in Seq(S) /\ Len(u \o z) = Len(u) + Len(z)
      /\ \A i \in 1..(Len(u) + Len(z)) :
           (u \o z)[i] = IF i <= Len(u) THEN u[i] ELSE z[i - Len(u)]
  <2>1. u \in Seq(S)
    BY <1>2
  <2> QED BY <2>1, ConcatProperties
<1>4. ASSUME NEW i \in 1..Len(x) PROVE (u \o z)[i] = x[i]
  BY <1>1, <1>2, <1>3
<1>5. ASSUME NEW i \in 1..Len(y) PROVE (u \o z)[Len(x) + i] = y[i]
  <2> DEFINE j == Len(x) + i
  <2>1. j \in 1..(Len(x) + Len(y)) /\ ~(j <= Len(x)) /\ j - Len(x) = i
        /\ j \in 1..(Len(u) + Len(z)) /\ j <= Len(u)
    BY <1>1, <1>2
  <2> HIDE DEF j
  <2>2. (u \o z)[j] = y[i]
    BY <1>2, <1>3, <2>1
  <2> QED BY <2>2 DEF j
<1>6. ASSUME NEW i \in 1..Len(z) PROVE (u \o z)[Len(x) + Len(y) + i] = z[i]
  <2> DEFINE j == Len(x) + Len(y) + i
  <2>1. j \in 1..(Len(u) + Len(z)) /\ ~(j <= Len(u)) /\ j - Len(u) = i
    BY <1>1, <1>2
  <2> HIDE DEF j
  <2>2. (u \o z)[j] = z[i]
    BY <1>3, <2>1
  <2> QED BY <2>2 DEF j
<1> QED BY <1>2, <1>3, <1>4, <1>5, <1>6 DEF u

LEMMA FileTyped ==
  ASSUME NEW file, FileOf(file)
  PROVE  /\ Len(file.lines) \in Nat /\ file.eol \in Seq(Token)
         /\ \A n \in 1..Len(file.lines) :
              /\ file.lines[n] \in Seq(Token) /\ Len(file.lines[n]) \in Nat
              /\ Gap(file, n) \in Nat
<1>1. <<"\n">> \in Seq(Token) /\ <<"\r", "\n">> \in Seq(Token)
  <2>1. \A S : \A x, y \in S : <<x>> \in Seq(S) /\ <<x, y>> \in Seq(S)
    OBVIOUS
  <2>2. "\n" \in Token /\ "\r" \in Token
    BY DEF Token
  <2> QED BY <2>1, <2>2, Zenon
<1>2. file.lines \in Seq(Seq(Token)) /\ file.eol \in Seq(Token)
  BY <1>1 DEF FileOf
<1>3. Len(file.lines) \in Nat /\ Len(file.eol) \in Nat
  BY <1>2
<1>4. \A n \in 1..Len(file.lines) : file.lines[n] \in Seq(Token)
  BY <1>2
<1> QED BY <1>2, <1>3, <1>4 DEF Gap

LEMMA InBounds ==
  ASSUME NEW a \in Nat, NEW g \in Nat, NEW m \in Nat, NEW end \in Nat, NEW L \in Nat,
         end + 1 = a + g + 1 + m, end <= L
  PROVE  /\ \A i \in 1..m : a + g + 1 + i - 1 \in 1..L
         /\ \A j \in 1..g : a + j \in 1..L
  OBVIOUS

(***************************************************************************)
(* One line more.                                                          *)
(***************************************************************************)
LEMMA LaidStep ==
  ASSUME NEW file, FileOf(file), NEW e, NEW k \in Nat, k + 1 <= Len(file.lines),
         NEW s \in Seq(Token), LaidTo(s, file, e, k),
         NEW t, t = s \o (IF k + 1 = 1 THEN <<>> ELSE file.eol) \o file.lines[k + 1],
         e[k + 1] = Len(t)
  PROVE  t \in Seq(Token) /\ LaidTo(t, file, e, k + 1)
<1> DEFINE gap == IF k + 1 = 1 THEN <<>> ELSE file.eol
           line == file.lines[k + 1]
           g == Gap(file, k + 1)
<1>1. k + 1 \in 1..Len(file.lines) /\ k \in 0..Len(file.lines) /\ Len(s) \in Nat
  BY FileTyped
<1>2. gap \in Seq(Token) /\ line \in Seq(Token) /\ Len(line) \in Nat /\ g \in Nat
  <2>1. <<>> \in Seq(Token)
    OBVIOUS
  <2> QED BY <1>1, <2>1, FileTyped
<1>3. Len(gap) = g /\ \A j \in 1..g : gap[j] = file.eol[j]
  <2>1. CASE k + 1 = 1
    BY <2>1 DEF Gap
  <2>2. CASE k + 1 # 1
    BY <2>2 DEF Gap
  <2> QED BY <2>1, <2>2
<1> HIDE DEF gap, line, g
<1>4. t = s \o gap \o line
  BY DEF gap, line
<1>5. /\ t \in Seq(Token) /\ Len(t) = Len(s) + g + Len(line)
      /\ \A i \in 1..Len(s) : t[i] = s[i]
      /\ \A i \in 1..g : t[Len(s) + i] = gap[i]
      /\ \A i \in 1..Len(line) : t[Len(s) + g + i] = line[i]
  <2>1. /\ s \o gap \o line \in Seq(Token)
        /\ Len(s \o gap \o line) = Len(s) + Len(gap) + Len(line)
        /\ \A i \in 1..Len(s) : (s \o gap \o line)[i] = s[i]
        /\ \A i \in 1..Len(gap) : (s \o gap \o line)[Len(s) + i] = gap[i]
        /\ \A i \in 1..Len(line) : (s \o gap \o line)[Len(s) + Len(gap) + i] = line[i]
    BY <1>2, ThreeParts
  <2> QED BY <1>3, <1>4, <2>1
<1>6. /\ e[0] = 0 /\ e[k] = Len(s)
      /\ \A n \in 0..k : e[n] \in Nat /\ e[n] <= Len(s)
      /\ \A n \in 1..k :
           /\ e[n] + 1 = From(file, e, n) + Len(file.lines[n])
           /\ \A i \in 1..Len(file.lines[n]) : s[From(file, e, n) + i - 1] = file.lines[n][i]
           /\ \A j \in 1..Gap(file, n) : s[e[n - 1] + j] = file.eol[j]
  BY DEF LaidTo
<1>7. ASSUME NEW n \in 0..(k + 1) PROVE e[n] \in Nat /\ e[n] <= Len(t)
  <2> DEFINE x == Len(s)
             y == Len(line)
             z == Len(t)
  <2>1. z = x + g + y /\ x \in Nat /\ y \in Nat /\ e[k + 1] = z
    BY <1>1, <1>2, <1>5
  <2> HIDE DEF x, y, z
  <2>4. z \in Nat /\ x <= z
    BY <1>2, <2>1
  <2>2. CASE n = k + 1
    <3>1. e[n] = z /\ z \in Nat /\ z <= z
      BY <2>1, <2>2, <2>4
    <3> QED BY <3>1 DEF z
  <2>3. CASE n # k + 1
    <3>1. n \in 0..k
      BY <2>3
    <3>2. e[n] \in Nat /\ e[n] <= x
      BY <1>6, <3>1 DEF x
    <3>3. e[n] <= z
      BY <2>1, <2>4, <3>2
    <3> QED BY <3>2, <3>3 DEF z
  <2> QED BY <2>2, <2>3
<1>8. ASSUME NEW n \in 1..(k + 1)
      PROVE  /\ e[n] + 1 = From(file, e, n) + Len(file.lines[n])
             /\ \A i \in 1..Len(file.lines[n]) :
                  t[From(file, e, n) + i - 1] = file.lines[n][i]
             /\ \A j \in 1..Gap(file, n) : t[e[n - 1] + j] = file.eol[j]
  <2>1. CASE n = k + 1
    <3>1. n - 1 = k
      BY <2>1
    <3>2. From(file, e, n) = Len(s) + g + 1 /\ Gap(file, n) = g /\ file.lines[n] = line
      BY <1>6, <2>1, <3>1 DEF From, g, line
    <3>3. \A i \in 1..Len(line) : Len(s) + g + 1 + i - 1 = Len(s) + g + i
      BY <1>1, <1>2
    <3>4. e[n] + 1 = From(file, e, n) + Len(line)
      <4>1. Len(s) + g + Len(line) + 1 = Len(s) + g + 1 + Len(line)
        BY <1>1, <1>2
      <4> QED BY <1>5, <2>1, <3>2, <4>1
    <3>5. \A i \in 1..Len(line) : t[From(file, e, n) + i - 1] = line[i]
      <4> TAKE i \in 1..Len(line)
      <4>1. From(file, e, n) + i - 1 = Len(s) + g + i
        BY <3>2, <3>3
      <4>2. t[Len(s) + g + i] = line[i]
        BY <1>5
      <4> QED BY <4>1, <4>2
    <3>6. \A j \in 1..g : t[e[n - 1] + j] = file.eol[j]
      BY <1>3, <1>5, <1>6, <3>1
    <3> QED BY <3>2, <3>4, <3>5, <3>6
  <2>2. CASE n # k + 1
    <3>1. n \in 1..k /\ n - 1 \in 0..k /\ n \in 0..k /\ n \in 1..Len(file.lines)
      BY <1>1, <2>2
    <3> DEFINE a == e[n - 1]
               d == Gap(file, n)
               m == Len(file.lines[n])
               end == e[n]
    <3>2. a \in Nat /\ d \in Nat /\ m \in Nat /\ end \in Nat
      BY <1>6, <3>1, FileTyped
    <3>3. From(file, e, n) = a + d + 1
      BY DEF From
    <3>4. end + 1 = a + d + 1 + m /\ end <= Len(s)
      BY <1>6, <3>1, <3>3
    <3> HIDE DEF a, d, m, end
    <3>5. (\A i \in 1..m : a + d + 1 + i - 1 \in 1..Len(s)) /\ \A j \in 1..d : a + j \in 1..Len(s)
      BY <1>1, <3>2, <3>4, InBounds
    <3>6. \A i \in 1..m : s[a + d + 1 + i - 1] = file.lines[n][i]
      BY <1>6, <3>1, <3>3 DEF m
    <3>7. \A j \in 1..d : s[a + j] = file.eol[j]
      BY <1>6, <3>1 DEF a, d
    <3>8. \A i \in 1..m : t[a + d + 1 + i - 1] = file.lines[n][i]
      BY <1>5, <3>5, <3>6
    <3>9. \A j \in 1..d : t[a + j] = file.eol[j]
      BY <1>5, <3>5, <3>7
    <3> QED BY <3>3, <3>4, <3>8, <3>9 DEF a, d, m, end
  <2> QED BY <2>1, <2>2
<1> QED BY <1>5, <1>6, <1>7, <1>8 DEF LaidTo

LEMMA TextLaid ==
  ASSUME NEW file, FileOf(file), NEW f, IsText(f, file, Len(file.lines)),
         NEW e, \A n \in 0..Len(file.lines) : e[n] = Len(f[n])
  PROVE  \A k \in 0..Len(file.lines) : f[k] \in Seq(Token) /\ LaidTo(f[k], file, e, k)
<1> DEFINE N == Len(file.lines)
           P(k) == f[k] \in Seq(Token) /\ LaidTo(f[k], file, e, k)
           S == {k \in Nat : k <= N => P(k)}
<1>1. N \in Nat
  BY FileTyped
<1>2. 0 \in S
  <2>1. f[0] = <<>>
    BY <1>1, TextElement DEF TextAt
  <2>2. <<>> \in Seq(Token) /\ Len(<<>>) = 0
    OBVIOUS
  <2>3. e[0] = 0
    BY <1>1, <2>1, <2>2
  <2>4. LaidTo(f[0], file, e, 0)
    BY <2>1, <2>2, <2>3 DEF LaidTo
  <2> QED BY <2>1, <2>2, <2>4
<1>3. ASSUME NEW k \in S PROVE k + 1 \in S
  <2> SUFFICES ASSUME k + 1 <= N PROVE P(k + 1)
    OBVIOUS
  <2>1. k \in Nat /\ k + 1 \in 0..N /\ P(k)
    BY <1>1
  <2>2. f[k + 1] = f[k] \o (IF k + 1 = 1 THEN <<>> ELSE file.eol) \o file.lines[k + 1]
    <3>1. PICK m \in 0..N : m = k + 1
      BY <2>1
    <3>2. f[m] = TextAt(f, file, m)
      BY TextElement
    <3>3. m # 0 /\ m - 1 = k
      BY <2>1, <3>1
    <3> QED BY <3>1, <3>2, <3>3 DEF TextAt
  <2>3. e[k + 1] = Len(f[k + 1])
    BY <2>1
  <2> DEFINE s == f[k]
             t == f[k + 1]
  <2> HIDE DEF s, t
  <2>4. t \in Seq(Token) /\ LaidTo(t, file, e, k + 1)
    <3>1. s \in Seq(Token) /\ LaidTo(s, file, e, k)
      BY <2>1 DEF s
    <3>2. t = s \o (IF k + 1 = 1 THEN <<>> ELSE file.eol) \o file.lines[k + 1]
      BY <2>2 DEF s, t
    <3>3. e[k + 1] = Len(t)
      BY <2>3 DEF t
    <3>4. k \in Nat /\ k + 1 <= Len(file.lines)
      BY <2>1
    <3> QED BY <3>1, <3>2, <3>3, <3>4, LaidStep
  <2> QED BY <2>4 DEF t
<1>4. \A k \in 0..N : k \in Nat /\ k <= N
  BY <1>1
<1> HIDE DEF S
<1>5. S = Nat
  <2>1. S \in SUBSET Nat
    BY DEF S
  <2> QED BY <1>2, <1>3, <2>1, Induction
<1>6. ASSUME NEW k \in 0..N PROVE P(k)
  <2>1. k \in S /\ k <= N
    BY <1>4, <1>5
  <2> QED BY <2>1 DEF S
<1> QED BY <1>6

LEMMA ContentsLaid ==
  ASSUME NEW file, FileOf(file)
  PROVE  \E e : Laid(Contents(file), file, e)
<1>1. Len(file.lines) \in Nat
  BY DEF FileOf
<1>2. PICK f : IsText(f, file, Len(file.lines)) /\ Contents(file) = f[Len(file.lines)]
  BY <1>1, ContentsIsText
<1>3. PICK e : \A n \in 0..Len(file.lines) : e[n] = Len(f[n])
  <2> DEFINE d == [n \in 0..Len(file.lines) |-> Len(f[n])]
  <2>1. \A n \in 0..Len(file.lines) : d[n] = Len(f[n])
    OBVIOUS
  <2> QED BY <2>1
<1>4. Len(file.lines) \in 0..Len(file.lines)
  BY <1>1
<1>5. Laid(Contents(file), file, e)
  BY <1>2, <1>3, <1>4, TextLaid DEF Laid
<1> QED BY <1>5

-----------------------------------------------------------------------------
(* The parser in a line *)

LEMMA SkipIs ==
  ASSUME NEW i \in Nat, NEW S, NEW x \in i..(Len(buf) + 1), Len(buf) \in Nat,
         At(x) \notin S, \A j \in i..(x - 1) : At(j) \in S
  PROVE  Skip(i, S) = x
<1> DEFINE T == {j \in i..(Len(buf) + 1) : At(j) \notin S}
<1>1. x \in T /\ T \in SUBSET Int
  OBVIOUS
<1>2. ASSUME NEW y \in T PROVE x <= y
  <2>1. ~(y \in i..(x - 1))
    OBVIOUS
  <2> QED BY <2>1
<1> HIDE DEF T
<1>3. Min(T) = x
  BY <1>1, <1>2, MinIs
<1> QED BY <1>3 DEF Skip, T

LEMMA LaidFacts ==
  ASSUME NEW file, FileOf(file), NEW e, Laid(buf, file, e), NEW n \in 1..Len(file.lines)
  PROVE  /\ e[n] \in Nat /\ e[n] <= Len(buf) /\ Len(buf) \in Nat /\ From(file, e, n) \in Nat
         /\ From(file, e, n) >= 1 /\ Len(file.lines[n]) \in Nat /\ Len(file.lines) \in Nat
         /\ e[n] + 1 = From(file, e, n) + Len(file.lines[n])
<1>1. n - 1 \in 0..Len(file.lines) /\ n \in 0..Len(file.lines) /\ Len(file.lines) \in Nat
  BY FileTyped
<1>2. Gap(file, n) \in Nat /\ Len(file.lines[n]) \in Nat /\ Len(buf) \in Nat
  BY FileTyped DEF Laid
<1>3. e[n] \in Nat /\ e[n - 1] \in Nat /\ e[n] <= Len(buf)
      /\ e[n] + 1 = From(file, e, n) + Len(file.lines[n])
  BY <1>1 DEF Laid, LaidTo
<1>4. From(file, e, n) \in Nat /\ From(file, e, n) >= 1
  <2> DEFINE x == e[n - 1]
             y == Gap(file, n)
  <2>1. x \in Nat /\ y \in Nat /\ From(file, e, n) = x + y + 1
    BY <1>2, <1>3 DEF From
  <2> HIDE DEF x, y
  <2> QED BY <2>1
<1> QED BY <1>1, <1>2, <1>3, <1>4

LEMMA AtLine ==
  ASSUME NEW file, FileOf(file), NEW e, Laid(buf, file, e), NEW n \in 1..Len(file.lines),
         NEW i \in 1..Len(file.lines[n])
  PROVE  /\ From(file, e, n) + i - 1 \in 1..e[n]
         /\ buf[From(file, e, n) + i - 1] = file.lines[n][i]
         /\ At(From(file, e, n) + i - 1) = file.lines[n][i]
<1>1. From(file, e, n) + i - 1 \in 1..e[n] /\ e[n] <= Len(buf) /\ Len(buf) \in Nat
      /\ e[n] \in Nat
  <2> DEFINE x == From(file, e, n)
             y == Len(file.lines[n])
             z == e[n]
  <2>1. x \in Nat /\ y \in Nat /\ z \in Nat /\ x >= 1 /\ z + 1 = x + y /\ i \in 1..y
        /\ z <= Len(buf) /\ Len(buf) \in Nat
    BY LaidFacts
  <2> HIDE DEF x, y, z
  <2>2. x + i - 1 \in 1..z
    BY <2>1
  <2> QED BY <2>1, <2>2 DEF x, y, z
<1>2. buf[From(file, e, n) + i - 1] = file.lines[n][i]
  BY DEF Laid, LaidTo
<1>3. From(file, e, n) + i - 1 <= Len(buf)
  BY <1>1
<1> QED BY <1>1, <1>2, <1>3 DEF At

(***************************************************************************)
(* Behind a line is an end of line, or the end of the text.                *)
(***************************************************************************)
LEMMA AtEnd ==
  ASSUME NEW file, FileOf(file), NEW e, Laid(buf, file, e), NEW n \in 1..Len(file.lines)
  PROVE  /\ n = Len(file.lines) => e[n] = Len(buf) /\ At(e[n] + 1) = "nul"
         /\ n # Len(file.lines) =>
              /\ n + 1 \in 1..Len(file.lines)
              /\ From(file, e, n + 1) = e[n] + Len(file.eol) + 1
              /\ e[n] + Len(file.eol) <= Len(buf)
              /\ Len(file.eol) \in {1, 2} /\ file.eol[Len(file.eol)] = "\n"
              /\ \A j \in 1..Len(file.eol) :
                   At(e[n] + j) = file.eol[j] /\ file.eol[j] \in {"\r", "\n"}
                   /\ buf[e[n] + j] = file.eol[j]
<1>1. e[n] \in Nat /\ Len(buf) \in Nat /\ Len(file.lines) \in Nat /\ e[n] <= Len(buf)
  BY LaidFacts
<1>2. CASE n = Len(file.lines)
  <2>1. e[n] = Len(buf)
    BY <1>2 DEF Laid, LaidTo
  <2>2. ~(e[n] + 1 <= Len(buf))
    BY <1>1, <2>1
  <2> QED BY <1>2, <2>1, <2>2 DEF At
<1>3. CASE n # Len(file.lines)
  <2>1. PICK m \in 1..Len(file.lines) : m = n + 1 /\ m # 1 /\ m - 1 = n
    BY <1>1, <1>3
  <2>2. Len(file.eol) \in {1, 2} /\ file.eol[Len(file.eol)] = "\n"
        /\ \A j \in 1..Len(file.eol) : file.eol[j] \in {"\r", "\n"}
    <3>1. CASE file.eol = <<"\n">>
      BY <3>1
    <3>2. CASE file.eol = <<"\r", "\n">>
      <4>1. Len(file.eol) = 2 /\ file.eol[1] = "\r" /\ file.eol[2] = "\n"
        BY <3>2
      <4> QED BY <4>1
    <3> QED BY <3>1, <3>2 DEF FileOf
  <2>3. From(file, e, m) = e[n] + Len(file.eol) + 1 /\ Gap(file, m) = Len(file.eol)
    BY <2>1 DEF From, Gap
  <2>4. \A j \in 1..Len(file.eol) : buf[e[n] + j] = file.eol[j]
    BY <2>1, <2>3 DEF Laid, LaidTo
  <2>5. e[n] + Len(file.eol) <= Len(buf)
    <3> DEFINE x == From(file, e, m)
               y == Len(file.lines[m])
               z == e[m]
               g == Len(file.eol)
    <3>1. x \in Nat /\ y \in Nat /\ z \in Nat /\ z + 1 = x + y /\ z <= Len(buf)
      BY LaidFacts
    <3>2. x = e[n] + g + 1 /\ g \in Nat
      BY <2>2, <2>3
    <3> HIDE DEF x, y, z, g
    <3>3. e[n] + g <= Len(buf)
      BY <1>1, <3>1, <3>2
    <3> QED BY <3>3 DEF g
  <2>6. \A j \in 1..Len(file.eol) : At(e[n] + j) = file.eol[j]
    <3> DEFINE g == Len(file.eol)
    <3>1. g \in Nat /\ e[n] + g <= Len(buf)
      BY <2>2, <2>5
    <3> HIDE DEF g
    <3>2. \A j \in 1..g : e[n] + j <= Len(buf)
      BY <1>1, <3>1
    <3> QED BY <2>4, <3>2 DEF g, At
  <2> QED BY <1>3, <2>1, <2>2, <2>3, <2>4, <2>5, <2>6
<1> QED BY <1>2, <1>3

(***************************************************************************)
(* The parser is in the n-th line, and has seen nothing but blanks of it;  *)
(* or it is behind it.                                                     *)
(***************************************************************************)
Here(file, e, n) ==
  /\ n \in 1..Len(file.lines) /\ ptr \in From(file, e, n)..(e[n] + 1)
  /\ \A i \in 1..Len(file.lines[n]) :
       From(file, e, n) + i - 1 < ptr => file.lines[n][i] \in Blank

Past(file, e, n) ==
  /\ n \in 1..Len(file.lines) /\ ptr \in Nat /\ ptr > e[n]
  /\ n # Len(file.lines) => ptr <= From(file, e, n + 1)

(***************************************************************************)
(* A comment is passed over to the end of its line.                        *)
(***************************************************************************)
LEMMA CommentPassed ==
  ASSUME NEW file, FileOf(file), NEW e, Laid(buf, file, e), NEW n, Here(file, e, n),
         ptr <= e[n], ParseComment
  PROVE  Past(file, e, n)'
<1> DEFINE x == From(file, e, n)
           y == Len(file.lines[n])
           z == e[n]
           L == Len(buf)
           T == {j \in (ptr + 1)..(L + 1) : j > L \/ buf[j - 1] = "\n"}
<1>1. n \in 1..Len(file.lines) /\ x \in Nat /\ y \in Nat /\ z \in Nat /\ L \in Nat
      /\ z + 1 = x + y /\ z <= L /\ x >= 1 /\ ptr \in x..z
  <2>1. n \in 1..Len(file.lines) /\ ptr \in x..(z + 1) /\ ptr <= z
    BY DEF Here
  <2>2. x \in Nat /\ y \in Nat /\ z \in Nat /\ L \in Nat /\ z + 1 = x + y /\ z <= L /\ x >= 1
    BY <2>1, LaidFacts
  <2> HIDE DEF x, y, z, L
  <2>3. ptr \in x..z
    BY <2>1, <2>2
  <2> QED BY <2>1, <2>2, <2>3
<1>2. ptr' = Min(T) /\ buf' = buf
  BY DEF ParseComment
<1>3. ASSUME NEW j \in x..z PROVE buf[j] # "\n"
  <2>1. j - x + 1 \in 1..y /\ x + (j - x + 1) - 1 = j
    <3> HIDE DEF x, y, z, L
    <3> QED BY <1>1
  <2>2. buf[j] = file.lines[n][j - x + 1]
    BY <1>1, <2>1, AtLine
  <2>3. file.lines[n][j - x + 1] # "\n"
    BY <1>1, <2>1 DEF FileOf
  <2> QED BY <2>2, <2>3
<1>4. CASE n = Len(file.lines)
  <2>1. z = L
    BY <1>1, <1>4, AtEnd
  <2> HIDE DEF x, y, z
  <2>2. L + 1 \in T /\ T \in SUBSET Int /\ \A j \in T : L + 1 <= j
    <3>1. ASSUME NEW j \in T, j # L + 1 PROVE FALSE
      <4>1. j - 1 \in x..z /\ ~(j > L) /\ buf[j - 1] = "\n"
        BY <1>1, <2>1, <3>1
      <4> QED BY <1>3, <4>1
    <3>2. L + 1 \in T /\ T \in SUBSET Int
      BY <1>1
    <3> QED BY <3>1, <3>2
  <2> HIDE DEF T
  <2>3. Min(T) = L + 1
    BY <2>2, MinIs
  <2>4. ptr' = L + 1 /\ ptr' \in Nat /\ ptr' > z
    BY <1>1, <1>2, <2>1, <2>3
  <2> QED BY <1>1, <1>4, <2>4 DEF Past, z
<1>5. CASE n # Len(file.lines)
  <2> DEFINE g == Len(file.eol)
  <2>1. /\ From(file, e, n + 1) = z + g + 1 /\ z + g <= L /\ g \in {1, 2}
        /\ file.eol[g] = "\n"
        /\ \A j \in 1..g : buf[z + j] = file.eol[j]
    BY <1>1, <1>5, AtEnd
  <2>2. g = 2 => file.eol[1] = "\r"
    <3>1. CASE file.eol = <<"\n">>
      BY <3>1
    <3>2. CASE file.eol = <<"\r", "\n">>
      BY <3>2
    <3> QED BY <3>1, <3>2 DEF FileOf
  <2> HIDE DEF x, y, z, g
  <2>3. buf[z + g] = "\n" /\ (g = 2 => buf[z + 1] = "\r")
    BY <2>1, <2>2
  <2>4. z + g + 1 \in T
    BY <1>1, <2>1, <2>3
  <2>5. ASSUME NEW j \in T PROVE z + g + 1 <= j
    <3> SUFFICES ASSUME ~(z + g + 1 <= j) PROVE FALSE
      OBVIOUS
    <3>1. j \in Int /\ j >= ptr + 1 /\ ~(j > L) /\ buf[j - 1] = "\n"
      BY <1>1, <2>1
    <3>2. CASE j - 1 <= z
      <4>1. j - 1 \in x..z
        BY <1>1, <3>1, <3>2
      <4> QED BY <1>3, <3>1, <4>1
    <3>3. CASE ~(j - 1 <= z)
      <4>1. g = 2 /\ j - 1 = z + 1
        BY <1>1, <2>1, <3>1, <3>3
      <4> QED BY <2>3, <3>1, <4>1
    <3> QED BY <3>2, <3>3
  <2>6. T \in SUBSET Int
    BY <1>1
  <2> HIDE DEF T
  <2>7. Min(T) = z + g + 1
    BY <2>4, <2>5, <2>6, MinIs
  <2>8. ptr' = z + g + 1 /\ ptr' \in Nat /\ ptr' > z
    BY <1>1, <1>2, <2>1, <2>7
  <2>9. ptr' <= z + g + 1
    BY <1>1, <2>1, <2>8
  <2> QED BY <1>1, <2>1, <2>8, <2>9 DEF Past, z, g
<1> QED BY <1>4, <1>5

(***************************************************************************)
(* A setting is read as its line says, and the line is then passed over.   *)
(***************************************************************************)
LEMMA SettingRead ==
  ASSUME NEW file, FileOf(file), NEW e, Laid(buf, file, e), NEW n \in 1..Len(file.lines),
         NEW p, NEW m, NEW a, NEW b, Setting(file.lines[n], p, m, a, b),
         ptr = From(file, e, n) + p - 1, file.lines[n][p] \in Word,
         layout \in BOOLEAN,
         layout \/ file.lines[n][Len(file.lines[n])] \notin Blank
  PROVE  /\ IsSetting /\ At(ptr) = file.lines[n][p] /\ buf[ptr] = file.lines[n][p]
         /\ Value = SubSeq(file.lines[n], a, b)
         /\ Ending = e[n] + 1
<1> DEFINE x == From(file, e, n)
           line == file.lines[n]
           y == Len(line)
           z == e[n]
           L == Len(buf)
<1>1. x \in Nat /\ y \in Nat /\ z \in Nat /\ L \in Nat /\ z + 1 = x + y /\ z <= L /\ x >= 1
  BY LaidFacts
<1>2. /\ p \in 1..y /\ m \in (p + 1)..y /\ a \in (m + 1)..b /\ b \in 1..y
      /\ line \in Seq(Token)
  BY FileTyped DEF Setting, FirstToken, LastToken
<1>3. \A i \in 1..y : At(x + i - 1) = line[i] /\ buf[x + i - 1] = line[i]
  BY AtLine
<1>4. buf \in Seq(Token)
  BY DEF Laid
<1>5. /\ line[m] = "=" /\ line[a] \notin Blank /\ line[p] \in Word /\ line[b] \notin Blank
      /\ \A i \in (p + 1)..(m - 1) : line[i] \in Blank
      /\ \A i \in (m + 1)..(a - 1) : line[i] \in Blank
      /\ \A i \in a..b : line[i] \in Allowed
      /\ \A i \in (b + 1)..y : line[i] \in Blank
  BY DEF Setting, LastToken
<1>6. At(z + 1) \in {"\r", "\n", "nul"}
  <2>1. CASE n = Len(file.lines)
    BY <2>1, AtEnd
  <2>2. CASE n # Len(file.lines)
    <3>1. At(z + 1) \in {"\r", "\n"}
      <4>1. 1 \in 1..Len(file.eol)
        <5>1. Len(file.eol) \in {1, 2}
          BY <2>2, AtEnd
        <5>2. \A g \in {1, 2} : 1 \in 1..g
          OBVIOUS
        <5> QED BY <5>1, <5>2
      <4> QED BY <2>2, <4>1, AtEnd
    <3> QED BY <3>1
  <2> QED BY <2>1, <2>2
<1>7. ptr = x + p - 1 /\ (layout \/ line[y] \notin Blank)
  OBVIOUS
<1> HIDE DEF x, line, y, z, L
<1>8. \A j \in x..z : \E i \in 1..y : j = x + i - 1
  <2> TAKE j \in x..z
  <2>1. j - x + 1 \in 1..y /\ j = x + (j - x + 1) - 1
    BY <1>1
  <2> QED BY <2>1
<1>9. Equals = x + m - 1
  <2> DEFINE k == x + m - 1
  <2>1. k \in (ptr + 1)..(L + 1) /\ ptr + 1 \in Nat
    BY <1>1, <1>2, <1>7
  <2>2. At(k) \notin Blank
    <3>1. m \in 1..y
      BY <1>1, <1>2
    <3> QED BY <1>3, <1>5, <3>1 DEF Blank
  <2>3. ASSUME NEW j \in (ptr + 1)..(k - 1) PROVE At(j) \in Blank
    <3>1. j \in x..z
      BY <1>1, <1>2, <1>7
    <3>2. PICK i \in 1..y : j = x + i - 1
      BY <1>8, <3>1
    <3>3. i \in (p + 1)..(m - 1)
      BY <1>1, <1>2, <1>7, <3>2
    <3> QED BY <1>3, <1>5, <3>2, <3>3
  <2> HIDE DEF k
  <2>4. Skip(ptr + 1, Blank) = k
    BY <1>1, <2>1, <2>2, <2>3, SkipIs DEF L
  <2> QED BY <2>4 DEF Equals, SkipWhitespace, k
<1>10. First = x + a - 1
  <2> DEFINE k == x + a - 1
             f == Equals + 1
  <2>1. k \in f..(L + 1) /\ f \in Nat
    BY <1>1, <1>2, <1>9
  <2>2. At(k) \notin Blank
    <3>1. a \in 1..y
      BY <1>1, <1>2
    <3> QED BY <1>3, <1>5, <3>1
  <2>3. ASSUME NEW j \in f..(k - 1) PROVE At(j) \in Blank
    <3>1. j \in x..z
      BY <1>1, <1>2, <1>9
    <3>2. PICK i \in 1..y : j = x + i - 1
      BY <1>8, <3>1
    <3>3. i \in (m + 1)..(a - 1)
      BY <1>1, <1>2, <1>9, <3>2
    <3> QED BY <1>3, <1>5, <3>2, <3>3
  <2> HIDE DEF k, f
  <2>4. Skip(f, Blank) = k
    BY <1>1, <2>1, <2>2, <2>3, SkipIs DEF L
  <2> QED BY <2>4 DEF First, SkipWhitespace, k, f
<1>11. Ending = z + 1
  <2> DEFINE k == z + 1
             f == First
             S == Word \cup Digits \cup Blank
  <2>1. k \in f..(L + 1) /\ f \in Nat
    BY <1>1, <1>2, <1>10
  <2>2. At(k) \notin S
    BY <1>6, TextAssumption DEF Blank
  <2>3. ASSUME NEW j \in f..(k - 1) PROVE At(j) \in S
    <3>1. j \in x..z
      BY <1>1, <1>2, <1>10
    <3>2. PICK i \in 1..y : j = x + i - 1
      BY <1>8, <3>1
    <3>3. i \in a..b \/ i \in (b + 1)..y
      BY <1>1, <1>2, <1>10, <3>2
    <3>4. line[i] \in S
      BY <1>5, <3>3 DEF Allowed
    <3> QED BY <1>3, <3>2, <3>4
  <2> HIDE DEF k, f, S
  <2>4. Skip(f, S) = k
    BY <1>1, <2>1, <2>2, <2>3, SkipIs DEF L
  <2> QED BY <2>4 DEF Ending, k, f, S
<1> DEFINE u == SubSeq(buf, First, Ending - 1)
           w == SubSeq(line, a, y)
<1>12. u = w
  <2> DEFINE k == x + a - 1
  <2>0. k \in 1..(L + 1) /\ z \in 0..L /\ k <= z + 1 /\ a \in 1..(y + 1) /\ y \in 0..y
        /\ a <= y + 1 /\ z - k + 1 = y - a + 1 /\ First = k /\ Ending - 1 = z
    BY <1>1, <1>2, <1>10, <1>11
  <2>1. u \in Seq(Token) /\ Len(u) = z - k + 1 /\ \A i \in 1..(z - k + 1) : u[i] = buf[k + i - 1]
    BY <1>4, <2>0, SubSeqIs DEF L
  <2>2. w \in Seq(Token) /\ Len(w) = y - a + 1 /\ \A i \in 1..(y - a + 1) : w[i] = line[a + i - 1]
    BY <1>2, <2>0, SubSeqIs DEF y
  <2> HIDE DEF u, w
  <2>3. ASSUME NEW i \in 1..(y - a + 1) PROVE u[i] = w[i]
    <3>1. a + i - 1 \in 1..y /\ k + i - 1 = x + (a + i - 1) - 1
      BY <1>1, <1>2
    <3>2. buf[x + (a + i - 1) - 1] = line[a + i - 1]
      BY <1>3, <3>1
    <3> QED BY <2>0, <2>1, <2>2, <3>1, <3>2
  <2> QED BY <2>0, <2>1, <2>2, <2>3, SeqEqual
<1>13. Trim(w) = SubSeq(line, a, b)
  <2>1. CASE layout
    <3> DEFINE d == b - a + 1
    <3>0. a \in 1..(y + 1) /\ y \in 0..y /\ a <= y + 1 /\ y \in Nat /\ 1 <= d
      BY <1>1, <1>2
    <3>1. w \in Seq(Token) /\ Len(w) = y - a + 1 /\ \A i \in 1..(y - a + 1) : w[i] = line[a + i - 1]
      BY <1>2, <3>0, SubSeqIs DEF y
    <3>2. LastToken(w, d)
      <4>1. d \in 1..(y - a + 1) /\ a + d - 1 = b
        BY <1>1, <1>2
      <4>2. ASSUME NEW i \in (d + 1)..(y - a + 1) PROVE w[i] \in Blank
        <5>1. i \in 1..(y - a + 1) /\ a + i - 1 \in (b + 1)..y
          BY <1>1, <1>2
        <5> QED BY <1>5, <3>1, <5>1
      <4> HIDE DEF w, d
      <4> QED BY <1>5, <3>1, <4>1, <4>2 DEF LastToken
    <3>3. TrimEnd(w) = SubSeq(w, 1, d)
      <4> HIDE DEF w, d
      <4> QED BY <3>1, <3>2, TrimEndIs
    <3>4. SubSeq(w, 1, d) = SubSeq(line, a, b)
      <4>1. 1 \in 1..(y - a + 1) /\ d \in 1..(y - a + 1) /\ a + 1 - 1 = a /\ a + d - 1 = b
        BY <1>1, <1>2
      <4> HIDE DEF d
      <4>2. SubSeq(w, 1, d) = SubSeq(line, a + 1 - 1, a + d - 1)
        BY <1>2, <3>0, <4>1, SubSeqOf DEF y
      <4> QED BY <4>1, <4>2
    <3> QED BY <2>1, <3>3, <3>4 DEF Trim
  <2>2. CASE ~layout
    <3>1. b = y
      <4>1. line[y] \notin Blank
        BY <1>7, <2>2
      <4>2. b < y => y \in (b + 1)..y
        BY <1>1, <1>2
      <4> QED BY <1>1, <1>2, <1>5, <4>1, <4>2
    <3> QED BY <2>2, <3>1 DEF Trim
  <2> QED BY <2>1, <2>2
<1>14. Value = SubSeq(line, a, b)
  BY <1>12, <1>13 DEF Value
<1>15. Value # <<>>
  <2>1. a \in 1..(y + 1) /\ b \in 0..y /\ a <= b + 1 /\ b - a + 1 # 0
    BY <1>1, <1>2
  <2>2. Len(SubSeq(line, a, b)) = b - a + 1
    BY <1>2, <2>1, SubSeqIs DEF y
  <2> QED BY <1>14, <2>1, <2>2
<1>16. At(ptr) = line[p] /\ buf[ptr] = line[p]
  BY <1>2, <1>3, <1>7
<1>17. At(Equals) = "="
  <2>1. m \in 1..y
    BY <1>1, <1>2
  <2> QED BY <1>3, <1>5, <1>9, <2>1
<1> QED BY <1>5, <1>11, <1>14, <1>15, <1>16, <1>17 DEF IsSetting, line, z

-----------------------------------------------------------------------------
(* What the lines say *)

(***************************************************************************)
(* The settings are what the first n lines say.                            *)
(***************************************************************************)
MeansTo(lines, n, values) ==
  /\ \A k \in DOMAIN values : \E i \in 1..n : \E v \in Values(lines[i]) :
       FirstSets(lines, i, k, v) /\ values[k] = ConfigurationValue(v)
  /\ \A i \in 1..n, key \in Word : \A v \in Values(lines[i]) :
       Sets(lines[i], key, v) => Lower(key) \in DOMAIN values

LEMMA SetsValue ==
  ASSUME NEW line, NEW key, NEW v, Sets(line, key, v) PROVE v \in Values(line) /\ key \in Word
BY DEF Sets, Values

LEMMA QuietLine ==
  ASSUME NEW lines, NEW n \in Nat, n >= 1, NEW values, MeansTo(lines, n - 1, values),
         \A key, v : ~Sets(lines[n], key, v)
  PROVE  MeansTo(lines, n, values)
<1>1. \A i \in 1..n : i \in 1..(n - 1) \/ i = n
  OBVIOUS
<1>2. \A i \in 1..(n - 1) : i \in 1..n
  OBVIOUS
<1>3. \A k \in DOMAIN values : \E i \in 1..n : \E v \in Values(lines[i]) :
        FirstSets(lines, i, k, v) /\ values[k] = ConfigurationValue(v)
  BY <1>2 DEF MeansTo
<1>4. \A i \in 1..n, key \in Word : \A v \in Values(lines[i]) :
        Sets(lines[i], key, v) => Lower(key) \in DOMAIN values
  BY <1>1 DEF MeansTo
<1> QED BY <1>3, <1>4 DEF MeansTo

LEMMA CommentSilent ==
  ASSUME NEW S, NEW line \in Seq(S), NEW p, FirstToken(line, p), line[p] = "#",
         NEW key, NEW v
  PROVE  ~Sets(line, key, v)
<1> SUFFICES ASSUME Sets(line, key, v) PROVE FALSE
  OBVIOUS
<1>1. PICK q : FirstToken(line, q) /\ key = line[q] /\ key \in Word
  BY SetsIs DEF Setting
<1>2. p = q
  BY <1>1, FirstUnique
<1> QED BY <1>1, <1>2, TextAssumption

LEMMA BlankSilent ==
  ASSUME NEW S, NEW line \in Seq(S), AllBlank(line), NEW key, NEW v
  PROVE  ~Sets(line, key, v)
<1> SUFFICES ASSUME Sets(line, key, v) PROVE FALSE
  OBVIOUS
<1>1. PICK q : FirstToken(line, q)
  BY SetsIs DEF Setting
<1> QED BY <1>1 DEF FirstToken, AllBlank

(***************************************************************************)
(* A key that was set is left alone, another is set.                       *)
(***************************************************************************)
LEMMA SettingLearned ==
  ASSUME NEW S, NEW lines, NEW n \in Nat, n >= 1, lines[n] \in Seq(S),
         NEW values, MeansTo(lines, n - 1, values),
         NEW key, NEW value, Sets(lines[n], key, value)
  PROVE  MeansTo(lines, n, IF Lower(key) \in DOMAIN values THEN values
                           ELSE With(values, Lower(key), ConfigurationValue(value)))
<1>1. \A i \in 1..n : i \in 1..(n - 1) \/ i = n
  OBVIOUS
<1>2. (\A i \in 1..(n - 1) : i \in 1..n) /\ n \in 1..n
  OBVIOUS
<1>3. value \in Values(lines[n]) /\ key \in Word
  BY SetsValue
<1>4. \A l, w : Sets(lines[n], l, w) => l = key /\ w = value
  BY SetsUnique
<1>5. CASE Lower(key) \in DOMAIN values
  <2>1. \A k \in DOMAIN values : \E i \in 1..n : \E v \in Values(lines[i]) :
          FirstSets(lines, i, k, v) /\ values[k] = ConfigurationValue(v)
    BY <1>2 DEF MeansTo
  <2>2. \A i \in 1..n, l \in Word : \A v \in Values(lines[i]) :
          Sets(lines[i], l, v) => Lower(l) \in DOMAIN values
    BY <1>1, <1>4, <1>5 DEF MeansTo
  <2> QED BY <1>5, <2>1, <2>2 DEF MeansTo
<1>6. CASE Lower(key) \notin DOMAIN values
  <2> DEFINE new == With(values, Lower(key), ConfigurationValue(value))
  <2>1. DOMAIN new = DOMAIN values \cup {Lower(key)}
        /\ new[Lower(key)] = ConfigurationValue(value)
        /\ \A k \in DOMAIN values : new[k] = values[k]
    BY <1>6 DEF With
  <2> HIDE DEF new
  <2>2. FirstSets(lines, n, Lower(key), value)
    <3>1. ASSUME NEW i \in 1..(n - 1), NEW l \in Word, Lower(l) = Lower(key),
                 NEW w \in Values(lines[i]), Sets(lines[i], l, w)
          PROVE  FALSE
      <4>1. Lower(l) \in DOMAIN values
        BY <3>1 DEF MeansTo
      <4> QED BY <1>6, <3>1, <4>1
    <3> QED BY <1>3, <3>1 DEF FirstSets
  <2>3. ASSUME NEW k \in DOMAIN new
        PROVE  \E i \in 1..n : \E v \in Values(lines[i]) :
                 FirstSets(lines, i, k, v) /\ new[k] = ConfigurationValue(v)
    <3>1. CASE k = Lower(key)
      BY <1>2, <1>3, <2>1, <2>2, <3>1
    <3>2. CASE k # Lower(key)
      <4>1. k \in DOMAIN values /\ new[k] = values[k]
        BY <2>1, <3>2
      <4>2. PICK i \in 1..(n - 1) : \E v \in Values(lines[i]) :
              FirstSets(lines, i, k, v) /\ values[k] = ConfigurationValue(v)
        BY <4>1 DEF MeansTo
      <4> QED BY <1>2, <4>1, <4>2
    <3> QED BY <3>1, <3>2
  <2>4. \A i \in 1..n, l \in Word : \A v \in Values(lines[i]) :
          Sets(lines[i], l, v) => Lower(l) \in DOMAIN new
    BY <1>1, <1>4, <2>1 DEF MeansTo
  <2>5. MeansTo(lines, n, new)
    BY <2>3, <2>4 DEF MeansTo
  <2> QED BY <1>6, <2>5 DEF new
<1> QED BY <1>5, <1>6

(***************************************************************************)
(* The first token of a line that follows the rules.                       *)
(***************************************************************************)
LEMMA LineKinds ==
  ASSUME NEW S, NEW line \in Seq(S), SettingLine(line) \/ CommentOrBlank(line),
         NEW p, FirstToken(line, p)
  PROVE  \/ line[p] = "#"
         \/ /\ line[p] \in Word
            /\ \E m, a, b : /\ Setting(line, p, m, a, b)
                            /\ Sets(line, line[p], SubSeq(line, a, b))
<1>1. Len(line) \in Nat
  OBVIOUS
<1>2. CASE SettingLine(line)
  <2>1. PICK key, v : Sets(line, key, v)
    BY <1>2 DEF SettingLine
  <2>2. PICK q, m, a, b : Setting(line, q, m, a, b) /\ key = line[q] /\ v = SubSeq(line, a, b)
                          /\ key \in Word
    BY <2>1, SetsIs
  <2>3. p = q
    BY <1>1, <2>2, FirstUnique DEF Setting
  <2> QED BY <2>1, <2>2, <2>3
<1>3. CASE CommentOrBlank(line)
  <2>1. ~AllBlank(line) /\ p \in 1..Len(line)
    BY DEF FirstToken, AllBlank
  <2>2. PICK b : LastToken(line, b) /\ p <= b
    BY <2>1, TokensExist
  <2>3. Trimmed(line) = SubSeq(line, p, b)
    BY <2>2, TrimmedIs
  <2>4. b \in 0..Len(line) /\ p \in 1..(Len(line) + 1) /\ p <= b + 1 /\ b - p + 1 >= 1
        /\ 1 \in 1..(b - p + 1) /\ p + 1 - 1 = p
    BY <1>1, <2>1, <2>2 DEF LastToken
  <2>5. Len(SubSeq(line, p, b)) = b - p + 1 /\ SubSeq(line, p, b)[1] = line[p]
    BY <2>4, SubSeqIs
  <2>6. Trimmed(line) # <<>>
    BY <2>3, <2>4, <2>5
  <2> QED BY <1>3, <2>3, <2>5, <2>6 DEF CommentOrBlank
<1> QED BY <1>2, <1>3

-----------------------------------------------------------------------------
(* A round of the parser *)

Understood(file, e) ==
  \E n : \/ Here(file, e, n) /\ MeansTo(file.lines, n - 1, m_values)
         \/ Past(file, e, n) /\ MeansTo(file.lines, n, m_values)

\* in a line, in the end of line behind it, or at the end of the text
InLine(file, e, n) ==
  Here(file, e, n) /\ ptr <= e[n] /\ MeansTo(file.lines, n - 1, m_values)
InEol(file, e, n) ==
  /\ n \in 1..Len(file.lines) /\ n # Len(file.lines)
  /\ ptr \in (e[n] + 1)..(e[n] + Len(file.eol)) /\ MeansTo(file.lines, n, m_values)
AtLast(file, e) ==
  /\ ptr \in Nat /\ ptr > Len(buf) /\ MeansTo(file.lines, Len(file.lines), m_values)

LEMMA HereWhere ==
  ASSUME NEW file, FileOf(file), NEW e, Laid(buf, file, e), NEW n, Here(file, e, n),
         MeansTo(file.lines, n - 1, m_values)
  PROVE  InLine(file, e, n) \/ InEol(file, e, n) \/ AtLast(file, e)
<1> SUFFICES ASSUME ~(ptr <= e[n]) PROVE InEol(file, e, n) \/ AtLast(file, e)
  BY DEF InLine
<1>1. n \in 1..Len(file.lines) /\ ptr \in From(file, e, n)..(e[n] + 1)
  BY DEF Here
<1>2. /\ e[n] \in Nat /\ e[n] <= Len(buf) /\ Len(buf) \in Nat /\ From(file, e, n) \in Nat
      /\ file.lines[n] \in Seq(Token) /\ Len(file.lines) \in Nat
  BY <1>1, LaidFacts, FileTyped
<1>3. ptr = e[n] + 1
  BY <1>1, <1>2
<1>4. AllBlank(file.lines[n])
  <2> SUFFICES ASSUME NEW i \in 1..Len(file.lines[n]) PROVE file.lines[n][i] \in Blank
    BY DEF AllBlank
  <2>1. From(file, e, n) + i - 1 \in 1..e[n]
    BY <1>1, AtLine
  <2>2. From(file, e, n) + i - 1 < ptr
    BY <1>2, <1>3, <2>1
  <2> QED BY <2>2 DEF Here
<1>5. MeansTo(file.lines, n, m_values)
  <2>1. n \in Nat /\ n >= 1
    BY <1>1, <1>2
  <2>2. \A key, v : ~Sets(file.lines[n], key, v)
    BY <1>2, <1>4, BlankSilent
  <2> QED BY <2>1, <2>2, QuietLine
<1>6. CASE n = Len(file.lines)
  <2>1. e[n] = Len(buf)
    BY <1>1, <1>6, AtEnd
  <2> QED BY <1>2, <1>3, <1>5, <1>6, <2>1 DEF AtLast
<1>7. CASE n # Len(file.lines)
  <2>1. Len(file.eol) \in {1, 2}
    BY <1>1, <1>7, AtEnd
  <2>2. \A z \in Nat, g \in {1, 2} : z + 1 \in (z + 1)..(z + g)
    OBVIOUS
  <2>3. e[n] + 1 \in (e[n] + 1)..(e[n] + Len(file.eol))
    BY <1>2, <2>1, <2>2
  <2> QED BY <1>1, <1>3, <1>5, <1>7, <2>3 DEF InEol
<1> QED BY <1>6, <1>7

LEMMA Where ==
  ASSUME NEW file, FileOf(file), NEW e, Laid(buf, file, e), Understood(file, e)
  PROVE  (\E n : InLine(file, e, n) \/ InEol(file, e, n)) \/ AtLast(file, e)
<1>1. ASSUME NEW n, Here(file, e, n), MeansTo(file.lines, n - 1, m_values)
      PROVE  (\E k : InLine(file, e, k) \/ InEol(file, e, k)) \/ AtLast(file, e)
  BY <1>1, HereWhere
<1>2. ASSUME NEW n, Past(file, e, n), MeansTo(file.lines, n, m_values)
      PROVE  (\E k : InLine(file, e, k) \/ InEol(file, e, k)) \/ AtLast(file, e)
  <2>1. n \in 1..Len(file.lines) /\ ptr \in Nat /\ ptr > e[n]
        /\ (n # Len(file.lines) => ptr <= From(file, e, n + 1))
    BY <1>2 DEF Past
  <2>2. e[n] \in Nat /\ e[n] <= Len(buf) /\ Len(buf) \in Nat /\ Len(file.lines) \in Nat
    BY <2>1, LaidFacts
  <2>3. CASE n = Len(file.lines)
    <3>1. e[n] = Len(buf)
      BY <2>1, <2>3, AtEnd
    <3> QED BY <1>2, <2>1, <2>3, <3>1 DEF AtLast
  <2>4. CASE n # Len(file.lines)
    <3>1. /\ n + 1 \in 1..Len(file.lines)
          /\ From(file, e, n + 1) = e[n] + Len(file.eol) + 1
          /\ Len(file.eol) \in {1, 2}
      BY <2>1, <2>4, AtEnd
    <3>2. CASE ptr <= e[n] + Len(file.eol)
      <4>1. ptr \in (e[n] + 1)..(e[n] + Len(file.eol))
        BY <2>1, <2>2, <3>1, <3>2
      <4> QED BY <1>2, <2>1, <2>4, <4>1 DEF InEol
    <3>3. CASE ~(ptr <= e[n] + Len(file.eol))
      <4>1. PICK m \in 1..Len(file.lines) : m = n + 1 /\ m - 1 = n
        BY <2>1, <2>2, <3>1
      <4>2. ptr = From(file, e, m)
        BY <2>1, <2>2, <2>4, <3>1, <3>3, <4>1
      <4>3. Here(file, e, m)
        <5> DEFINE x == From(file, e, m)
                   y == Len(file.lines[m])
                   z == e[m]
        <5>1. x \in Nat /\ y \in Nat /\ z \in Nat /\ z + 1 = x + y
          BY LaidFacts
        <5> HIDE DEF x, y, z
        <5>2. x \in x..(z + 1) /\ \A i \in 1..y : ~(x + i - 1 < x)
          BY <5>1
        <5>3. ptr = x
          BY <4>2 DEF x
        <5> QED BY <5>2, <5>3 DEF Here, x, y, z
      <4>4. MeansTo(file.lines, m - 1, m_values)
        BY <1>2, <4>1
      <4> QED BY <1>1, <4>3, <4>4
    <3> QED BY <3>2, <3>3
  <2> QED BY <2>3, <2>4
<1> QED BY <1>1, <1>2 DEF Understood

LEMMA LineTokens ==
  ASSUME NEW file, FileOf(file), NEW e, Laid(buf, file, e), Plain(file.lines),
         NEW n, Here(file, e, n), ptr <= e[n]
  PROVE  /\ n \in 1..Len(file.lines) /\ ptr \in 1..Len(buf)
         /\ \E p \in 1..Len(file.lines[n]) :
              /\ ptr = From(file, e, n) + p - 1 /\ At(ptr) = file.lines[n][p]
              /\ \/ file.lines[n][p] \in Blank
                 \/ FirstToken(file.lines[n], p) /\ file.lines[n][p] = "#"
                 \/ /\ file.lines[n][p] \in Word
                    /\ \E m, a, b : /\ Setting(file.lines[n], p, m, a, b)
                                    /\ Sets(file.lines[n], file.lines[n][p],
                                            SubSeq(file.lines[n], a, b))
<1> DEFINE x == From(file, e, n)
           y == Len(file.lines[n])
           z == e[n]
<1>1. n \in 1..Len(file.lines) /\ ptr \in x..(z + 1)
  BY DEF Here
<1>2. x \in Nat /\ x >= 1 /\ y \in Nat /\ z \in Nat /\ z + 1 = x + y
      /\ z <= Len(buf) /\ Len(buf) \in Nat /\ ptr <= z
      /\ file.lines[n] \in Seq(Token)
  BY <1>1, LaidFacts, FileTyped
<1> HIDE DEF x, y, z
<1>3. ptr \in 1..Len(buf)
  BY <1>1, <1>2
<1>4. PICK p \in 1..y : ptr = x + p - 1
  <2>1. ptr - x + 1 \in 1..y /\ ptr = x + (ptr - x + 1) - 1
    BY <1>1, <1>2
  <2> QED BY <2>1
<1>5. At(ptr) = file.lines[n][p]
  BY <1>1, <1>4, AtLine DEF x, y
<1>6. \A i \in 1..(p - 1) : file.lines[n][i] \in Blank
  <2> TAKE i \in 1..(p - 1)
  <2>1. i \in 1..y /\ x + i - 1 < ptr
    BY <1>2, <1>4
  <2> QED BY <2>1 DEF Here, x, y
<1>7. ASSUME file.lines[n][p] \notin Blank PROVE FirstToken(file.lines[n], p)
  BY <1>6, <1>7 DEF FirstToken, y
<1>8. SettingLine(file.lines[n]) \/ CommentOrBlank(file.lines[n])
  BY <1>1 DEF Plain, WellFormed
<1>9. ASSUME file.lines[n][p] \notin Blank
      PROVE  \/ FirstToken(file.lines[n], p) /\ file.lines[n][p] = "#"
             \/ /\ file.lines[n][p] \in Word
                /\ \E m, a, b : /\ Setting(file.lines[n], p, m, a, b)
                                /\ Sets(file.lines[n], file.lines[n][p],
                                        SubSeq(file.lines[n], a, b))
  BY <1>2, <1>7, <1>8, <1>9, LineKinds
<1> QED BY <1>1, <1>3, <1>4, <1>5, <1>9 DEF x, y

LEMMA EolTokens ==
  ASSUME NEW file, FileOf(file), NEW e, Laid(buf, file, e), NEW n, InEol(file, e, n)
  PROVE  /\ n \in 1..Len(file.lines) /\ ptr \in 1..Len(buf) /\ At(ptr) \in {"\r", "\n"}
         /\ From(file, e, n + 1) = e[n] + Len(file.eol) + 1 /\ Len(file.eol) \in Nat
         /\ e[n] \in Nat
<1>1. n \in 1..Len(file.lines) /\ n # Len(file.lines)
      /\ ptr \in (e[n] + 1)..(e[n] + Len(file.eol))
  BY DEF InEol
<1>2. e[n] \in Nat /\ Len(buf) \in Nat
  BY <1>1, LaidFacts
<1>3. /\ From(file, e, n + 1) = e[n] + Len(file.eol) + 1
      /\ e[n] + Len(file.eol) <= Len(buf) /\ Len(file.eol) \in {1, 2}
      /\ \A j \in 1..Len(file.eol) : At(e[n] + j) \in {"\r", "\n"}
  BY <1>1, AtEnd
<1> DEFINE g == Len(file.eol)
<1>4. g \in Nat /\ ptr \in (e[n] + 1)..(e[n] + g) /\ e[n] + g <= Len(buf)
  BY <1>1, <1>3
<1> HIDE DEF g
<1>5. ptr - e[n] \in 1..g /\ e[n] + (ptr - e[n]) = ptr /\ ptr \in 1..Len(buf)
  BY <1>2, <1>4
<1>6. At(e[n] + (ptr - e[n])) \in {"\r", "\n"}
  BY <1>3, <1>5 DEF g
<1> QED BY <1>1, <1>2, <1>3, <1>4, <1>5, <1>6 DEF g

LEMMA NotCorrupt ==
  ASSUME NEW file, FileOf(file), NEW e, Laid(buf, file, e), Plain(file.lines),
         layout \in BOOLEAN, Understood(file, e)
  PROVE  ~Corrupt
<1>1. ASSUME NEW n, InLine(file, e, n) PROVE ~Corrupt
  <2>1. Here(file, e, n) /\ ptr <= e[n]
    BY <1>1 DEF InLine
  <2>2. PICK p \in 1..Len(file.lines[n]) :
          /\ ptr = From(file, e, n) + p - 1 /\ At(ptr) = file.lines[n][p]
          /\ \/ file.lines[n][p] \in Blank
             \/ FirstToken(file.lines[n], p) /\ file.lines[n][p] = "#"
             \/ /\ file.lines[n][p] \in Word
                /\ \E m, a, b : Setting(file.lines[n], p, m, a, b)
    BY <2>1, LineTokens
  <2>3. CASE file.lines[n][p] \in Blank \/ file.lines[n][p] = "#"
    BY <2>2, <2>3 DEF Corrupt, Blank
  <2>4. ASSUME file.lines[n][p] \in Word, NEW m, NEW a, NEW b,
               Setting(file.lines[n], p, m, a, b)
        PROVE  ~Corrupt
    <3>1. n \in 1..Len(file.lines) /\ file.lines[n] # <<>>
      BY <2>1 DEF Here
    <3>2. layout \/ file.lines[n][Len(file.lines[n])] \notin Blank
      BY <3>1 DEF Plain
    <3>3. IsSetting
      BY <2>2, <2>4, <3>1, <3>2, SettingRead
    <3> QED BY <3>3 DEF Corrupt
  <2> QED BY <2>2, <2>3, <2>4
<1>2. ASSUME NEW n, InEol(file, e, n) PROVE ~Corrupt
  BY <1>2, EolTokens DEF Corrupt
<1>3. ASSUME AtLast(file, e) PROVE ~Corrupt
  <2>1. ptr \in Nat /\ ptr > Len(buf) /\ Len(buf) \in Nat
    BY <1>3 DEF AtLast, Laid
  <2>2. ~(ptr <= Len(buf))
    BY <2>1
  <2> QED BY <2>2 DEF Corrupt
<1> QED BY <1>1, <1>2, <1>3, Where

LEMMA AllUnderstood ==
  ASSUME NEW file, FileOf(file), NEW e, Laid(buf, file, e), Plain(file.lines),
         Understood(file, e), Parsed
  PROVE  Means(file.lines, m_values)
<1>0. Len(buf) \in Nat /\ ptr > Len(buf)
  BY DEF Laid, Parsed
<1>1. ASSUME NEW n, InLine(file, e, n) PROVE FALSE
  <2>1. ptr \in 1..Len(buf)
    BY <1>1, LineTokens DEF InLine
  <2> QED BY <1>0, <2>1
<1>2. ASSUME NEW n, InEol(file, e, n) PROVE FALSE
  <2>1. ptr \in 1..Len(buf)
    BY <1>2, EolTokens
  <2> QED BY <1>0, <2>1
<1>3. AtLast(file, e)
  BY <1>1, <1>2, Where
<1> QED BY <1>3 DEF AtLast, MeansTo, Means

-----------------------------------------------------------------------------
(* The parser understands what it passes over *)

LEMMA InLineKeeps ==
  ASSUME NEW file, FileOf(file), NEW e, Laid(buf, file, e), Plain(file.lines),
         layout \in BOOLEAN, NEW n, InLine(file, e, n), ParseRound
  PROVE  Understood(file, e)'
<1>1. Here(file, e, n) /\ ptr <= e[n] /\ MeansTo(file.lines, n - 1, m_values)
  BY DEF InLine
<1>2. PICK p \in 1..Len(file.lines[n]) :
        /\ ptr = From(file, e, n) + p - 1 /\ At(ptr) = file.lines[n][p]
        /\ \/ file.lines[n][p] \in Blank
           \/ FirstToken(file.lines[n], p) /\ file.lines[n][p] = "#"
           \/ /\ file.lines[n][p] \in Word
              /\ \E m, a, b : /\ Setting(file.lines[n], p, m, a, b)
                              /\ Sets(file.lines[n], file.lines[n][p],
                                      SubSeq(file.lines[n], a, b))
  BY <1>1, LineTokens
<1>3. n \in 1..Len(file.lines) /\ ptr \in From(file, e, n)..(e[n] + 1)
  BY <1>1 DEF Here
<1>4. /\ e[n] \in Nat /\ From(file, e, n) \in Nat /\ Len(file.lines[n]) \in Nat
      /\ e[n] + 1 = From(file, e, n) + Len(file.lines[n]) /\ Len(file.lines) \in Nat
      /\ file.lines[n] \in Seq(Token)
  BY <1>3, LaidFacts, FileTyped
<1>5. n \in Nat /\ n >= 1
  BY <1>3, <1>4
<1>6. CASE file.lines[n][p] \in Blank
  <2>1. ParseBlank
    BY <1>2, <1>6, TextAssumption DEF ParseRound, ParseComment, ParseSetting, IsSetting, Blank
  <2>2. ptr' = ptr + 1 /\ m_values' = m_values
    BY <2>1 DEF ParseBlank
  <2> DEFINE x == From(file, e, n)
             y == Len(file.lines[n])
             z == e[n]
  <2>3. /\ ptr = x + p - 1 /\ p \in 1..y /\ z \in Nat /\ x \in Nat /\ y \in Nat
        /\ ptr <= z
    BY <1>1, <1>2, <1>4
  <2> HIDE DEF x, y, z
  <2>4. ptr' \in x..(z + 1) /\ \A i \in 1..y : x + i - 1 < ptr' => i = p \/ x + i - 1 < ptr
    BY <2>2, <2>3
  <2>5. \A i \in 1..y : x + i - 1 < ptr' => file.lines[n][i] \in Blank
    BY <1>1, <1>6, <2>4 DEF Here, x, y
  <2>6. Here(file, e, n)'
    BY <1>3, <2>4, <2>5 DEF Here, x, y, z
  <2> QED BY <1>1, <2>2, <2>6 DEF Understood
<1>7. CASE FirstToken(file.lines[n], p) /\ file.lines[n][p] = "#"
  <2>1. ParseComment
    BY <1>2, <1>7, TextAssumption DEF ParseRound, ParseBlank, ParseSetting, IsSetting
  <2>2. Past(file, e, n)'
    BY <1>1, <2>1, CommentPassed
  <2>3. \A key, v : ~Sets(file.lines[n], key, v)
    BY <1>4, <1>7, CommentSilent
  <2>4. MeansTo(file.lines, n, m_values)
    BY <1>1, <1>5, <2>3, QuietLine
  <2>5. m_values' = m_values
    BY <2>1 DEF ParseComment
  <2> QED BY <2>2, <2>4, <2>5 DEF Understood
<1>8. ASSUME file.lines[n][p] \in Word, NEW m, NEW a, NEW b,
             Setting(file.lines[n], p, m, a, b),
             Sets(file.lines[n], file.lines[n][p], SubSeq(file.lines[n], a, b))
      PROVE  Understood(file, e)'
  <2> DEFINE line == file.lines[n]
             value == SubSeq(line, a, b)
  <2>1. ParseSetting
    BY <1>2, <1>8, TextAssumption DEF ParseRound, ParseBlank, ParseComment
  <2>2. layout \/ line[Len(line)] \notin Blank
    <3>1. line # <<>>
      BY <1>2
    <3> QED BY <1>3, <3>1 DEF Plain
  <2>3. /\ buf[ptr] = line[p] /\ Value = value /\ Ending = e[n] + 1
    <3>1. ptr = From(file, e, n) + p - 1
      BY <1>2
    <3>2. n \in 1..Len(file.lines)
      BY <1>3
    <3>3. Setting(file.lines[n], p, m, a, b) /\ file.lines[n][p] \in Word
          /\ (layout \/ file.lines[n][Len(file.lines[n])] \notin Blank)
      BY <1>8, <2>2
    <3>4. /\ buf[ptr] = file.lines[n][p] /\ Value = SubSeq(file.lines[n], a, b)
          /\ Ending = e[n] + 1
      <4> HIDE DEF line, value
      <4>1. /\ IsSetting /\ At(ptr) = file.lines[n][p] /\ buf[ptr] = file.lines[n][p]
            /\ Value = SubSeq(file.lines[n], a, b)
            /\ Ending = e[n] + 1
        BY <3>1, <3>2, <3>3, SettingRead, Zenon
      <4> QED BY <4>1
    <3> QED BY <3>4
  <2>4. m_values' = IF Lower(line[p]) \in DOMAIN m_values THEN m_values
                    ELSE With(m_values, Lower(line[p]), ConfigurationValue(value))
    BY <2>1, <2>3 DEF ParseSetting
  <2>5. ptr' = e[n] + 2
    BY <1>4, <2>1, <2>3 DEF ParseSetting
  <2>6. MeansTo(file.lines, n, m_values')
    <3>1. MeansTo(file.lines, n, IF Lower(line[p]) \in DOMAIN m_values THEN m_values
                    ELSE With(m_values, Lower(line[p]), ConfigurationValue(value)))
      BY <1>1, <1>4, <1>5, <1>8, SettingLearned
    <3> QED BY <2>4, <3>1
  <2>7. Past(file, e, n)'
    <3>1. ptr' \in Nat /\ ptr' > e[n]
      BY <1>4, <2>5
    <3>2. ASSUME n # Len(file.lines) PROVE ptr' <= From(file, e, n + 1)
      <4>1. From(file, e, n + 1) = e[n] + Len(file.eol) + 1 /\ Len(file.eol) \in {1, 2}
        BY <1>3, <3>2, AtEnd
      <4>2. \A z \in Nat, g \in {1, 2} : z + 2 <= z + g + 1
        OBVIOUS
      <4> QED BY <1>4, <2>5, <4>1, <4>2
    <3> QED BY <1>3, <3>1, <3>2 DEF Past
  <2> QED BY <2>6, <2>7 DEF Understood
<1> QED BY <1>2, <1>6, <1>7, <1>8

LEMMA RoundKeeps ==
  ASSUME NEW file, FileOf(file), NEW e, Laid(buf, file, e), Plain(file.lines),
         layout \in BOOLEAN, Understood(file, e), ParseRound
  PROVE  Understood(file, e)'
<1>1. ASSUME NEW n, InEol(file, e, n) PROVE Understood(file, e)'
  <2>1. /\ n \in 1..Len(file.lines) /\ At(ptr) \in {"\r", "\n"}
        /\ From(file, e, n + 1) = e[n] + Len(file.eol) + 1 /\ Len(file.eol) \in Nat
        /\ e[n] \in Nat
    BY <1>1, EolTokens
  <2>2. ParseBlank
    BY <2>1, TextAssumption DEF ParseRound, ParseComment, ParseSetting, IsSetting
  <2>3. ptr' = ptr + 1 /\ m_values' = m_values
    BY <2>2 DEF ParseBlank
  <2>4. ptr \in (e[n] + 1)..(e[n] + Len(file.eol)) /\ MeansTo(file.lines, n, m_values)
    BY <1>1 DEF InEol
  <2> DEFINE g == Len(file.eol)
             z == e[n]
  <2>5. g \in Nat /\ z \in Nat /\ ptr \in (z + 1)..(z + g)
    BY <2>1, <2>4
  <2> HIDE DEF g, z
  <2>6. ptr' \in Nat /\ ptr' > z /\ ptr' <= z + g + 1
    BY <2>3, <2>5
  <2>7. Past(file, e, n)'
    BY <2>1, <2>6 DEF Past, g, z
  <2> QED BY <2>3, <2>4, <2>7 DEF Understood
<1>2. ~AtLast(file, e)
  <2> SUFFICES ASSUME AtLast(file, e) PROVE FALSE
    OBVIOUS
  <2>1. ptr \in Nat /\ ptr > Len(buf) /\ Len(buf) \in Nat
    BY DEF AtLast, Laid
  <2>2. At(ptr) = "nul"
    <3>1. ~(ptr <= Len(buf))
      BY <2>1
    <3> QED BY <3>1 DEF At
  <2> QED BY <2>2, TextAssumption DEF ParseRound, ParseComment, ParseSetting, IsSetting,
                                      ParseBlank
<1> QED BY <1>1, <1>2, Where, InLineKeeps

LEMMA BeginsHere ==
  ASSUME NEW file, FileOf(file), NEW e, Laid(Contents(file), file, e), Contents(file) # <<>>,
         Clear(Contents(file))
  PROVE  Laid(buf, file, e)' /\ Understood(file, e)'
<1>1. buf' = Contents(file) /\ ptr' = 1 /\ m_values' = <<>>
  BY DEF Clear
<1>2. Laid(buf, file, e)'
  BY <1>1 DEF Laid
<1>3. Len(file.lines) \in Nat /\ e[0] = 0 /\ e[Len(file.lines)] = Len(Contents(file))
      /\ Contents(file) \in Seq(Token)
  BY FileTyped DEF Laid, LaidTo
<1>4. Len(file.lines) # 0
  <2> SUFFICES ASSUME Len(file.lines) = 0 PROVE FALSE
    OBVIOUS
  <2>1. Len(Contents(file)) = 0
    BY <1>3
  <2> QED BY <1>3, <2>1, EmptySeq
<1>5. PICK n \in 1..Len(file.lines) : n = 1 /\ n - 1 = 0
  BY <1>3, <1>4
<1>6. From(file, e, n) = 1
  BY <1>3, <1>5 DEF From, Gap
<1>7. e[n] \in Nat
  BY DEF Laid, LaidTo
<1>8. Here(file, e, n)'
  <2>1. 1 \in From(file, e, n)..(e[n] + 1)
    BY <1>6, <1>7
  <2>2. \A i \in 1..Len(file.lines[n]) : ~(From(file, e, n) + i - 1 < 1)
    BY <1>6
  <2> QED BY <1>1, <2>1, <2>2 DEF Here
<1>9. MeansTo(file.lines, n - 1, <<>>)
  <2>1. DOMAIN <<>> = {} /\ 1..0 = {}
    OBVIOUS
  <2> QED BY <1>5, <2>1 DEF MeansTo
<1> QED BY <1>1, <1>2, <1>8, <1>9 DEF Understood

-----------------------------------------------------------------------------
(***************************************************************************)
(* Every file there is follows FileOf, whoever wrote it; the text that is  *)
(* parsed is that of the file, and what the parser has passed is learned;  *)
(* once it is parsed, the settings are what the file means.                *)
(***************************************************************************)
FilesInv ==
  /\ layout \in BOOLEAN /\ DOMAIN files = FileName
  /\ \A f \in FileName : files[f] = Missing \/ FileOf(files[f])

Parsing ==
  pc = "parse" =>
    \E e : /\ FileOf(File) /\ Laid(buf, File, e)
           /\ Plain(File.lines) => Understood(File, e)

Learned ==
  pc \notin {"arguments", "parse", "exited"} /\ Plain(File.lines) => Means(File.lines, m_values)

ParseInv == FilesInv /\ Parsing /\ Learned

LEMMA StringsAreTokens == ASSUME NEW s \in Seq(STRING) PROVE s \in Seq(Token)
<1>1. \A S, T : S \subseteq T => Seq(S) \subseteq Seq(T)
  OBVIOUS
<1>2. STRING \subseteq Token
  BY Zenon DEF Token
<1> QED BY <1>1, <1>2, Zenon

LEMMA WrittenFile == ASSUME NEW file \in Written PROVE FileOf(file)
<1>1. file.lines \in Seq(Line)
  BY DEF Written
<1>2. \A i \in 1..Len(file.lines) : file.lines[i] \in Line
  BY <1>1
<1>3. \A i \in 1..Len(file.lines) : file.lines[i] \in Seq(Token)
  BY <1>2, StartupAssumption, StringsAreTokens
<1>4. file.lines \in Seq(Seq(Token))
  BY <1>1, <1>3
<1>5. file.eol \in {<<"\n">>, <<"\r", "\n">>}
  BY DEF Written
<1> QED BY <1>2, <1>4, <1>5, StartupAssumption DEF FileOf

LEMMA DefaultFile == FileOf(FileContents)
<1> DEFINE T == Token \ {"\n", "nul"}
           comment == <<"#", " ", "words">>
           portIs == <<"ServerPort", " ", "=", " ", "23000">>
           versionIs == <<"ClientVersion", " ", "=", " ", "20131016">>
           require == <<"RequireVersion", " ", "=", " ", "yes">>
           timeout == <<"AuthenticationTimeout", " ", "=", " ", "30">>
           lines == <<comment, <<>>, comment, portIs, <<>>, comment, versionIs, require,
                      <<>>, comment, timeout>>
           S == {s \in Seq(Token) : \A i \in 1..Len(s) : s[i] \notin {"\n", "nul"}}
<1>1. {"#", " ", "=", "words", "ServerPort", "23000", "ClientVersion", "20131016",
       "RequireVersion", "yes", "AuthenticationTimeout", "30"} \subseteq T
  BY DEF Token
<1>2. \A a, b, c, d, f \in T : <<a, b, c>> \in Seq(T) /\ <<a, b, c, d, f>> \in Seq(T)
  OBVIOUS
<1>3. comment \in Seq(T)
  <2> HIDE DEF T
  <2> QED BY <1>1, <1>2, Zenon
<1>4. portIs \in Seq(T)
  <2> HIDE DEF T
  <2> QED BY <1>1, <1>2, Zenon
<1>5. versionIs \in Seq(T)
  <2> HIDE DEF T
  <2> QED BY <1>1, <1>2, Zenon
<1>6. require \in Seq(T)
  <2> HIDE DEF T
  <2> QED BY <1>1, <1>2, Zenon
<1>7. timeout \in Seq(T)
  <2> HIDE DEF T
  <2> QED BY <1>1, <1>2, Zenon
<1>8. \A s \in Seq(T) : s \in S
  <2> TAKE s \in Seq(T)
  <2>1. \A i \in 1..Len(s) : s[i] \in T
    OBVIOUS
  <2>2. s \in Seq(Token)
    BY <2>1
  <2> QED BY <2>1, <2>2
<1>9. <<>> \in Seq(T)
  OBVIOUS
<1>10. lines \in Seq(S)
  <2>1. comment \in S /\ portIs \in S /\ versionIs \in S /\ require \in S /\ timeout \in S
        /\ <<>> \in S
    BY <1>3, <1>4, <1>5, <1>6, <1>7, <1>8, <1>9
  <2> HIDE DEF S, comment, portIs, versionIs, require, timeout
  <2> QED BY <2>1
<1>11. FileContents.lines = lines /\ FileContents.eol = <<"\r", "\n">>
  BY DEF FileContents
<1>12. \A s \in Seq(S) : s \in Seq(Seq(Token)) /\ \A n \in 1..Len(s) : s[n] \in S
  <2> TAKE s \in Seq(S)
  <2>1. \A n \in 1..Len(s) : s[n] \in S /\ s[n] \in Seq(Token)
    OBVIOUS
  <2>2. s \in Seq(Seq(Token))
    BY <2>1
  <2> QED BY <2>1, <2>2
<1> HIDE DEF lines
<1>13. FileOf(FileContents)
  BY <1>10, <1>11, <1>12 DEF FileOf
<1> QED BY <1>13

(***************************************************************************)
(* A beginning of a line is a line, so a file that is cut short is a file. *)
(***************************************************************************)
LineOf(line) == line \in Seq(Token) /\ \A i \in 1..Len(line) : line[i] \notin {"\n", "nul"}

LEMMA BeginningIs ==
  ASSUME NEW text, LineOf(text), NEW line \in Beginnings(text)
  PROVE  LineOf(line)
<1>1. text \in Seq(Token) /\ Len(text) \in Nat
  BY DEF LineOf
<1>2. ASSUME NEW n \in 0..Len(text) PROVE LineOf(SubSeq(text, 1, n))
  <2>1. /\ SubSeq(text, 1, n) \in Seq(Token) /\ Len(SubSeq(text, 1, n)) = n
        /\ \A i \in 1..n : SubSeq(text, 1, n)[i] = text[i]
    BY <1>1
  <2> QED BY <1>1, <2>1 DEF LineOf
<1>3. ASSUME NEW n \in 1..Len(text), text[n] \in Word \cup Digits, NEW t \in CutTo(text[n])
      PROVE  LineOf(Append(SubSeq(text, 1, n - 1), t))
  <2>1. t \in STRING /\ t \in Word \cup Digits
    BY <1>3, StartupAssumption
  <2>2. t \in Token /\ t \notin {"\n", "nul"}
    BY <2>1, TextAssumption DEF Token
  <2>3. n - 1 \in 0..Len(text)
    BY <1>1
  <2>4. PICK s : s = SubSeq(text, 1, n - 1)
    OBVIOUS
  <2>5. LineOf(s)
    BY <1>2, <2>3, <2>4
  <2>6. /\ Append(s, t) \in Seq(Token) /\ Len(Append(s, t)) = Len(s) + 1
        /\ \A i \in 1..(Len(s) + 1) : Append(s, t)[i] = IF i = Len(s) + 1 THEN t ELSE s[i]
    BY <2>2, <2>5 DEF LineOf
  <2>7. Len(s) \in Nat
    BY <2>5 DEF LineOf
  <2> QED BY <2>2, <2>4, <2>5, <2>6, <2>7 DEF LineOf
<1> QED BY <1>2, <1>3 DEF Beginnings

LEMMA CutFile == ASSUME NEW file \in CutShort PROVE FileOf(file)
<1>1. PICK d : d = FileContents
  OBVIOUS
<1>2. FileOf(d) /\ d.eol = <<"\r", "\n">>
  BY <1>1, DefaultFile DEF FileContents
<1>3. d.lines \in Seq(Seq(Token)) /\ \A n \in 1..Len(d.lines) : LineOf(d.lines[n])
  BY <1>2 DEF FileOf, LineOf
<1>4. PICK n \in 1..Len(d.lines) : \E line \in Beginnings(LineOut(n)) :
        file = [d EXCEPT !.lines = Append(SubSeq(d.lines, 1, n - 1), line)]
  <2> DEFINE D == FileContents
             S(n) == {[D EXCEPT !.lines = Append(SubSeq(D.lines, 1, n - 1), line)] :
                        line \in Beginnings(LineOut(n))}
  <2>1. file \in UNION {S(n) : n \in 1..Len(D.lines)}
    BY DEF CutShort
  <2>2. PICK n \in 1..Len(D.lines) : file \in S(n)
    <3> HIDE DEF S, D
    <3> QED BY <2>1
  <2> QED BY <1>1, <2>2
<1>5. PICK line \in Beginnings(LineOut(n)) :
        file = [d EXCEPT !.lines = Append(SubSeq(d.lines, 1, n - 1), line)]
  BY <1>4
<1>6. LineOf(LineOut(n))
  <2>1. PICK l : l = d.lines[n]
    OBVIOUS
  <2>2. LineOf(l)
    BY <1>3, <2>1
  <2>3. "\r" \in Token /\ "\r" \notin {"\n", "nul"}
    BY DEF Token
  <2>4. LineOf(l \o <<"\r">>) /\ l \o <<>> = l
    <3>1. l \in Seq(Token) /\ <<"\r">> \in Seq(Token) /\ Len(l) \in Nat
      BY <2>2, <2>3 DEF LineOf
    <3>2. /\ l \o <<"\r">> \in Seq(Token) /\ Len(l \o <<"\r">>) = Len(l) + 1
          /\ \A i \in 1..(Len(l) + 1) :
               (l \o <<"\r">>)[i] = IF i <= Len(l) THEN l[i] ELSE "\r"
      BY <3>1
    <3>3. l \o <<>> = l
      BY <3>1
    <3> QED BY <2>2, <2>3, <3>1, <3>2, <3>3 DEF LineOf
  <2> QED BY <1>1, <2>1, <2>2, <2>4 DEF LineOut
<1>7. LineOf(line)
  BY <1>6, BeginningIs
<1>8. PICK s : s = SubSeq(d.lines, 1, n - 1)
  OBVIOUS
<1>9. /\ s \in Seq(Seq(Token)) /\ Len(s) = n - 1
      /\ \A i \in 1..(n - 1) : s[i] = d.lines[i] /\ LineOf(s[i])
  <2>1. n - 1 \in 0..Len(d.lines) /\ Len(d.lines) \in Nat
    BY <1>3
  <2>2. /\ s \in Seq(Seq(Token)) /\ Len(s) = n - 1
        /\ \A i \in 1..(n - 1) : s[i] = d.lines[i]
    BY <1>3, <1>8, <2>1
  <2> QED BY <1>3, <2>1, <2>2
<1>10. PICK r : r = Append(s, line)
  OBVIOUS
<1>11. /\ r \in Seq(Seq(Token)) /\ Len(r) = n
       /\ \A i \in 1..n : r[i] = IF i = n THEN line ELSE s[i]
  BY <1>7, <1>9, <1>10 DEF LineOf
<1>12. ASSUME NEW i \in 1..n PROVE LineOf(r[i])
  <2>1. CASE i = n
    BY <1>7, <1>11, <2>1
  <2>2. CASE i # n
    <3>1. i \in 1..(n - 1)
      BY <1>3, <2>2
    <3> QED BY <1>9, <1>11, <2>2, <3>1
  <2> QED BY <2>1, <2>2
<1>13. file.lines = r /\ file.eol = d.eol
  BY <1>1, <1>5, <1>8, <1>10 DEF FileContents
<1> QED BY <1>2, <1>11, <1>12, <1>13 DEF FileOf, LineOf

LEMMA NextFiles == ASSUME FilesInv, [Next]_vars PROVE FilesInv'
<1>1. CASE MakeConfig
  <2>1. layout' = layout
    BY <1>1 DEF MakeConfig, configVars
  <2>2. CASE UNCHANGED files
    BY <2>1, <2>2 DEF FilesInv
  <2>3. ASSUME NEW x \in FileName, NEW file, FileOf(file), files' = [files EXCEPT ![x] = file]
        PROVE  FilesInv'
    <3>1. DOMAIN files' = FileName /\ files'[x] = file
          /\ \A f \in FileName \ {x} : files'[f] = files[f]
      BY <2>3 DEF FilesInv
    <3> QED BY <2>1, <2>3, <3>1 DEF FilesInv
  <2> QED BY <1>1, <2>2, <2>3, CutFile DEF MakeConfig
<1>2. CASE UNCHANGED <<layout, files>>
  BY <1>2 DEF FilesInv
<1>3. CASE PortArgument \/ ConfigArgument \/ BadArgument \/ LoadFails \/ Load \/ ParseFails
  BY <1>2, <1>3 DEF PortArgument, ConfigArgument, BadArgument, LoadFails, Load, ParseFails,
                    Clear, configVars
<1>7. CASE Parse \/ GetPort \/ Construct
  BY <1>2, <1>7 DEF Parse, GetPort, Construct, ParseRound, ParseComment, ParseSetting,
                    ParseBlank, configVars
<1>4. CASE Start \/ LoopRound \/ Caught \/ OtherKey \/ Shutdown \/ Restore
  BY <1>2, <1>4 DEF Start, CreateSocket, BindListen, GetFlags, SetFlags, EpollCreate, EpollAdd,
     StartStep, LoopRound, Caught, OtherKey, Shutdown, Restore, Call, configVars
<1>5. CASE Destroy \/ Killed \/ Typing \/ UNCHANGED vars
  BY <1>2, <1>5 DEF Destroy, Killed, Typing, vars, runVars, configVars
<1>6. CASE Again
  BY <1>2, <1>6 DEF Again
<1> QED BY <1>1, <1>3, <1>4, <1>5, <1>6, <1>7 DEF Next, Process, Arguments, Configure, Ended

LEMMA LoadParses == ASSUME FilesInv, Load PROVE Parsing'
<1>1. Exists /\ FileOf(File) /\ File' = File /\ layout' = layout
  BY DEF Load, Exists, FilesInv, File, mainVars, Clear
<1>2. PICK e : Laid(Contents(File), File, e)
  BY <1>1, ContentsLaid
<1> DEFINE file == File
<1> HIDE DEF file
<1>3. FileOf(file) /\ Laid(Contents(file), file, e) /\ Contents(file) # <<>>
      /\ Clear(Contents(file)) /\ file = File
  BY <1>1, <1>2 DEF Load, File, file
<1>4. PICK f : f = file
  OBVIOUS
<1>5. Laid(buf, f, e)' /\ Understood(f, e)'
  BY <1>3, <1>4, BeginsHere
<1> QED BY <1>1, <1>3, <1>4, <1>5 DEF Parsing

LEMMA ParseParses == ASSUME FilesInv, Parsing, Parse PROVE Parsing'
<1>1. PICK e : /\ FileOf(File) /\ Laid(buf, File, e)
               /\ Plain(File.lines) => Understood(File, e)
  BY DEF Parsing, Parse
<1>2. PICK f : f = File
  OBVIOUS
<1>3. File' = f /\ layout' = layout /\ buf' = buf /\ layout \in BOOLEAN /\ ParseRound
  BY <1>2 DEF Parse, File, mainVars, FilesInv, ParseRound, ParseComment, ParseSetting,
              ParseBlank
<1>4. FileOf(f) /\ Laid(buf, f, e) /\ (Plain(f.lines) => Understood(f, e))
  BY <1>1, <1>2
<1>5. Laid(buf, f, e)'
  BY <1>3, <1>4 DEF Laid
<1>6. ASSUME Plain(f.lines) PROVE Understood(f, e)'
  BY <1>3, <1>4, <1>6, RoundKeeps
<1>7. Plain(f.lines)' <=> Plain(f.lines)
  BY <1>3 DEF Plain
<1> QED BY <1>3, <1>4, <1>5, <1>6, <1>7 DEF Parsing

LEMMA GetPortLearns == ASSUME FilesInv, Parsing, GetPort PROVE Learned'
<1>1. PICK e : /\ FileOf(File) /\ Laid(buf, File, e)
               /\ Plain(File.lines) => Understood(File, e)
  BY DEF Parsing, GetPort
<1>2. PICK f : f = File
  OBVIOUS
<1>3. File' = f /\ layout' = layout /\ m_values' = m_values /\ Parsed
  BY <1>2 DEF GetPort, File, configVars
<1>4. Plain(f.lines) => Means(f.lines, m_values)
  BY <1>1, <1>2, <1>3, AllUnderstood
<1>5. Plain(f.lines)' <=> Plain(f.lines)
  BY <1>3 DEF Plain
<1> QED BY <1>3, <1>4, <1>5 DEF Learned

\* a step that is not of the parse, and leaves what was parsed alone
LEMMA ParseKept ==
  ASSUME Parsing, Learned, UNCHANGED <<files, szConfigFile, layout, m_values, buf, ptr>>,
         pc' = "parse" => pc = "parse",
         pc' \notin {"arguments", "parse", "exited"} => pc \notin {"arguments", "parse", "exited"}
  PROVE  Parsing' /\ Learned'
<1>1. PICK f : f = File
  OBVIOUS
<1>2. File' = f
  BY <1>1 DEF File
<1>3. Plain(f.lines)' <=> Plain(f.lines)
  BY DEF Plain
<1>4. \A e : (Laid(buf, f, e)' <=> Laid(buf, f, e)) /\ (Understood(f, e)' <=> Understood(f, e))
  BY DEF Laid, LaidTo, Understood, Here, Past
<1>5. Parsing'
  BY <1>1, <1>2, <1>3, <1>4 DEF Parsing
<1>6. Learned'
  BY <1>1, <1>2, <1>3 DEF Learned
<1> QED BY <1>5, <1>6

LEMMA NextParse == ASSUME ParseInv, [Next]_vars PROVE ParseInv'
<1> SUFFICES Parsing' /\ Learned'
  BY NextFiles DEF ParseInv
<1> USE DEF ParseInv
<1>1. CASE pc' \in {"arguments", "exited"}
  BY <1>1 DEF Parsing, Learned
<1>2. CASE Load
  BY <1>2, LoadParses DEF Load, Learned
<1>3. CASE Parse
  BY <1>3, ParseParses DEF Parse, Learned
<1>4. CASE GetPort
  BY <1>1, <1>4, GetPortLearns DEF GetPort, Parsing, Exit
<1>5. CASE Arguments \/ LoadFails \/ ParseFails \/ Again \/ Destroy \/ Killed
  BY <1>1, <1>5 DEF Arguments, PortArgument, ConfigArgument, MakeConfig, BadArgument, Option,
     LoadFails, ParseFails, Again, Begin, Destroy, Killed, Exit
<1>6. CASE Construct \/ Start
  BY <1>6, ParseKept DEF Construct, Start, CreateSocket, BindListen, GetFlags, SetFlags,
     EpollCreate, EpollAdd, StartStep, Call, configVars, mainVars
<1>7. CASE LoopRound \/ Caught \/ OtherKey \/ Shutdown \/ Restore
  BY <1>7, ParseKept DEF LoopRound, Caught, OtherKey, Shutdown, Restore, Call, configVars, mainVars
<1>8. CASE Typing \/ UNCHANGED vars
  BY <1>8, ParseKept DEF Typing, vars, runVars, configVars, mainVars
<1> QED BY <1>2, <1>3, <1>4, <1>5, <1>6, <1>7, <1>8 DEF Next, Process, Configure, Ended

LEMMA ParseInit == ASSUME Init PROVE ParseInv
<1>1. \A f \in FileName : files[f] \in {Missing} \cup Written
  BY StartupAssumption DEF Init
<1>2. FilesInv
  BY <1>1, WrittenFile, StartupAssumption DEF Init, ConfigInit, FilesInv
<1> QED BY <1>2 DEF Init, ParseInv, Parsing, Learned

(***************************************************************************)
(* Whatever the lines, the blanks and the ends of line of a file of        *)
(* settings, comments and blank lines: no round of the parser rejects it,  *)
(* and when all is parsed each key has the value of the first line that    *)
(* sets it; where the build does not remove trailing blanks, if it has     *)
(* none.                                                                   *)
(***************************************************************************)
THEOREM FilesUnderstood == Spec => []FileUnderstood
<1>1. ASSUME ParseInv PROVE FileUnderstood
  <2> SUFFICES ASSUME pc = "parse", Plain(File.lines)
               PROVE  ~Corrupt /\ (Parsed => Means(File.lines, m_values))
    BY DEF FileUnderstood
  <2>1. PICK e : FileOf(File) /\ Laid(buf, File, e) /\ Understood(File, e)
    BY <1>1 DEF ParseInv, Parsing
  <2>2. layout \in BOOLEAN
    BY <1>1 DEF ParseInv, FilesInv
  <2> QED BY <2>1, <2>2, NotCorrupt, AllUnderstood
<1> QED BY <1>1, ParseInit, NextParse, PTL DEF Spec

-----------------------------------------------------------------------------
(***************************************************************************)
(* Without a -p behind i the port is not set until the file is parsed, and *)
(* then it is the file's.                                                  *)
(***************************************************************************)
NoPort == \A n \in 1..Argc : ~Behind(n)

PortInv ==
  NoPort =>
    /\ pc \in {"arguments", "parse"} => port = -1
    /\ pc \notin {"arguments", "parse", "exited"} =>
         HasNumber("ServerPort") /\ port = Number("ServerPort")

\* a step that sets neither the port nor a value, nor passes the parse
LEMMA PortKept ==
  ASSUME PortInv, argv' = argv, argi' = argi, port' = port,
         \/ pc' = "exited"
         \/ pc \in {"arguments", "parse"} /\ pc' \in {"arguments", "parse"}
         \/ /\ pc \notin {"arguments", "parse", "exited"}
            /\ pc' \notin {"arguments", "parse", "exited"} /\ m_values' = m_values
  PROVE  PortInv'
<1>1. Argc' = Argc
  BY DEF Argc
<1>2. \A n \in 1..Argc : Behind(n)' <=> Behind(n)
  BY <1>1 DEF Behind, Given
<1>3. NoPort' <=> NoPort
  BY <1>1, <1>2 DEF NoPort
<1> QED BY <1>3 DEF PortInv, HasNumber, Has, Number

LEMMA PortArgumentPort == ASSUME ScanInv, PortInv, PortArgument PROVE PortInv'
<1>1. pc = "arguments" /\ argv[argi] \in PortOption /\ argi < Argc /\ argv' = argv
  BY DEF PortArgument, Option
<1>2. argi \in Nat /\ Odd(argi) /\ Argc \in Nat
  BY ArgcNat DEF ScanInv
<1>3. CASE pc' = "exited"
  BY <1>3 DEF PortInv
<1>4. CASE pc' # "exited"
  <2>1. argi' = argi + 2
    BY <1>4 DEF PortArgument, Exit
  <2>2. PICK i \in 1..Argc : i = argi
    <3>1. argi \in 1..Argc
      BY <1>1, <1>2 DEF Odd
    <3> QED BY <3>1
  <2>3. Argc' = Argc /\ Behind(i)'
    BY <1>1, <1>2, <2>1, <2>2 DEF Argc, Behind, Given, Odd
  <2>4. ~NoPort'
    BY <2>3 DEF NoPort
  <2> QED BY <2>4 DEF PortInv
<1> QED BY <1>3, <1>4

LEMMA ConfigArgumentPort == ASSUME ScanInv, PortInv, ConfigArgument PROVE PortInv'
<1>1. /\ pc = "arguments" /\ argi \in Nat /\ Argc \in Nat /\ UNCHANGED <<argv, port, pc>>
      /\ argi' = argi + 2
  BY ArgcNat DEF ConfigArgument, Option, ScanInv
<1>2. Argc' = Argc
  BY <1>1 DEF Argc
<1>3. \A n \in 1..Argc : Behind(n) => Behind(n)'
  BY <1>1, <1>2 DEF Behind, Given
<1>4. NoPort' => NoPort
  BY <1>2, <1>3 DEF NoPort
<1> QED BY <1>1, <1>4 DEF PortInv

LEMMA GetPortPort == ASSUME PortInv, GetPort PROVE PortInv'
<1>1. pc = "parse" /\ UNCHANGED <<argv, argi, m_values>>
  BY DEF GetPort, configVars
<1>2. Argc' = Argc
  BY <1>1 DEF Argc
<1>3. \A n \in 1..Argc : Behind(n)' <=> Behind(n)
  BY <1>1, <1>2 DEF Behind, Given
<1>4. NoPort' <=> NoPort
  BY <1>2, <1>3 DEF NoPort
<1>5. CASE ~NoPort \/ pc' = "exited"
  BY <1>4, <1>5 DEF PortInv
<1>6. CASE NoPort /\ pc' # "exited"
  <2>1. port = -1
    BY <1>1, <1>6 DEF PortInv
  <2>2. HasNumber("ServerPort") /\ port' = Number("ServerPort") /\ pc' = "construct"
    BY <1>6, <2>1 DEF GetPort, Exit
  <2> QED BY <1>1, <2>2 DEF PortInv, HasNumber, Has, Number
<1> QED BY <1>5, <1>6

LEMMA NextPort == ASSUME ScanInv, PortInv, [Next]_vars PROVE PortInv'
<1>1. CASE PortArgument
  BY <1>1, PortArgumentPort
<1>2. CASE ConfigArgument
  BY <1>2, ConfigArgumentPort
<1>3. CASE GetPort
  BY <1>3, GetPortPort
<1>4. CASE pc' = "exited"
  BY <1>4 DEF PortInv
<1>5. CASE MakeConfig \/ BadArgument \/ LoadFails \/ ParseFails \/ Destroy \/ Killed
  BY <1>4, <1>5 DEF MakeConfig, BadArgument, LoadFails, ParseFails, Destroy, Killed, Exit
<1>6. CASE Load \/ Parse
  <2>1. /\ argv' = argv /\ argi' = argi /\ port' = port
        /\ pc \in {"arguments", "parse"} /\ pc' \in {"arguments", "parse"}
    BY <1>6 DEF Load, Parse, Loading, mainVars
  <2> QED BY <2>1, PortKept
<1>7. CASE Construct \/ Start
  BY <1>7, PortKept DEF Construct, Start, CreateSocket, BindListen, GetFlags, SetFlags,
     EpollCreate, EpollAdd, StartStep, Call, configVars, mainVars
<1>8. CASE LoopRound \/ Caught \/ OtherKey \/ Shutdown \/ Restore
  BY <1>8, PortKept DEF LoopRound, Caught, OtherKey, Shutdown, Restore, Call, configVars, mainVars
<1>9. CASE Typing \/ UNCHANGED vars
  <2>1. argv' = argv /\ argi' = argi /\ port' = port /\ m_values' = m_values /\ pc' = pc
    BY <1>9 DEF Typing, vars, runVars, configVars, mainVars
  <2>2. CASE pc \in {"arguments", "parse"}
    BY <2>1, <2>2, PortKept, Zenon
  <2>3. CASE pc = "exited"
    BY <1>4, <2>1, <2>3
  <2>4. CASE pc \notin {"arguments", "parse", "exited"}
    BY <2>1, <2>4, PortKept, Zenon
  <2> QED BY <2>2, <2>3, <2>4
<1>10. CASE Again
  BY <1>10 DEF Again, Begin, PortInv
<1> QED BY <1>1, <1>2, <1>3, <1>5, <1>6, <1>7, <1>8, <1>9, <1>10
        DEF Next, Process, Arguments, Configure, Ended

(***************************************************************************)
(* What a NUMBER is the number of.                                         *)
(***************************************************************************)
LEMMA NumberIs ==
  ASSUME NEW v, ConfigurationValue(v).cvtType = "NUMBER"
  PROVE  ConfigurationValue(v).intValue = NumberOf(v[1])
BY DEF ConfigurationValue

(***************************************************************************)
(* Without a -p the server listens on the port of the file's first line    *)
(* that gives one, in whatever case, behind whatever other lines, of which *)
(* 16 bits are used; if these are 0, one that the kernel chooses.          *)
(***************************************************************************)
THEOREM FilePort == Spec => []PortFromFile
<1>1. Init => ScanInv /\ BoundInv /\ ParseInv /\ PortInv
  <2>1. Init => BoundInv
    BY DEF Init, BoundInv, Bound, Starting
  <2>2. ASSUME Init PROVE ScanInv
    BY <2>2 DEF Init, ScanInv, Scanned, LastBehind, Behind, Odd
  <2>3. Init => PortInv
    BY DEF Init, PortInv
  <2> QED BY <2>1, <2>2, <2>3, ParseInit
<1>2. ASSUME ScanInv, BoundInv, ParseInv, PortInv PROVE PortFromFile
  <2> SUFFICES ASSUME pc = "loop", \A n \in 1..Argc : ~Given(n), Plain(File.lines)
               PROVE  \E n \in 1..Len(File.lines) : \E v \in Values(File.lines[n]) :
                        /\ FirstSets(File.lines, n, Lower("ServerPort"), v)
                        /\ bound \in Ports(NumberOf(v[1]) % PortRange)
    BY DEF PortFromFile
  <2>1. HasNumber("ServerPort") /\ port = Number("ServerPort")
    BY <1>2 DEF PortInv, NoPort, Behind
  <2>2. bound \in Ports(port % PortRange)
    BY <1>2 DEF BoundInv, Bound
  <2>3. Means(File.lines, m_values)
    BY <1>2 DEF ParseInv, Learned
  <2>4. Lower("ServerPort") \in DOMAIN m_values
        /\ m_values[Lower("ServerPort")].cvtType = "NUMBER"
    BY <2>1 DEF HasNumber, Has
  <2>5. PICK n \in 1..Len(File.lines) : \E v \in Values(File.lines[n]) :
          /\ FirstSets(File.lines, n, Lower("ServerPort"), v)
          /\ m_values[Lower("ServerPort")] = ConfigurationValue(v)
    BY <2>3, <2>4 DEF Means
  <2>6. PICK v \in Values(File.lines[n]) :
          /\ FirstSets(File.lines, n, Lower("ServerPort"), v)
          /\ m_values[Lower("ServerPort")] = ConfigurationValue(v)
    BY <2>5
  <2>7. Number("ServerPort") = NumberOf(v[1])
    BY <2>4, <2>6, NumberIs DEF Number
  <2> QED BY <2>1, <2>2, <2>6, <2>7
<1> QED BY <1>1, <1>2, NextScan, NextBound, NextParse, NextPort, PTL DEF Spec

-----------------------------------------------------------------------------
(* The default file *)

DefaultKey == {"ServerPort", "ClientVersion", "RequireVersion", "AuthenticationTimeout"}
DefaultValue(k) ==
  IF k = "ServerPort" THEN "23000"
  ELSE IF k = "ClientVersion" THEN "20131016"
  ELSE IF k = "RequireVersion" THEN "yes" ELSE "30"

Comment == <<"#", " ", "words">>
Assign(k, v) == <<k, " ", "=", " ", v>>
Default == FileContents.lines

LEMMA DefaultWords ==
  /\ \A k \in DefaultKey : k \in Word /\ DefaultValue(k) \in Word \cup Digits
  /\ {"23000", "20131016", "30"} \subseteq Digits
  /\ NumberOf("23000") = 23000 /\ NumberOf("30") = 30
  /\ \A v, w \in DefaultKey : Lower(v) = Lower(w) => v = w
BY DefaultAssumption DEF DefaultKey, DefaultValue

LEMMA DefaultLines ==
  /\ Len(Default) = 11
  /\ \A k \in DefaultKey : \E n \in 1..11 : Default[n] = Assign(k, DefaultValue(k))
  /\ \A n \in 1..11 : \/ Default[n] \in {<<>>, Comment}
                      \/ \E k \in DefaultKey : Default[n] = Assign(k, DefaultValue(k))
<1> DEFINE a == Assign("ServerPort", DefaultValue("ServerPort"))
           b == Assign("ClientVersion", DefaultValue("ClientVersion"))
           c == Assign("RequireVersion", DefaultValue("RequireVersion"))
           d == Assign("AuthenticationTimeout", DefaultValue("AuthenticationTimeout"))
           e == <<>>
           lines == <<Comment, e, Comment, a, e, Comment, b, c, e, Comment, d>>
<1>1. Default = lines
  BY DEF Default, FileContents, Comment, Assign, DefaultValue
<1>2. \A k \in DefaultKey : Assign(k, DefaultValue(k)) \in {a, b, c, d}
  BY DEF DefaultKey
<1>3. \A x \in {a, b, c, d} : \E k \in DefaultKey : x = Assign(k, DefaultValue(k))
  BY DEF DefaultKey
<1> HIDE DEF a, b, c, d, e
<1>4. Len(lines) = 11 /\ \A x \in {a, b, c, d} : \E n \in 1..11 : lines[n] = x
  <2>1. Len(lines) = 11 /\ lines[4] = a /\ lines[7] = b /\ lines[8] = c /\ lines[11] = d
    OBVIOUS
  <2> HIDE DEF lines
  <2>2. {4, 7, 8, 11} \subseteq 1..11
    OBVIOUS
  <2> QED BY <2>1, <2>2
<1>5. \A n \in 1..11 : lines[n] \in {e, Comment} \cup {a, b, c, d}
  <2>1. \A n \in 1..11 : n \in {1, 2, 3, 4, 5, 6, 7, 8, 9, 10, 11}
    OBVIOUS
  <2>2. lines[1] = Comment /\ lines[2] = e /\ lines[3] = Comment /\ lines[4] = a
        /\ lines[5] = e /\ lines[6] = Comment /\ lines[7] = b /\ lines[8] = c
        /\ lines[9] = e /\ lines[10] = Comment /\ lines[11] = d
    OBVIOUS
  <2> HIDE DEF lines
  <2> QED BY <2>1, <2>2
<1> HIDE DEF lines
<1>6. e = <<>>
  BY DEF e
<1> QED BY <1>1, <1>2, <1>3, <1>4, <1>5, <1>6

LEMMA Pair ==
  ASSUME NEW S, NEW x \in S, NEW y \in S
  PROVE  /\ <<x, y>> \in Seq(S) /\ Len(<<x, y>>) = 2 /\ <<x, y>>[1] = x /\ <<x, y>>[2] = y
         /\ SubSeq(<<x, y>>, 1, 1) = <<x>> /\ SubSeq(<<x, y>>, 2, 2) = <<y>>
<1> DEFINE t == <<x, y>>
           u == SubSeq(t, 1, 1)
           v == SubSeq(t, 2, 2)
<1>1. t \in Seq(S) /\ Len(t) = 2 /\ t[1] = x /\ t[2] = y
  OBVIOUS
<1>2. \A z \in S : <<z>> \in Seq(S) /\ Len(<<z>>) = 1 /\ <<z>>[1] = z
  OBVIOUS
<1> HIDE DEF t
<1>3. /\ 1 \in 1..(Len(t) + 1) /\ 1 \in 0..Len(t) /\ 1 <= 1 + 1
      /\ 2 \in 1..(Len(t) + 1) /\ 2 \in 0..Len(t) /\ 2 <= 2 + 1
  BY <1>1
<1>4. u \in Seq(S) /\ Len(u) = 1 - 1 + 1 /\ \A i \in 1..(1 - 1 + 1) : u[i] = t[1 + i - 1]
  BY <1>1, <1>3, SubSeqIs
<1>5. v \in Seq(S) /\ Len(v) = 2 - 2 + 1 /\ \A i \in 1..(2 - 2 + 1) : v[i] = t[2 + i - 1]
  BY <1>1, <1>3, SubSeqIs
<1> HIDE DEF u, v
<1>6. Len(u) = 1 /\ Len(v) = 1 /\ \A i \in 1..1 : i = 1 /\ u[i] = x /\ v[i] = y
  BY <1>1, <1>4, <1>5
<1>7. u = <<x>> /\ v = <<y>>
  BY <1>2, <1>4, <1>5, <1>6, SeqEqual
<1> QED BY <1>1, <1>7 DEF t, u, v

LEMMA Five ==
  ASSUME NEW S, NEW t \in Seq(S), Len(t) = 5
  PROVE  SubSeq(t, 1, 2) = <<t[1], t[2]>> /\ SubSeq(t, 4, 5) = <<t[4], t[5]>>
<1> DEFINE u == SubSeq(t, 1, 2)
           v == SubSeq(t, 4, 5)
<1>1. t[1] \in S /\ t[2] \in S /\ t[4] \in S /\ t[5] \in S
  <2>1. \A i \in 1..Len(t) : t[i] \in S
    OBVIOUS
  <2>2. {1, 2, 4, 5} \subseteq 1..5
    OBVIOUS
  <2> QED BY <2>1, <2>2
<1>2. /\ 1 \in 1..(Len(t) + 1) /\ 2 \in 0..Len(t) /\ 1 <= 2 + 1
      /\ 4 \in 1..(Len(t) + 1) /\ 5 \in 0..Len(t) /\ 4 <= 5 + 1
  OBVIOUS
<1>3. u \in Seq(S) /\ Len(u) = 2 - 1 + 1 /\ \A i \in 1..(2 - 1 + 1) : u[i] = t[1 + i - 1]
  BY <1>1, <1>2, SubSeqIs
<1>4. v \in Seq(S) /\ Len(v) = 5 - 4 + 1 /\ \A i \in 1..(5 - 4 + 1) : v[i] = t[4 + i - 1]
  BY <1>1, <1>2, SubSeqIs
<1> HIDE DEF u, v
<1>5. Len(u) = 2 /\ Len(v) = 2 /\ u[1] = t[1] /\ u[2] = t[2] /\ v[1] = t[4] /\ v[2] = t[5]
  BY <1>3, <1>4
<1>6. \A i \in 1..2 : i = 1 \/ i = 2
  OBVIOUS
<1>7. ASSUME NEW w \in Seq(S), Len(w) = 2, NEW a \in S, NEW b \in S, w[1] = a, w[2] = b
      PROVE  w = <<a, b>>
  <2> DEFINE z == <<a, b>>
  <2>1. z \in Seq(S) /\ Len(z) = 2 /\ z[1] = a /\ z[2] = b
    BY Pair, Zenon
  <2> HIDE DEF z
  <2>2. w = z
    BY <1>6, <1>7, <2>1, SeqEqual
  <2> QED BY <2>2 DEF z
<1>8. u = <<t[1], t[2]>>
  BY <1>1, <1>3, <1>5, <1>7, Zenon
<1>9. v = <<t[4], t[5]>>
  BY <1>1, <1>4, <1>5, <1>7, Zenon
<1> QED BY <1>8, <1>9 DEF u, v

LEMMA Triple ==
  ASSUME NEW S, NEW x \in S, NEW y \in S, NEW z \in S
  PROVE  LET t == <<x, y, z>> IN t \in Seq(S) /\ Len(t) = 3 /\ t[1] = x /\ t[3] = z
  OBVIOUS

LEMMA AssignSets ==
  ASSUME NEW k \in Word, NEW v \in Word \cup Digits
  PROVE  /\ Assign(k, v) \in Seq({k, v, " ", "="})
         /\ Sets(Assign(k, v), k, <<v>>)
         /\ Len(Assign(k, v)) = 5 /\ Assign(k, v)[5] \notin Blank
<1> DEFINE line == Assign(k, v)
           S == {k, v, " ", "="}
           left == <<k, " ">>
           right == <<" ", v>>
<1>1. k \notin Blank /\ v \notin Blank /\ " " \in Blank
  BY TextAssumption DEF Blank
<1>2. k \in S /\ v \in S /\ " " \in S /\ "=" \in S
  OBVIOUS
<1> HIDE DEF S
<1>3. /\ left \in Seq(S) /\ Len(left) = 2 /\ left[1] = k /\ left[2] = " "
      /\ SubSeq(left, 1, 1) = <<k>>
  BY <1>2, Pair, Zenon
<1>4. /\ right \in Seq(S) /\ Len(right) = 2 /\ right[1] = " " /\ right[2] = v
      /\ SubSeq(right, 2, 2) = <<v>>
  BY <1>2, Pair, Zenon
<1>5. /\ line \in Seq(S) /\ Len(line) = 5 /\ line[3] = "=" /\ line[5] = v
      /\ SubSeq(line, 1, 2) = left /\ SubSeq(line, 4, 5) = right
  <2>1. \A T : \A x, y, z, u, w \in T : <<x, y, z, u, w>> \in Seq(T)
    OBVIOUS
  <2>2. line \in Seq(S)
    BY <1>2, <2>1, Zenon DEF Assign
  <2>3. Len(line) = 5 /\ line[1] = k /\ line[2] = " " /\ line[3] = "=" /\ line[4] = " "
        /\ line[5] = v
    BY DEF Assign
  <2> HIDE DEF line
  <2>4. SubSeq(line, 1, 2) = <<line[1], line[2]>> /\ SubSeq(line, 4, 5) = <<line[4], line[5]>>
    BY <2>2, <2>3, Five, Zenon
  <2> QED BY <2>2, <2>3, <2>4, Zenon
<1> HIDE DEF left, right
<1>6. Trimmed(left) = <<k>>
  <2>1. FirstToken(left, 1) /\ LastToken(left, 1)
    <3>1. Len(left) = 2 /\ left[1] = k /\ left[2] = " "
      BY <1>3
    <3>2. 1 \in 1..2 /\ 1..(1 - 1) = {} /\ \A i \in (1 + 1)..2 : i = 2
      OBVIOUS
    <3> QED BY <1>1, <3>1, <3>2 DEF FirstToken, LastToken
  <2> QED BY <1>3, <2>1, TrimmedIs, Zenon
<1>7. Trimmed(right) = <<v>>
  <2>1. FirstToken(right, 2) /\ LastToken(right, 2)
    <3>1. Len(right) = 2 /\ right[1] = " " /\ right[2] = v
      BY <1>4
    <3>2. 2 \in 1..2 /\ (2 + 1)..2 = {} /\ \A i \in 1..(2 - 1) : i = 1
      OBVIOUS
    <3> QED BY <1>1, <3>1, <3>2 DEF FirstToken, LastToken
  <2> QED BY <1>4, <2>1, TrimmedIs, Zenon
<1>8. <<v>> # <<>> /\ \A i \in 1..Len(<<v>>) : <<v>>[i] \in Word \cup Digits \cup Blank
  OBVIOUS
<1>9. Sets(line, k, <<v>>)
  <2>1. 3 \in 1..Len(line) /\ 3 - 1 = 2 /\ 3 + 1 = 4
    <3>1. Len(line) = 5
      BY <1>5
    <3> HIDE DEF line
    <3> QED BY <3>1
  <2> HIDE DEF line
  <2> QED BY <1>5, <1>6, <1>7, <1>8, <2>1 DEF Sets
<1> HIDE DEF line
<1> QED BY <1>1, <1>5, <1>9 DEF line, S

LEMMA QuietLines ==
  ASSUME NEW line \in {<<>>, Comment}
  PROVE  /\ CommentOrBlank(line) /\ \A key, v : ~Sets(line, key, v)
         /\ line = <<>> \/ line[Len(line)] \notin Blank
<1>1. CASE line = <<>>
  <2>1. AllBlank(line) /\ line \in Seq({})
    BY <1>1 DEF AllBlank
  <2> QED BY <1>1, <2>1, TrimmedIs, BlankSilent DEF CommentOrBlank
<1>2. CASE line = Comment
  <2> DEFINE S == {"#", " ", "words"}
  <2>0. "#" \in S /\ " " \in S /\ "words" \in S
    OBVIOUS
  <2> HIDE DEF S
  <2>1. line \in Seq(S) /\ Len(line) = 3 /\ line[1] = "#" /\ line[3] = "words"
    BY <1>2, <2>0, Triple DEF Comment
  <2>2. FirstToken(line, 1) /\ LastToken(line, 3) /\ line[3] \notin Blank
    <3>1. "#" \notin Blank /\ "words" \notin Blank
      BY DEF Blank
    <3>2. 1 \in 1..3 /\ 3 \in 1..3 /\ 1..(1 - 1) = {} /\ (3 + 1)..3 = {}
      OBVIOUS
    <3> QED BY <2>1, <3>1, <3>2 DEF FirstToken, LastToken
  <2>3. SubSeq(line, 1, 3)[1] = "#"
    <3>1. 1 \in 1..(Len(line) + 1) /\ 3 \in 0..Len(line) /\ 1 <= 3 + 1
          /\ 1 \in 1..(3 - 1 + 1) /\ 1 + 1 - 1 = 1
      BY <2>1
    <3> QED BY <2>1, <3>1, SubSeqIs
  <2>4. Trimmed(line) = SubSeq(line, 1, 3)
    BY <2>1, <2>2, TrimmedIs
  <2>5. \A key, v : ~Sets(line, key, v)
    BY <2>1, <2>2, CommentSilent
  <2> QED BY <2>1, <2>2, <2>3, <2>4, <2>5 DEF CommentOrBlank
<1> QED BY <1>1, <1>2

LEMMA DefaultPlain == Plain(Default)
<1> SUFFICES ASSUME NEW n \in 1..Len(Default)
             PROVE  /\ SettingLine(Default[n]) \/ CommentOrBlank(Default[n])
                    /\ Default[n] = <<>> \/ Default[n][Len(Default[n])] \notin Blank
  BY DEF Plain, WellFormed
<1>1. n \in 1..11
  BY DefaultLines
<1>2. CASE Default[n] \in {<<>>, Comment}
  BY <1>2, QuietLines
<1>3. ASSUME NEW k \in DefaultKey, Default[n] = Assign(k, DefaultValue(k))
      PROVE  /\ SettingLine(Default[n])
             /\ Default[n][Len(Default[n])] \notin Blank
  <2>1. k \in Word /\ DefaultValue(k) \in Word \cup Digits
    BY DefaultWords
  <2>2. Sets(Default[n], k, <<DefaultValue(k)>>)
        /\ Len(Default[n]) = 5 /\ Default[n][5] \notin Blank
    BY <1>3, <2>1, AssignSets
  <2>3. <<DefaultValue(k)>> \in Values(Default[n])
    BY <2>2, SetsValue
  <2> QED BY <2>1, <2>2, <2>3 DEF SettingLine
<1> QED BY <1>1, <1>2, <1>3, DefaultLines

(***************************************************************************)
(* Each of its keys has the value on its line, for the first line that     *)
(* sets a key is the only one.                                             *)
(***************************************************************************)
LEMMA DefaultMeans ==
  ASSUME NEW values, Means(Default, values), NEW k \in DefaultKey
  PROVE  /\ Lower(k) \in DOMAIN values
         /\ values[Lower(k)] = ConfigurationValue(<<DefaultValue(k)>>)
<1>1. PICK n \in 1..Len(Default) : Default[n] = Assign(k, DefaultValue(k))
  BY DefaultLines
<1>2. k \in Word /\ Sets(Default[n], k, <<DefaultValue(k)>>)
  <2> DEFINE v == DefaultValue(k)
  <2>1. k \in Word /\ v \in Word \cup Digits /\ Default[n] = Assign(k, v)
    BY <1>1, DefaultWords
  <2> HIDE DEF v
  <2>2. Sets(Default[n], k, <<v>>)
    BY <2>1, AssignSets
  <2> QED BY <2>1, <2>2 DEF v
<1>3. Lower(k) \in DOMAIN values
  <2>1. <<DefaultValue(k)>> \in Values(Default[n])
    BY <1>2, SetsValue
  <2> QED BY <1>2, <2>1 DEF Means
<1>4. PICK i \in 1..Len(Default) : \E v \in Values(Default[i]) :
        FirstSets(Default, i, Lower(k), v) /\ values[Lower(k)] = ConfigurationValue(v)
  BY <1>3 DEF Means
<1>5. PICK v : FirstSets(Default, i, Lower(k), v) /\ values[Lower(k)] = ConfigurationValue(v)
  BY <1>4
<1>6. PICK key \in Word : Lower(key) = Lower(k) /\ Sets(Default[i], key, v)
  BY <1>5 DEF FirstSets
<1>7. PICK l \in DefaultKey : Default[i] = Assign(l, DefaultValue(l))
  <2>1. Default[i] \notin {<<>>, Comment}
    BY <1>6, QuietLines
  <2> QED BY <2>1, DefaultLines
<1> DEFINE w == DefaultValue(l)
<1>8. l \in Word /\ w \in Word \cup Digits
  BY DefaultWords
<1>9. Default[i] \in Seq({l, w, " ", "="}) /\ Sets(Default[i], l, <<w>>)
  <2> HIDE DEF w
  <2> QED BY <1>7, <1>8, AssignSets DEF w
<1>10. key = l /\ v = <<w>>
  <2> HIDE DEF w
  <2> QED BY <1>6, <1>9, SetsUnique
<1>11. l = k
  BY <1>6, <1>10, DefaultWords
<1> QED BY <1>3, <1>5, <1>10, <1>11

LEMMA DefaultRead ==
  ASSUME Means(Default, m_values)
  PROVE  /\ HasNumber("ServerPort") => Number("ServerPort") = 23000
         /\ HasBoolean("RequireVersion") /\ Boolean("RequireVersion")
         /\ HasText("ClientVersion") /\ Text("ClientVersion") = <<"20131016">>
         /\ HasNumber("AuthenticationTimeout") /\ Number("AuthenticationTimeout") = 30
<1>1. ASSUME NEW k \in DefaultKey
      PROVE  /\ Lower(k) \in DOMAIN m_values
             /\ m_values[Lower(k)] = ConfigurationValue(<<DefaultValue(k)>>)
  BY DefaultMeans
<1>2. \A d \in {"23000", "20131016", "30"} :
        ConfigurationValue(<<d>>)
          = [cvtType |-> "NUMBER", szValue |-> <<d>>, intValue |-> NumberOf(d)]
  <2> TAKE d \in {"23000", "20131016", "30"}
  <2>1. <<d>> # <<"yes">> /\ <<d>> # <<"no">> /\ <<d>>[1] = d
    <3>1. d # "yes" /\ d # "no"
      OBVIOUS
    <3>2. \A x, y : <<x>> = <<y>> => x = y
      OBVIOUS
    <3> QED BY <3>1, <3>2
  <2>2. d \in Digits
    BY DefaultWords
  <2> QED BY <2>1, <2>2 DEF ConfigurationValue
<1>3. ConfigurationValue(<<"yes">>)
        = [cvtType |-> "BOOLEAN", szValue |-> <<"yes">>, intValue |-> 1]
  BY DEF ConfigurationValue
<1>4. /\ DefaultValue("ServerPort") = "23000" /\ DefaultValue("ClientVersion") = "20131016"
      /\ DefaultValue("RequireVersion") = "yes" /\ DefaultValue("AuthenticationTimeout") = "30"
  BY DEF DefaultValue
<1>5. {"ServerPort", "ClientVersion", "RequireVersion", "AuthenticationTimeout"} = DefaultKey
  BY DEF DefaultKey
<1>6. HasNumber("ServerPort") => Number("ServerPort") = 23000
  <2>1. m_values[Lower("ServerPort")] = ConfigurationValue(<<"23000">>)
    BY <1>1, <1>4, <1>5
  <2>2. m_values[Lower("ServerPort")].intValue = NumberOf("23000")
    BY <1>2, <2>1
  <2> QED BY <2>2, DefaultWords DEF Number
<1>7. HasBoolean("RequireVersion") /\ Boolean("RequireVersion")
  BY <1>1, <1>3, <1>4, <1>5 DEF HasBoolean, Has, Boolean
<1>8. HasText("ClientVersion") /\ Text("ClientVersion") = <<"20131016">>
  <2>1. Lower("ClientVersion") \in DOMAIN m_values
        /\ m_values[Lower("ClientVersion")] = ConfigurationValue(<<"20131016">>)
    BY <1>1, <1>4, <1>5
  <2>2. m_values[Lower("ClientVersion")].cvtType = "NUMBER"
        /\ m_values[Lower("ClientVersion")].szValue = <<"20131016">>
    BY <1>2, <2>1
  <2> QED BY <2>1, <2>2 DEF HasText, Has, Text
<1>9. HasNumber("AuthenticationTimeout") /\ Number("AuthenticationTimeout") = 30
  <2>1. Lower("AuthenticationTimeout") \in DOMAIN m_values
        /\ m_values[Lower("AuthenticationTimeout")] = ConfigurationValue(<<"30">>)
    BY <1>1, <1>4, <1>5
  <2>2. m_values[Lower("AuthenticationTimeout")].cvtType = "NUMBER"
        /\ m_values[Lower("AuthenticationTimeout")].intValue = NumberOf("30")
    BY <1>2, <2>1
  <2> QED BY <2>1, <2>2, DefaultWords DEF HasNumber, Has, Number
<1> QED BY <1>6, <1>7, <1>8, <1>9

-----------------------------------------------------------------------------
(***************************************************************************)
(* A file that --makecfg wrote to its end is the default one.              *)
(***************************************************************************)
MadeInv ==
  /\ DOMAIN files = FileName
  /\ \A f \in made : f \in FileName /\ files[f] = FileContents

AnnouncedInv ==
  pc \notin {"arguments", "parse", "construct", "exited"} /\ szConfigFile \in made =>
    m_nAuthenicationTimeout = 30 /\ m_szRequiredVersion = <<"20131016">>

LEMMA NextMade == ASSUME MadeInv, [Next]_vars PROVE MadeInv'
<1>1. CASE MakeConfig
  <2>1. CASE UNCHANGED <<files, made>>
    BY <2>1 DEF MadeInv
  <2>2. ASSUME NEW x \in FileName, NEW file, files' = [files EXCEPT ![x] = file],
               made' = IF file = FileContents THEN made \cup {x} ELSE made \ {x}
        PROVE  MadeInv'
    <3>1. DOMAIN files' = FileName /\ files'[x] = file
          /\ \A f \in FileName \ {x} : files'[f] = files[f]
      BY <2>2 DEF MadeInv
    <3> QED BY <2>2, <3>1 DEF MadeInv
  <2> QED BY <1>1, <2>1, <2>2 DEF MakeConfig
<1>2. CASE UNCHANGED <<files, made>>
  BY <1>2 DEF MadeInv
<1>3. CASE PortArgument \/ ConfigArgument \/ BadArgument \/ Configure \/ Construct
  BY <1>2, <1>3 DEF PortArgument, ConfigArgument, BadArgument, Configure, LoadFails, Load,
     Parse, ParseFails, GetPort, Construct
<1>4. CASE Start \/ LoopRound \/ Caught \/ OtherKey \/ Shutdown \/ Restore
  BY <1>2, <1>4 DEF Start, CreateSocket, BindListen, GetFlags, SetFlags, EpollCreate,
     EpollAdd, StartStep, LoopRound, Caught, OtherKey, Shutdown, Restore, Call
<1>5. CASE Destroy \/ Killed \/ Again \/ Typing \/ UNCHANGED vars
  BY <1>2, <1>5 DEF Destroy, Killed, Again, Typing, vars, runVars
<1> QED BY <1>1, <1>3, <1>4, <1>5 DEF Next, Process, Arguments, Ended

(***************************************************************************)
(* What was learned from such a file is what its lines say.                *)
(***************************************************************************)
LEMMA DefaultLearned ==
  ASSUME MadeInv, Learned, pc \notin {"arguments", "parse", "exited"}, szConfigFile \in made
  PROVE  Means(Default, m_values)
<1>1. File = FileContents
  BY DEF MadeInv, File
<1> QED BY <1>1, DefaultPlain DEF Learned, Default

LEMMA NextAnnounced ==
  ASSUME MadeInv, Learned, AnnouncedInv, [Next]_vars
  PROVE  AnnouncedInv'
<1>1. CASE pc' \in {"arguments", "parse", "construct", "exited"}
  BY <1>1 DEF AnnouncedInv
<1>2. CASE Construct
  <2> SUFFICES ASSUME szConfigFile' \in made'
               PROVE  m_nAuthenicationTimeout' = 30 /\ m_szRequiredVersion' = <<"20131016">>
    BY DEF AnnouncedInv
  <2>1. pc = "construct" /\ szConfigFile \in made
    BY <1>2 DEF Construct, mainVars
  <2>2. Means(Default, m_values)
    BY <2>1, DefaultLearned
  <2> QED BY <1>2, <2>2, DefaultRead DEF Construct
<1>3. CASE Arguments \/ Configure \/ Destroy \/ Killed \/ Again
  BY <1>1, <1>3 DEF Arguments, PortArgument, ConfigArgument, MakeConfig, BadArgument, Option,
     Configure, LoadFails, Load, Parse, ParseFails, GetPort, Destroy, Killed, Again, Begin, Exit
<1>4. CASE Start \/ LoopRound \/ Caught \/ OtherKey \/ Shutdown \/ Restore
  BY <1>4 DEF Start, CreateSocket, BindListen, GetFlags, SetFlags, EpollCreate, EpollAdd,
     StartStep, LoopRound, Caught, OtherKey, Shutdown, Restore, Call, mainVars, AnnouncedInv
<1>5. CASE Typing \/ UNCHANGED vars
  BY <1>5 DEF Typing, vars, runVars, mainVars, serverVars, AnnouncedInv
<1> QED BY <1>2, <1>3, <1>4, <1>5 DEF Next, Process, Ended

(***************************************************************************)
(* A server whose configuration --makecfg wrote to its end runs with the   *)
(* settings that its comments announce, in every build.                    *)
(***************************************************************************)
THEOREM DefaultRuns == Spec => []DefaultAsAnnounced
<1>1. Init => ScanInv /\ ParseInv /\ PortInv /\ MadeInv /\ AnnouncedInv
  <2>1. ASSUME Init PROVE ScanInv
    BY <2>1 DEF Init, ScanInv, Scanned, LastBehind, Behind, Odd
  <2>2. Init => PortInv /\ AnnouncedInv
    BY DEF Init, PortInv, AnnouncedInv
  <2>3. Init => MadeInv
    BY StartupAssumption DEF Init, MadeInv
  <2> QED BY <2>1, <2>2, <2>3, ParseInit
<1>2. ASSUME ParseInv, PortInv, MadeInv, AnnouncedInv PROVE DefaultAsAnnounced
  <2> SUFFICES ASSUME pc = "loop", szConfigFile \in made, \A n \in 1..Argc : ~Given(n)
               PROVE  port = 23000
    BY <1>2 DEF DefaultAsAnnounced, AnnouncedInv
  <2>1. HasNumber("ServerPort") /\ port = Number("ServerPort")
    BY <1>2 DEF PortInv, NoPort, Behind
  <2>2. Means(Default, m_values)
    BY <1>2, DefaultLearned DEF ParseInv
  <2> QED BY <2>1, <2>2, DefaultRead
<1>3. ParseInv => Learned
  BY DEF ParseInv
<1> QED BY <1>1, <1>2, <1>3, NextScan, NextParse, NextPort, NextMade, NextAnnounced, PTL DEF Spec
=============================================================================
