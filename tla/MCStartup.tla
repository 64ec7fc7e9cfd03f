------------------------------ MODULE MCStartup ------------------------------
(***************************************************************************)
(* Startup for TLC: lines that set, comment, repeat a key in another case, *)
(* end in blanks, or break the rules in each way the parser notices, and   *)
(* some it does not.                                                       *)
(***************************************************************************)
EXTENDS Startup

MCWord == {"ServerPort", "SERVERPORT", "serverport",
           "AuthenticationTimeout", "authenticationtimeout",
           "RequireVersion", "requireversion",
           "ClientVersion", "clientversion", "yes", "words"}
MCLower(w) ==
  CASE w \in {"ServerPort", "SERVERPORT"} -> "serverport"
    [] w = "AuthenticationTimeout" -> "authenticationtimeout"
    [] w = "RequireVersion" -> "requireversion"
    [] w = "ClientVersion" -> "clientversion"
    [] OTHER -> w
MCDigits == {"23000", "20131016", "30", "80", "0", "70000", "230", "2013", "3"}
MCNumberOf(d) ==
  CASE d = "23000" -> 23000 [] d = "20131016" -> 20131016 [] d = "30" -> 30
    [] d = "80" -> 80 [] d = "0" -> 0 [] d = "70000" -> 70000
    [] d = "230" -> 230 [] d = "2013" -> 2013 [] d = "3" -> 3

MCCutTo(t) ==
  CASE t = "23000" -> {"230"} [] t = "20131016" -> {"2013"} [] t = "30" -> {"3"}
    [] t \in MCWord -> {"words"} [] OTHER -> {}
MCatoi(a) == IF a \in MCDigits THEN MCNumberOf(a) ELSE 0

MCLine == {
  <<>>,
  <<" ", "#", "words", "=", "80">>,
  <<"ServerPort", "=", "80">>,
  <<" ", "SERVERPORT", " ", "=", "70000">>,
  <<"ServerPort", "=", "0", " ", "words">>,
  <<"RequireVersion", "=", " ", "yes", " ">>,
  <<"ClientVersion", "=", "words", "80">>,
  <<"AuthenticationTimeout", "=", "0", "#", "words">>,
  <<"ServerPort", "80">>,
  <<"RequireVersion", "=", " ">>,
  <<"80", "words">>}

MCCommandLine == {
  <<>>, <<"-p">>, <<"-cfg">>, <<"--makecfg">>, <<"words">>,
  <<"--port", "80">>, <<"-p", "70000">>, <<"-p", "80", "-p", "23000">>,
  <<"-cfg", "other">>, <<"--config", "other", "-p", "80">>,
  <<"-cfg", "other", "-cfg", "certifier.conf">>,
  <<"--makecfg", "certifier.conf">>, <<"-p", "80", "--makecfg", "certifier.conf">>}

\* one file at most: certifier.conf with up to two lines, or another with one
LinesUpTo(n) ==
  [lines : UNION {[1..k -> MCLine] : k \in 0..n}, eol : {<<"\n">>, <<"\r", "\n">>}]
Only(name, file) == [f \in FileName |-> IF f = name THEN file ELSE Missing]
MCDisk ==
  {Only("certifier.conf", file) : file \in {Missing} \cup LinesUpTo(2)} \cup
  {Only("other", [lines |-> <<line>>, eol |-> <<"\n">>]) : line \in MCLine}
=============================================================================
