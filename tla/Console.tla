------------------------------- MODULE Console -------------------------------
(***************************************************************************)
(* The terminal as src/Core/ConsoleUtilities.cpp uses it: settings that    *)
(* outlive the process, keys on their way to it, and the C library's       *)
(* buffer for stdin.                                                       *)
(***************************************************************************)
EXTENDS Sequences

CONSTANT
  Keys   \* keys somebody types: "escape", "enter" and others

VARIABLES
  terminal,     \* [icanon, echo]: two of its settings
  edited,       \* keys of a line that is not finished
  input,        \* keys that can be read
  stdio,        \* keys getchar has read ahead
  buffered,     \* stdin has a buffer
  initialized   \* _kbhit has been called

consoleVars == <<terminal, edited, input, stdio, buffered, initialized>>

Usual == [icanon |-> TRUE, echo |-> TRUE]

ConsoleInit ==
  /\ terminal = Usual /\ edited = <<>> /\ input = <<>>
  /\ stdio = <<>> /\ buffered = TRUE /\ initialized = FALSE

(***************************************************************************)
(* A new process on the same terminal.                                     *)
(***************************************************************************)
ConsoleBegin ==
  /\ stdio' = <<>> /\ buffered' = TRUE /\ initialized' = FALSE
  /\ UNCHANGED <<terminal, edited, input>>

(***************************************************************************)
(* With icanon a line can be read when it is finished, without it every    *)
(* key at once.                                                            *)
(***************************************************************************)
Type(key) ==
  /\ IF terminal.icanon /\ key # "enter"
     THEN edited' = Append(edited, key) /\ UNCHANGED input
     ELSE input' = input \o edited \o <<key>> /\ edited' = <<>>
  /\ UNCHANGED <<terminal, stdio, buffered, initialized>>

(***************************************************************************)
(* tcsetattr: a change of icanon finishes the line.                        *)
(***************************************************************************)
SetTerminal(icanon, echo) ==
  /\ terminal' = [icanon |-> icanon, echo |-> echo]
  /\ IF terminal.icanon # icanon
     THEN input' = input \o edited /\ edited' = <<>>
     ELSE UNCHANGED <<input, edited>>

KbhitBuffered ==    \* mutant: no setbuf
  /\ SetTerminal(FALSE, FALSE)
  /\ initialized' = TRUE
  /\ UNCHANGED <<stdio, buffered>>

(***************************************************************************)
(* _kbhit: the settings change at the first call; then FIONREAD tells how  *)
(* much can be read from the terminal.                                     *)
(***************************************************************************)
Kbhit ==
  /\ IF initialized THEN UNCHANGED <<terminal, edited, input, buffered>>
     ELSE SetTerminal(FALSE, FALSE) /\ buffered' = FALSE
  /\ initialized' = TRUE
  /\ UNCHANGED stdio

Waiting == input' # <<>>

(***************************************************************************)
(* _getch: from the buffer, which takes all that can be read, or without   *)
(* one a key at a time.                                                    *)
(***************************************************************************)
Getch(key) ==
  /\ stdio \o input # <<>> /\ key = Head(stdio \o input)
  /\ IF stdio # <<>> THEN stdio' = Tail(stdio) /\ UNCHANGED input
     ELSE IF buffered THEN stdio' = Tail(input) /\ input' = <<>>
     ELSE input' = Tail(input) /\ UNCHANGED stdio
  /\ UNCHANGED <<terminal, edited, buffered, initialized>>

RestoreFound ==     \* mutant: restores line editing and leaves echo off
  /\ IF initialized THEN SetTerminal(TRUE, terminal.echo)
     ELSE UNCHANGED <<terminal, edited, input>>
  /\ UNCHANGED <<stdio, buffered, initialized>>

RestoreTermIOS ==
  /\ IF initialized THEN SetTerminal(TRUE, TRUE)
     ELSE UNCHANGED <<terminal, edited, input>>
  /\ UNCHANGED <<stdio, buffered, initialized>>

Pressed(key) == \E i \in DOMAIN (edited \o input \o stdio) :
                  (edited \o input \o stdio)[i] = key
=============================================================================
