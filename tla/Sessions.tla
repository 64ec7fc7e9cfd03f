------------------------------ MODULE Sessions -------------------------------
(***************************************************************************)
(* What the network layer promises, without descriptors, objects, events   *)
(* or bytes: connections are admitted in the order in which they arrived,  *)
(* each at most once, each with the next number; an admitted connection    *)
(* keeps its number until its session ends; nothing is admitted after      *)
(* shutdown, and shutdown leaves no session behind.                        *)
(***************************************************************************)
EXTENDS Naturals, Sequences

CONSTANTS Conn, IdRange

VARIABLES
  queue,   \* connections waiting, oldest first
  served,  \* connections with a session
  ended,   \* connections whose session is over, or that were refused
  id,      \* id[c]: the number of the session that serves c, else 0
  next,    \* the number of the next session
  open     \* the server accepts connections

sessionVars == <<queue, served, ended, id, next, open>>

Waiting == {queue[i] : i \in DOMAIN queue}

Init ==
  /\ queue = <<>>
  /\ served = {}
  /\ ended = {}
  /\ id = [c \in Conn |-> 0]
  /\ next = 1
  /\ open = TRUE

Arrive(c) ==
  /\ open
  /\ c \notin Waiting \cup served \cup ended
  /\ queue' = Append(queue, c)
  /\ UNCHANGED <<served, ended, id, next, open>>

Admit ==
  /\ open /\ queue # <<>>
  /\ queue' = Tail(queue)
  /\ served' = served \cup {Head(queue)}
  /\ id' = [id EXCEPT ![Head(queue)] = next % IdRange]
  /\ next' = next + 1
  /\ UNCHANGED <<ended, open>>

End(c) ==
  /\ c \in served
  /\ served' = served \ {c}
  /\ ended' = ended \cup {c}
  /\ id' = [id EXCEPT ![c] = 0]
  /\ UNCHANGED <<queue, next, open>>

Shut ==
  /\ open /\ served = {}
  /\ open' = FALSE
  /\ queue' = <<>>
  /\ ended' = ended \cup Waiting
  /\ UNCHANGED <<served, id, next>>

Next == (\E c \in Conn : Arrive(c) \/ End(c)) \/ Admit \/ Shut

Spec == Init /\ [][Next]_sessionVars
=============================================================================
