------------------------------- MODULE Builds --------------------------------
(***************************************************************************)
(* The certifier as either platform compiles it: #ifdef __linux chooses    *)
(* between the two loops of CNetworkServer::Process.                       *)
(***************************************************************************)
EXTENDS WindowsServer

VARIABLE build   \* "linux" or "windows": never changes

buildVars == <<winVars, build>>

BuildInit == WinInit /\ build \in {"linux", "windows"}

BuildServer ==
  /\ \/ build = "linux" /\ Server /\ UNCHANGED received
     \/ build = "windows" /\ WinServer
  /\ UNCHANGED build

Others == (World \/ Exited) /\ UNCHANGED <<received, build>>

BuildNext == BuildServer \/ Others

(***************************************************************************)
(* The one thread is scheduled; peers, clock and keyboard owe nothing.     *)
(***************************************************************************)
BuildSpec == BuildInit /\ [][BuildNext]_buildVars /\ WF_buildVars(BuildServer)

-----------------------------------------------------------------------------
(***************************************************************************)
(* "do not process more packets from this client if disconnected": on      *)
(* Windows what a peer sends is handled once and in order also in a        *)
(* session that is marked, whether by the packet loop, by a timeout or by  *)
(* its end.  (On Linux a marked session is read on, and the packet its     *)
(* buffer begins with handled again after every read: ByteStream excepts   *)
(* it.)                                                                    *)
(***************************************************************************)
StreamOnce ==
  build = "windows" =>
    \A f \in Fd :
      LET o == m_clients[f]
          c == fdtab[f]
          stream == handled[o] \o buffer[o] \o rx[c] \o tosend[c]
      IN
      o # NULL /\ clean[o] =>
        \A i \in DOMAIN stream : stream[i].s = c /\ stream[i].n = i

(***************************************************************************)
(* On Windows a marked session is left alone: while it lasts nothing more  *)
(* is read into its buffer, and nothing that is there is handled.          *)
(***************************************************************************)
MarkedLeftAlone ==
  [][build = "windows" =>
       \A f \in Fd : Lasts(f) /\ client[m_clients[f]].bDisconnect =>
         /\ buffer'[m_clients[f]] = buffer[m_clients[f]]
         /\ handled'[m_clients[f]] = handled[m_clients[f]]]_buildVars

(***************************************************************************)
(* On Windows a session older than the time allowed ends, whatever its     *)
(* peer sends: the check marks it and the next round disconnects it.       *)
(***************************************************************************)
OverdueEnds ==
  \A c \in Conn :
    (\E f \in Fd : /\ build = "windows"
                   /\ fdtab[f] = c /\ m_clients[f] # NULL
                   /\ now - client[m_clients[f]].tmStartTime
                        > m_nAuthenicationTimeout)
      ~> Gone(c)

(***************************************************************************)
(* On Windows a connection that accept fails on waits for the next round   *)
(* and is not forgotten: it is accepted if failures of accept, for want of *)
(* a handle or for another reason, come to an end.                         *)
(***************************************************************************)
QueueServed ==
  build = "windows" /\ <>[](pc # "failed") => \A c \in Conn : Accepted(c)
=============================================================================
