------------------------------- MODULE MCEscapes -------------------------------
(***************************************************************************)
(* The escapes of one member with variables of their own, so that they can *)
(* stand beside the settlement, which has the same room and its members.   *)
(***************************************************************************)

CONSTANTS
  Sockets, First, Lanes, LogIds, Guest, Throttled, Quick, Background, MaxWire, MaxRestarts, None

VARIABLES
  closed, gone, quitting, focus, page, escaping, recent, buffer, link, wire, conn, entry, heartbeat,
  logs, run, restarts

E == INSTANCE EscapeTracking WITH Slots <- Lanes, MaxCrashes <- MaxRestarts, NoOne <- None,
       over <- closed, gaveUp <- gone, task <- run, crashes <- restarts

ASSUME EscapesGiven == E!EscapesAssumption

EscapesSpec     == E!Spec
EscapesFairSpec == E!FairSpec

-----------------------------------------------------------------------------
(* The properties of EscapeTracking, which says what they are. *)

\* The types.
EscapesTypeOK == E!TypeOK

\* A user who looks at a connected page in a focus slot is not charged.
PresentNotCharged == E!PresentNotCharged

\* When everything has been dealt with, the user is charged exactly while away.
ChargedAsAway == E!ChargedAsAway

\* The cached entry names the page's socket.
EntryCurrent == E!EntryCurrent

\* No time is charged twice.
LogsSound == E!LogsSound

\* Who is gone is charged in the end.
GoneNoticed == E!GoneNoticed
=============================================================================
