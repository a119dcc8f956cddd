------------------------------ MODULE Presence ------------------------------
(***************************************************************************)
(* The server's record of who is online (skiff-server/src/presence.rs):     *)
(* a device is while it has an event socket, or was seen less than          *)
(* PRESENCE_TIMEOUT ago.  Every call changes the record under its lock and  *)
(* compares the status before and after; a difference is sent, after the    *)
(* lock is released, to the task that announces it to the device's          *)
(* networks.                                                                *)
(*                                                                         *)
(* The operations are operators on the variables below, for the handlers of *)
(* other modules to call.  The announcing task keeps the order of what it   *)
(* receives.  What a node makes of an announcement, whichever it is, is to  *)
(* fetch its peers again (engine.rs), and it sees the status of then.       *)
(***************************************************************************)
EXTENDS Naturals

CONSTANTS
  Devices,
  MaxUnsent   \* bound: differences not sent yet with which a device is touched again

ASSUME UnsentAssumption == MaxUnsent \in Nat \ {0}

VARIABLES
  record,   \* what is known of a device, or NoRecord
  unsent,   \* differences found under the lock and not sent yet, how many
  view      \* the status the other nodes saw when they fetched last

presenceVars == <<record, unsent, view>>

\* or_default: a record that is created knows nothing.
NoRecord == [ws |-> 0, seen |-> FALSE]
Records == [ws : Nat, seen : BOOLEAN]

InitPresence ==
  /\ record = [d \in Devices |-> NoRecord]
  /\ unsent = [d \in Devices |-> 0]
  /\ view = [d \in Devices |-> FALSE]

Online(r) == r.ws > 0 \/ r.seen

Apply(d, r) ==
  /\ record' = [record EXCEPT ![d] = r]
  /\ unsent' = IF Online(record[d]) = Online(r) THEN unsent
               ELSE [unsent EXCEPT ![d] = @ + 1]
  /\ UNCHANGED view

\* A registration or frame at a relay, a heartbeat.
Touch(d) ==
  /\ unsent[d] < MaxUnsent
  /\ Apply(d, [record[d] EXCEPT !.seen = TRUE])

\* Mutant: the socket is counted and the status not compared.
WsConnectedSilently(d) ==
  /\ record' = [record EXCEPT ![d] = [ws |-> @.ws + 1, seen |-> TRUE]]
  /\ UNCHANGED <<unsent, view>>

WsConnected(d) == Apply(d, [ws |-> record[d].ws + 1, seen |-> TRUE])

WsDisconnected(d) ==
  Apply(d, [record[d] EXCEPT !.ws = IF @ = 0 THEN 0 ELSE @ - 1])

Forget(d) ==
  /\ record' = [record EXCEPT ![d] = NoRecord]
  /\ UNCHANGED <<unsent, view>>

\* The device was not seen for PRESENCE_TIMEOUT.  Nothing runs when that happens.
Lapse(d) ==
  /\ record[d].seen
  /\ record' = [record EXCEPT ![d].seen = FALSE]
  /\ UNCHANGED <<unsent, view>>

\* A caller sends the difference it found, and the nodes that hear of it look.
\* Two callers may send in the other order than they changed the record: the
\* status an announcement carries may be the older one, and no node relies on it.
SendDifference(d) ==
  /\ unsent[d] > 0
  /\ unsent' = [unsent EXCEPT ![d] = @ - 1]
  /\ view' = [view EXCEPT ![d] = Online(record[d])]
  /\ UNCHANGED record

PresenceTypeOK ==
  /\ record \in [Devices -> Records]
  /\ unsent \in [Devices -> Nat]
  /\ view \in [Devices -> BOOLEAN]

\* The other nodes see a device that is online as soon as no announcement is under
\* way, although two announcements can be sent in the wrong order.  (That a device
\* went offline because nobody saw it any more is announced by no call.)
OnlineIsSeen ==
  \A d \in Devices :
    Online(record[d]) /\ unsent[d] = 0 => view[d]
=============================================================================
