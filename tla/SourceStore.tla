---------------------------- MODULE SourceStore ----------------------------
(***************************************************************************)
(* What KinesisSourceInterface promises to its callers, all clients taken  *)
(* together: the KinesisSource objects are one table, and an edit that a   *)
(* client makes to a copy it read earlier takes effect as if it had been   *)
(* made to the stored object, at once, on top of everybody else's edits.   *)
(*                                                                         *)
(* An edit is abstracted to the mark of its author: the spec and the       *)
(* status of an object are the sets of clients whose edits they carry.     *)
(***************************************************************************)
CONSTANTS
  Keys,      \* the object keys, records with the fields ns and name
  Clients,   \* the authors of edits
  Apps,      \* values of the label selectors look at
  Absent     \* stands for "there is no object of this key"

VARIABLE content   \* [Keys -> Contents \cup {Absent}]

Contents == [app : Apps, spec : SUBSET Clients, status : SUBSET Clients]

Present(k) == content[k] # Absent

SInit == content = [k \in Keys |-> Absent]

(* Create makes an object where there is none; it has no status yet.       *)
SCreate(k) ==
  /\ ~Present(k)
  /\ \E a \in Apps, S \in SUBSET Clients :
       content' = [content EXCEPT ![k] =
                     [app |-> a, spec |-> S, status |-> {}]]

(* An edit of the spec (or of the labels) leaves the status alone ...      *)
SEdit(k) ==
  /\ Present(k)
  /\ \E a \in Apps, S \in SUBSET Clients :
       content' = [content EXCEPT ![k] =
                     [app |-> a, spec |-> content[k].spec \cup S,
                      status |-> content[k].status]]

(* ... and an edit of the status leaves everything else alone.             *)
SReport(k) ==
  /\ Present(k)
  /\ \E S \in SUBSET Clients :
       content' = [content EXCEPT ![k] =
                     [app |-> content[k].app, spec |-> content[k].spec,
                      status |-> content[k].status \cup S]]

SRemove(k) ==
  /\ Present(k)
  /\ content' = [content EXCEPT ![k] = Absent]

SNext == \E k \in Keys : SCreate(k) \/ SEdit(k) \/ SReport(k) \/ SRemove(k)

SSpec == SInit /\ [][SNext]_content
=============================================================================
