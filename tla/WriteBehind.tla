----------------------------- MODULE WriteBehind -----------------------------
(***************************************************************************)
(* What the collections of src/src/Framework.ts amount to, without clocks,  *)
(* fibers and storage: each replica shows its own copy of every collection; *)
(* a call replaces the copy by what it had read and one more element, and   *)
(* publishes that afterwards, at most once and perhaps never; now and then  *)
(* a copy is replaced by a published one.                                   *)
(***************************************************************************)
EXTENDS Naturals, Sequences

CONSTANTS Replica, Key, Caller, Host, None

VARIABLES
  calls,  \* calls[a]: how often a has called
  draft,  \* draft[a]: what the call of a writes, and whether its replica shows it
  view,   \* view[r][k]: the elements that r shows of collection k
  late,   \* writes given up that may still arrive
  log     \* what has been published

vars == <<calls, draft, view, late, log>>

Free == [pc |-> "free", write |-> None]

Init ==
  /\ calls = [a \in Caller |-> 0]
  /\ draft = [a \in Caller |-> Free]
  /\ view = [r \in Replica |-> [k \in Key |-> {}]]
  /\ late = {}
  /\ log = <<>>

\* The call adds its element to what it has read: the copy, or nothing where the read
\* has failed.
Begin(a, k, read) ==
  LET e == <<a, calls[a] + 1>>
  IN /\ draft[a].pc = "free"
     /\ draft' = [draft EXCEPT ![a] =
                    [pc |-> "begun",
                     write |-> [id |-> e, key |-> k, elements |-> read \cup {e}]]]
     /\ calls' = [calls EXCEPT ![a] = @ + 1]
     /\ UNCHANGED <<view, late, log>>

\* The call comes to nothing.
Refuse(a) ==
  /\ draft[a].pc = "free"
  /\ calls' = [calls EXCEPT ![a] = @ + 1]
  /\ UNCHANGED <<draft, view, late, log>>

\* The whole copy is replaced, whatever has become of it since it was read.
Keep(a) ==
  LET w == draft[a].write
  IN /\ draft[a].pc = "begun"
     /\ view' = [view EXCEPT ![Host[a]][w.key] = w.elements]
     /\ draft' = [draft EXCEPT ![a].pc = "kept"]
     /\ UNCHANGED <<calls, late, log>>

Publish(a) ==
  /\ draft[a].pc = "kept"
  /\ log' = Append(log, draft[a].write)
  /\ draft' = [draft EXCEPT ![a] = Free]
  /\ UNCHANGED <<calls, view, late>>

\* Only what the replica shows may have been sent.
GiveUp(a) ==
  /\ draft[a].pc # "free"
  /\ \/ late' = late
     \/ draft[a].pc = "kept" /\ late' = late \cup {draft[a].write}
  /\ draft' = [draft EXCEPT ![a] = Free]
  /\ UNCHANGED <<calls, view, log>>

Arrive(w) ==
  /\ w \in late
  /\ log' = Append(log, w)
  /\ late' = late \ {w}
  /\ UNCHANGED <<calls, draft, view>>

\* r takes a published value, an old one perhaps.
Adopt(r, i) ==
  /\ i \in DOMAIN log
  /\ view' = [view EXCEPT ![r][log[i].key] = log[i].elements]
  /\ UNCHANGED <<calls, draft, late, log>>

\* r forgets what it was doing, and all it shows unless that is on disk.  What it was
\* publishing may have been sent.
Restart(r, sent) ==
  /\ sent \subseteq {a \in Caller : Host[a] = r /\ draft[a].pc = "kept"}
  /\ late' = late \cup {draft[a].write : a \in sent}
  /\ draft' = [a \in Caller |-> IF Host[a] = r THEN Free ELSE draft[a]]
  /\ view' \in {view, [view EXCEPT ![r] = [k \in Key |-> {}]]}
  /\ UNCHANGED <<calls, log>>

Call(a) ==
  \/ \E k \in Key : \E read \in {view[Host[a]][k], {}} : Begin(a, k, read)
  \/ Refuse(a) \/ Keep(a) \/ Publish(a) \/ GiveUp(a)

Next ==
  \/ \E a \in Caller : Call(a)
  \/ \E w \in late : Arrive(w)
  \/ \E r \in Replica : \/ \E i \in DOMAIN log : Adopt(r, i)
                        \/ \E sent \in SUBSET Caller : Restart(r, sent)

Spec == Init /\ [][Next]_vars

=============================================================================
