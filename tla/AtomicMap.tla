----------------------------- MODULE AtomicMap -----------------------------
(***************************************************************************)
(* What Masstree promises its callers: a map from keys to values on which  *)
(* every insert_value and remove_value takes effect at one instant between *)
(* its call and its return. get_value answers with what the map held at    *)
(* such an instant, and so does scan for each key, though not for all keys *)
(* at the same one.                                                        *)
(*                                                                         *)
(* seen[t][k] collects what the map held for key k since thread t made its *)
(* call, so an answer is right when it is in that set.                     *)
(***************************************************************************)
EXTENDS Naturals, Sequences

CONSTANTS Threads, Keys, Absent,
          InRange(_, _),          \* is a key in the range of a scan?
          Before(_, _)            \* the order in which scan lists keys

VARIABLES map, call, seen

vars == <<map, call, seen>>

Idle == "none"

Nothing == [k \in Keys |-> {}]

Init ==
  /\ map = [k \in Keys |-> Absent]
  /\ call = [t \in Threads |-> [op |-> Idle, key |-> Absent, rng |-> Absent,
                                eff |-> FALSE, ret |-> Absent]]
  /\ seen = [t \in Threads |-> Nothing]

\* Every open call sees the map m as well.
Watch(m) ==
  seen' = [t \in Threads |->
             IF call[t].op = Idle THEN seen[t]
                                  ELSE [k \in Keys |-> seen[t][k] \cup {m[k]}]]

Call(t) ==
  /\ call[t].op = Idle
  /\ call'[t].op # Idle
  /\ ~call'[t].eff
  /\ call' = [call EXCEPT ![t] = call'[t]]
  /\ seen' = [seen EXCEPT ![t] = [k \in Keys |-> {map[k]}]]
  /\ UNCHANGED map

Insert(t) ==
  LET k == call[t].key
  IN  /\ call[t].op = "insert"
      /\ ~call[t].eff
      /\ map[k] = Absent
      /\ map' = [map EXCEPT ![k] = [by |-> t, key |-> k]]
      /\ call' = [call EXCEPT ![t].eff = TRUE]
      /\ Watch(map')

Remove(t) ==
  LET k == call[t].key
  IN  /\ call[t].op = "remove"
      /\ ~call[t].eff
      /\ map[k] # Absent
      /\ map' = [map EXCEPT ![k] = Absent]
      /\ call' = [call EXCEPT ![t].eff = TRUE]
      /\ Watch(map')

\* A list of the keys in the range of scan c: all that were there throughout,
\* each with a value it had, in order.
Lists(c, s, l) ==
  /\ \A i \in DOMAIN l : /\ l[i].key \in Keys
                          /\ InRange(c, l[i].key)
                          /\ l[i].value \in s[l[i].key] \ {Absent}
  /\ \A i \in 1 .. Len(l) - 1 : Before(l[i].key, l[i + 1].key)
  /\ \A k \in Keys : InRange(c, k) /\ Absent \notin s[k]
                       => \E i \in DOMAIN l : l[i].key = k

\* The answers a call c that saw s may be given. remove_value also reports OK
\* when there was nothing to remove, and scan an error when the map was empty.
Answers(c, s, r) ==
  \/ /\ c.op = "get"
     /\ r \in s[c.key]
  \/ /\ c.op = "insert"
     /\ \/ c.eff /\ r = "OK"
        \/ ~c.eff /\ r = "WARN_ALREADY_EXISTS" /\ s[c.key] # {Absent}
  \/ /\ c.op = "remove"
     /\ \/ c.eff /\ r = "OK"
        \/ ~c.eff /\ r \in {"OK", "WARN_NOT_FOUND"} /\ Absent \in s[c.key]
  \/ /\ c.op = "scan"
     /\ \/ r.status = "OK"
        \/ r.status = "ERROR_CONCURRENT_WRITE_OR_DELETE" /\ \A k \in Keys : Absent \in s[k]
     /\ Lists(c, s, r.list)

Return(t) ==
  /\ call[t].op # Idle
  /\ call'[t].op = Idle
  /\ Answers(call[t], seen[t], call'[t].ret)
  /\ call' = [call EXCEPT ![t] = call'[t]]
  /\ seen' = [seen EXCEPT ![t] = Nothing]
  /\ UNCHANGED map

Next == \E t \in Threads : Call(t) \/ Insert(t) \/ Remove(t) \/ Return(t)

Spec == Init /\ [][Next]_vars
=============================================================================
