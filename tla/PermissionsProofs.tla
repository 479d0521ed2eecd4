------------------------- MODULE PermissionsProofs -------------------------
(***************************************************************************)
(* Proofs about Permissions, for any rules, scopes, patterns, mails and    *)
(* overlapping calls: IInv is inductive, so the unique indexes and ids     *)
(* hold and a request is on time; listings agree with single decisions by  *)
(* the meaning of the conditions alone.                                    *)
(***************************************************************************)
EXTENDS Permissions, TLAPS

USE PermissionsAssumption

(* What is known of a call in hand, of a row and of the tables.            *)
LEMMA TargetTable == \A x \in Targets : x.table \in Tables
BY DEF MailTarget, CalendarTarget, TemplateTarget, Tables

LEMMA RightsTyped ==
  ASSUME NEW t \in Tables, NEW as, NEW its
  PROVE  RightsOf(t, as, its) \in SUBSET UNION {AllRights(u) : u \in Tables}
<1>1. RightsOf(t, as, its) \subseteq AllRights(t)
  BY DEF RightsOf, AllRights, Tables
<1> QED
  BY <1>1

LEMMA CallTyped ==
  ASSUME TypeOK, NEW c \in Calls, InHand(c)
  PROVE  /\ calls[c] \in Call /\ calls[c].id \in Ids /\ calls[c].target \in Targets
         /\ calls[c].effect \in Effects /\ calls[c].target.table \in Tables
<1>1. calls[c] \in Call \cup {Idle, Over}
  BY DEF TypeOK
<1>2. calls[c] # Idle /\ calls[c] # Over
  BY DEF InHand, Idle, Over
<1>3. calls[c] \in Call
  BY <1>1, <1>2
<1> QED
  BY <1>3, TargetTable DEF Call

(* The table after the upsert: its rows are old ones, at most with another *)
(* effect, and the one that was saved; the indexes still hold.             *)
LEMMA SavedTable ==
  ASSUME IInv, NEW c \in Calls, calls[c].at = "save"
  PROVE  LET row == RowOf(calls[c])
             tt == calls[c].target.table
         IN  /\ Saved(row) \in SUBSET Rule
             /\ \A r \in Saved(row) :
                   \/ r.id = calls[c].id /\ r.target = calls[c].target
                   \/ \E q \in rules[tt] : q.id = r.id /\ q.target = r.target
             /\ \A r, s \in Saved(row) : r.id = s.id => r = s
             /\ \A r, s \in Saved(row) :
                   r.target = s.target /\ (tt = "mail" => r.effect = s.effect) => r = s
             /\ \E r \in Saved(row) : r.target = row.target /\ r.effect = row.effect
<1> DEFINE row == RowOf(calls[c])
           tt == calls[c].target.table
           T == rules[tt]
           same == {r \in T : SameRule(r, row)}
           S == Saved(row)
           up(r) == [r EXCEPT !.effect = row.effect]
<1>1. /\ row = [id |-> calls[c].id, target |-> calls[c].target, effect |-> calls[c].effect]
      /\ row \in Rule /\ tt \in Tables /\ InHand(c)
      /\ row.target.table = tt /\ row.id = calls[c].id /\ row.target = calls[c].target
  BY CallTyped DEF IInv, InHand, RowOf, Rule
<1>2. T \subseteq Rule /\ TableWhole(tt)
  BY <1>1 DEF IInv, TypeOK
<1>3. S = IF same = {} THEN T \cup {row} ELSE (T \ same) \cup {up(r) : r \in same}
  BY <1>1 DEF Saved
<1>4. \A r \in Rule : /\ up(r) \in Rule /\ up(r).id = r.id /\ up(r).target = r.target
                      /\ up(r).effect = row.effect
                      /\ r.effect = row.effect => up(r) = r
  BY <1>1 DEF Rule
<1>5. \A r \in T : r.target = row.target => r.target.table = tt
  BY <1>1
<1>6. CASE same = {}
  <2>1. S = T \cup {row}
    BY <1>3, <1>6
  <2>2. \A q \in T : q.id # row.id
    <3> SUFFICES ASSUME NEW q \in T, q.id = row.id
                 PROVE  FALSE
      OBVIOUS
    <3>1. q.target = row.target
      BY <1>1 DEF IInv, IdsKeepTargets
    <3>2. CASE tt = "mail"
      BY <1>1, <3>2 DEF IInv, IdsAreFresh
    <3>3. CASE tt # "mail"
      BY <1>1, <1>6, <3>1, <3>3 DEF SameRule
    <3> QED
      BY <3>2, <3>3
  <2>3. \A q \in T : ~SameRule(q, row)
    BY <1>6
  <2>4. \A q \in T : q.target = row.target => tt = "mail" /\ q.effect # row.effect
    BY <2>3, <1>1 DEF SameRule
  <2>5. row \in Rule /\ row.id = calls[c].id /\ row.target = calls[c].target
    BY <1>1
  <2>6. /\ S \in SUBSET Rule
        /\ \E r \in S : r.target = row.target /\ r.effect = row.effect
        /\ \A r \in S : \/ r.id = calls[c].id /\ r.target = calls[c].target
                       \/ \E q \in T : q.id = r.id /\ q.target = r.target
    BY <2>1, <2>5, <1>2
  <2>7. \A r, s \in S : r.id = s.id => r = s
    BY <2>1, <2>2, <1>2 DEF TableWhole
  <2>8. \A r, s \in S :
           r.target = s.target /\ (tt = "mail" => r.effect = s.effect) => r = s
    BY <2>1, <2>4, <1>2 DEF TableWhole
  <2> QED
    BY <2>6, <2>7, <2>8
<1>7. CASE same # {} /\ tt = "mail"
  <2>1. \A r \in same : r \in T /\ r.effect = row.effect /\ r.target = row.target
    BY <1>7, <1>1 DEF SameRule
  <2>2. \A r \in same : up(r) = r
    BY <2>1, <1>4, <1>2
  <2>3. S = T
    <3>1. S = (T \ same) \cup {up(r) : r \in same}
      BY <1>3, <1>7
    <3> HIDE DEF up, S
    <3>2. {up(r) : r \in same} = same
      BY <2>2
    <3> QED
      BY <3>1, <3>2
  <2> QED
    BY <2>1, <2>3, <1>1, <1>2, <1>7 DEF TableWhole
<1>8. CASE same # {} /\ tt # "mail"
  <2>1. PICK q \in T : same = {q} /\ q.target = row.target
    <3>1. \A r \in same : r \in T /\ r.target = row.target
      BY DEF SameRule
    <3>2. \A r, s \in same : r = s
      BY <3>1, <1>2, <1>8 DEF TableWhole
    <3> QED
      BY <3>1, <3>2, <1>8
  <2>2. S = (T \ {q}) \cup {up(q)}
    BY <1>3, <1>8, <2>1
  <2>3. up(q) \in Rule /\ up(q).id = q.id /\ up(q).target = q.target
        /\ up(q).effect = row.effect
    BY <1>2, <1>4
  <2> HIDE DEF up
  <2> QED
    BY <2>1, <2>2, <2>3, <1>1, <1>2, <1>8 DEF TableWhole
<1> QED
  BY <1>6, <1>7, <1>8

(* The second statement of any call keeps IInv, whatever its table becomes *)
(* of rows that were there and, when it saves, of the row in hand.         *)
LEMMA SettlesInv ==
  ASSUME IInv, NEW c \in Calls, InHand(c), NEW table, Settles(c, table),
         table \in SUBSET Rule,
         \A r \in table :
            \/ calls[c].at = "save" /\ r.id = calls[c].id /\ r.target = calls[c].target
            \/ \E q \in rules[calls[c].target.table] : q.id = r.id /\ q.target = r.target,
         \A r, s \in table : r.id = s.id => r = s,
         \A r, s \in table :
            r.target = s.target /\ (calls[c].target.table = "mail" => r.effect = s.effect) => r = s
  PROVE  IInv'
<1> DEFINE target == calls[c].target
           tt == target.table
<1>1. TypeOK /\ rules \in [Tables -> SUBSET Rule] /\ calls \in [Calls -> Call \cup {Idle, Over}]
  BY DEF IInv, TypeOK
<1>2. tt \in Tables /\ target \in Targets
  BY <1>1, CallTyped
<1>3. /\ rules' = [rules EXCEPT ![tt] = table]
      /\ calls' = [calls EXCEPT ![c] = Over]
      /\ raced' = (raced \cup {d \in Calls : InHand(d) /\ calls[d].target = target}) \ {c}
      /\ UNCHANGED <<kind, scopes, role, viewer, torn>>
      /\ NoteRights(rules')
  BY DEF Settles, InHand
<1>4. /\ \A t \in Tables : rules'[t] = IF t = tt THEN table ELSE rules[t]
      /\ \A d \in Calls : calls'[d] = IF d = c THEN Over ELSE calls[d]
  BY <1>1, <1>2, <1>3
<1>5. /\ \A d \in Calls : InHand(d)' => d # c /\ InHand(d) /\ calls'[d] = calls[d]
      /\ \A d \in Calls : calls'[d] = Idle => d # c /\ calls[d] = Idle
      /\ \A d \in Calls : calls'[d].at = "save" => d # c /\ calls'[d] = calls[d]
  BY <1>4 DEF InHand, Over, Idle
\* Where a row comes from.
<1>6. \A t \in Tables : \A r \in rules'[t] :
         \/ t = tt /\ calls[c].at = "save" /\ r.id = calls[c].id /\ r.target = target
         \/ \E q \in rules[t] : q.id = r.id /\ q.target = r.target
  BY <1>4
<1> HIDE DEF target, tt
<1>7. TypeOK'
  <2>1. rules' \in [Tables -> SUBSET Rule] /\ calls' \in [Calls -> Call \cup {Idle, Over}]
    BY <1>1, <1>2, <1>3
  <2>2. /\ sometime' \in [Tables -> SUBSET UNION {AllRights(t) : t \in Tables}]
        /\ always' \in [Tables -> SUBSET UNION {AllRights(t) : t \in Tables}]
    <3> DEFINE U == UNION {AllRights(t) : t \in Tables}
    <3>1. /\ sometime \in [Tables -> SUBSET U] /\ always \in [Tables -> SUBSET U]
          /\ \A t \in Tables : RightsOf(t, role, rules'[t]) \in SUBSET U
      BY <1>1, RightsTyped DEF TypeOK
    <3> HIDE DEF U
    <3>2. /\ sometime' \in [Tables -> SUBSET U] /\ always' \in [Tables -> SUBSET U]
      BY <1>3, <3>1 DEF NoteRights
    <3> QED
      BY <3>2 DEF U
  <2> QED
    BY <2>1, <2>2, <1>1, <1>3 DEF TypeOK
<1>8. \A t \in Tables : TableWhole(t)'
  <2> SUFFICES ASSUME NEW t \in Tables
               PROVE  TableWhole(t)'
    OBVIOUS
  <2>1. TableWhole(t)
    BY DEF IInv
  <2>2. CASE t # tt
    BY <2>1, <2>2, <1>4 DEF TableWhole
  <2>3. CASE t = tt
    <3>1. \A r \in rules'[t] : r.target.table = t
      BY <2>1, <2>3, <1>6 DEF TableWhole, tt
    <3> QED
      BY <3>1, <2>3, <1>4 DEF TableWhole, tt, target
  <2> QED
    BY <2>2, <2>3
<1>9. IdsKeepTargets'
  <2>1. IdsKeepTargets
    BY DEF IInv
  <2>2. \A t, u \in Tables : \A r \in rules'[t], s \in rules'[u] :
           r.id = s.id => r.target = s.target
    BY <2>1, <1>6 DEF IdsKeepTargets, target
  <2>3. \A d \in Calls : InHand(d)' => \A t \in Tables : \A r \in rules'[t] :
           r.id = calls'[d].id => r.target = calls'[d].target
    BY <2>1, <1>5, <1>6 DEF IdsKeepTargets, target
  <2>4. \A d, e \in Calls : InHand(d)' /\ InHand(e)' /\ calls'[d].id = calls'[e].id =>
           calls'[d].target = calls'[e].target
    BY <2>1, <1>5 DEF IdsKeepTargets
  <2> QED
    BY <2>2, <2>3, <2>4 DEF IdsKeepTargets
<1>10. IdsAreFresh'
  <2>1. IdsAreFresh /\ IdsKeepTargets
    BY DEF IInv
  <2>2. ASSUME NEW d \in Calls, calls'[d] = Idle
        PROVE  /\ \A t \in Tables : \A r \in rules'[t] : r.id # d
               /\ \A e \in Calls : InHand(e)' => calls'[e].id # d
    BY <2>1, <2>2, <1>5, <1>6 DEF IdsAreFresh
  <2>3. ASSUME NEW d \in Calls, calls'[d].at = "save", calls'[d].target.table = "mail"
        PROVE  calls'[d].id = d /\ \A t \in Tables : \A r \in rules'[t] : r.id # d
    <3>1. d # c /\ calls'[d] = calls[d] /\ calls[d].id = d /\ InHand(d)
      BY <2>1, <2>3, <1>5 DEF IdsAreFresh, InHand
    <3>2. calls[c].at = "save" => calls[c].id # d
      <4> SUFFICES ASSUME calls[c].at = "save", calls[c].id = d
                   PROVE  FALSE
        OBVIOUS
      <4>1. calls[c].target = calls[d].target
        BY <3>1, <2>1 DEF IdsKeepTargets
      <4>2. calls[c].id = c
        BY <4>1, <3>1, <2>1, <2>3 DEF IdsAreFresh
      <4> QED
        BY <4>2, <3>1
    <3> QED
      BY <3>1, <3>2, <2>1, <2>3, <1>6 DEF IdsAreFresh
  <2> QED
    BY <2>2, <2>3 DEF IdsAreFresh
<1>11. UnracedIdStored'
  <2> SUFFICES ASSUME NEW d \in Calls, calls'[d].at = "save", calls'[d].target.table # "mail",
                      d \notin raced', NEW r \in rules'[calls'[d].target.table],
                      r.target = calls'[d].target
               PROVE  r.id = calls'[d].id
    BY DEF UnracedIdStored
  <2>1. d # c /\ calls'[d] = calls[d] /\ InHand(d)
    BY <1>5 DEF InHand
  <2>2. d \notin raced /\ calls[d].target # target
    BY <2>1, <1>3
  <2>3. calls[d].target.table \in Tables
    BY <2>1, <1>1, CallTyped
  <2>4. PICK q \in rules[calls[d].target.table] : q.id = r.id /\ q.target = r.target
    BY <2>1, <2>2, <2>3, <1>6
  <2> QED
    BY <2>1, <2>2, <2>4 DEF IInv, UnracedIdStored
<1>12. RequestOnTime'
  <2>1. RequestOnTime
    BY DEF IInv
  <2>2. CASE viewer.at = "loading" /\ ~torn
    <3>1. \A t \in Tables : /\ sometime'[t] = sometime[t] \cup RightsOf(t, role, rules'[t])
                            /\ always'[t] = always[t] \cap RightsOf(t, role, rules'[t])
      BY <2>2, <1>3 DEF NoteRights
    <3> QED
      BY <3>1, <2>1, <2>2, <1>3 DEF RequestOnTime
  <2>3. CASE ~(viewer.at = "loading" /\ ~torn)
    <3>1. UNCHANGED <<sometime, always>>
      BY <2>3, <1>3 DEF NoteRights
    <3> QED
      BY <3>1, <2>1, <2>3, <1>3 DEF RequestOnTime
  <2> QED
    BY <2>2, <2>3
<1>13. ReadWhole'
  BY <1>3 DEF IInv, ReadWhole
<1> QED
  BY <1>7, <1>8, <1>9, <1>10, <1>11, <1>12, <1>13 DEF IInv

(* A call that finds: it takes an id in hand that is a stored rule's of    *)
(* its target, or its own.                                                 *)
LEMMA FindsInv ==
  ASSUME IInv, NEW c \in Calls, calls[c] = Idle, NEW call \in Call,
         calls' = [calls EXCEPT ![c] = call],
         UNCHANGED <<kind, scopes, role, rules, viewer, history>>,
         \/ call.at = "save" /\ call.id = c /\ Existing(call.target) = {}
         \/ \E t \in Tables : \E r \in rules[t] : r.id = call.id /\ r.target = call.target,
         call.at = "save" /\ call.target.table = "mail" => call.id = c,
         call.at = "save" /\ call.target.table # "mail" =>
            \A r \in Existing(call.target) : r.id = call.id
  PROVE  IInv'
<1>1. /\ calls \in [Calls -> Call \cup {Idle, Over}] /\ TypeOK
      /\ call.at \in {"save", "delete"}
  BY DEF IInv, TypeOK, Call
<1>2. \A d \in Calls : calls'[d] = IF d = c THEN call ELSE calls[d]
  BY <1>1
<1>3. rules' = rules /\ raced' = raced
  BY DEF history
<1>4. IdsAreFresh /\ IdsKeepTargets /\ ~InHand(c)
  BY DEF IInv, InHand, Idle
<1>5. /\ \A t \in Tables : \A r \in rules[t] : r.id # c
      /\ \A d \in Calls : InHand(d) => calls[d].id # c
  BY <1>4 DEF IdsAreFresh
<1>6. \A d \in Calls : d # c => (InHand(d)' <=> InHand(d)) /\ calls'[d] = calls[d]
  BY <1>2 DEF InHand
\* The id in hand is the call's own, or a stored rule's of the same target.
<1>7. \/ call.id = c
      \/ \E t \in Tables : \E r \in rules[t] : r.id = call.id /\ r.target = call.target
  OBVIOUS
<1>8. TypeOK'
  BY <1>1 DEF TypeOK, history
<1>9. \A t \in Tables : TableWhole(t)'
  BY <1>3 DEF IInv, TableWhole
<1>10. IdsKeepTargets'
  <2>1. \A t \in Tables : \A r \in rules[t] : r.id = call.id => r.target = call.target
    BY <1>4, <1>5, <1>7 DEF IdsKeepTargets
  <2>2. \A d \in Calls : InHand(d) /\ calls[d].id = call.id => calls[d].target = call.target
    BY <1>4, <1>5, <1>7 DEF IdsKeepTargets
  <2>3. \A d \in Calls : InHand(d)' => \A t \in Tables : \A r \in rules'[t] :
           r.id = calls'[d].id => r.target = calls'[d].target
    BY <2>1, <1>2, <1>3, <1>4, <1>6 DEF IdsKeepTargets
  <2>4. \A d, e \in Calls : InHand(d)' /\ InHand(e)' /\ calls'[d].id = calls'[e].id =>
           calls'[d].target = calls'[e].target
    BY <2>2, <1>2, <1>4, <1>6 DEF IdsKeepTargets
  <2> QED
    BY <2>3, <2>4, <1>3, <1>4 DEF IdsKeepTargets
<1>11. IdsAreFresh'
  <2>1. ASSUME NEW d \in Calls, calls'[d] = Idle
        PROVE  /\ \A t \in Tables : \A r \in rules'[t] : r.id # d
               /\ \A e \in Calls : InHand(e)' => calls'[e].id # d
    <3>1. d # c /\ calls[d] = Idle
      BY <2>1, <1>1, <1>2 DEF Idle
    <3>2. call.id # d
      BY <3>1, <1>4, <1>7 DEF IdsAreFresh
    <3> QED
      BY <3>1, <3>2, <1>2, <1>3, <1>4, <1>6 DEF IdsAreFresh
  <2>2. ASSUME NEW d \in Calls, calls'[d].at = "save", calls'[d].target.table = "mail"
        PROVE  calls'[d].id = d /\ \A t \in Tables : \A r \in rules'[t] : r.id # d
    BY <2>2, <1>2, <1>3, <1>4, <1>5 DEF IdsAreFresh
  <2> QED
    BY <2>1, <2>2 DEF IdsAreFresh
<1>12. UnracedIdStored'
  <2> SUFFICES ASSUME NEW d \in Calls, calls'[d].at = "save", calls'[d].target.table # "mail",
                      d \notin raced, NEW r \in rules[calls'[d].target.table],
                      r.target = calls'[d].target
               PROVE  r.id = calls'[d].id
    BY <1>3 DEF UnracedIdStored
  <2>1. CASE d = c
    BY <2>1, <1>2 DEF Existing
  <2>2. CASE d # c
    BY <2>2, <1>2 DEF IInv, UnracedIdStored
  <2> QED
    BY <2>1, <2>2
<1>13. RequestOnTime'
  BY DEF IInv, RequestOnTime, history
<1>14. ReadWhole'
  BY DEF IInv, ReadWhole
<1> QED
  BY <1>8, <1>9, <1>10, <1>11, <1>12, <1>13, <1>14 DEF IInv

LEMMA FindForAddInv ==
  ASSUME IInv, NEW c \in Calls, NEW target \in Targets, NEW effect \in Effects,
         FindForAdd(c, target, effect)
  PROVE  IInv'
<1> DEFINE there == {r.id : r \in Existing(target)}
<1>1. PICK id \in IF there = {} THEN {c} ELSE there :
         calls' = [calls EXCEPT ![c] = [at |-> "save", id |-> id,
                                        target |-> target, effect |-> effect]]
  BY DEF FindForAdd
<1>2. target.table \in Tables /\ rules[target.table] \subseteq Rule
  BY TargetTable DEF IInv, TypeOK
<1>3. there = {} => id = c /\ Existing(target) = {}
  BY <1>1
<1>4. there # {} => /\ target.table # "mail"
                    /\ \E r \in rules[target.table] : r.id = id /\ r.target = target
  BY <1>1 DEF Existing
<1>5. id \in Ids
  BY <1>2, <1>3, <1>4 DEF Rule, Ids
<1>6. \A r \in Existing(target) : r.id = id
  <2> SUFFICES ASSUME NEW r \in Existing(target)
               PROVE  r.id = id
    OBVIOUS
  <2>1. there # {}
    OBVIOUS
  <2>2. PICK q \in rules[target.table] : q.id = id /\ q.target = target
    BY <2>1, <1>4
  <2>3. r \in rules[target.table] /\ r.target = target /\ target.table # "mail"
    BY DEF Existing
  <2>4. TableWhole(target.table)
    BY <1>2 DEF IInv
  <2> QED
    BY <2>2, <2>3, <2>4 DEF TableWhole
<1> DEFINE call == [at |-> "save", id |-> id, target |-> target, effect |-> effect]
<1>7. call \in Call /\ call.at = "save" /\ call.id = id /\ call.target = target
  BY <1>5 DEF Call
<1>8. calls[c] = Idle /\ UNCHANGED <<kind, scopes, role, rules, viewer, history>>
  BY DEF FindForAdd
<1>9. calls' = [calls EXCEPT ![c] = call]
  BY <1>1
<1> HIDE DEF call, there
<1> QED
  BY <1>2, <1>3, <1>4, <1>6, <1>7, <1>8, <1>9, FindsInv

LEMMA FindForRemoveInv ==
  ASSUME IInv, NEW c \in Calls, FindForRemove(c)
  PROVE  IInv'
<1>1. PICK t \in Tables : \E r \in rules[t] :
         calls' = [calls EXCEPT ![c] = [at |-> "delete", id |-> r.id,
                                        target |-> r.target, effect |-> r.effect]]
  BY DEF FindForRemove
<1>2. PICK r \in rules[t] :
         calls' = [calls EXCEPT ![c] = [at |-> "delete", id |-> r.id,
                                        target |-> r.target, effect |-> r.effect]]
  BY <1>1
<1> DEFINE call == [at |-> "delete", id |-> r.id, target |-> r.target, effect |-> r.effect]
<1>3. r \in Rule
  BY DEF IInv, TypeOK
<1>4. call \in Call /\ call.at = "delete" /\ call.id = r.id /\ call.target = r.target
  BY <1>3 DEF Call, Rule
<1>5. calls[c] = Idle /\ UNCHANGED <<kind, scopes, role, rules, viewer, history>>
  BY DEF FindForRemove
<1>6. calls' = [calls EXCEPT ![c] = call]
  BY <1>2
<1> HIDE DEF call
<1> QED
  BY <1>4, <1>5, <1>6, FindsInv

LEMMA SaveInv ==
  ASSUME IInv, NEW c \in Calls, Save(c)
  PROVE  IInv'
<1>1. calls[c].at = "save" /\ InHand(c) /\ Settles(c, Saved(RowOf(calls[c])))
  BY DEF Save, InHand
<1> QED
  BY <1>1, SavedTable, SettlesInv

LEMMA DeleteInv ==
  ASSUME IInv, NEW c \in Calls, Delete(c)
  PROVE  IInv'
<1> DEFINE table == {r \in rules[calls[c].target.table] : r.id # calls[c].id}
<1>1. InHand(c) /\ Settles(c, table)
  BY DEF Delete, InHand
<1>2. calls[c].target.table \in Tables
  BY <1>1, CallTyped DEF IInv
<1>3. rules[calls[c].target.table] \subseteq Rule /\ TableWhole(calls[c].target.table)
  BY <1>2 DEF IInv, TypeOK
<1>4. /\ table \in SUBSET Rule
      /\ \A r \in table : \E q \in rules[calls[c].target.table] :
            q.id = r.id /\ q.target = r.target
      /\ \A r, s \in table : r.id = s.id => r = s
      /\ \A r, s \in table :
            r.target = s.target /\ (calls[c].target.table = "mail" => r.effect = s.effect)
               => r = s
  BY <1>3 DEF TableWhole
<1> HIDE DEF table
<1> QED
  BY <1>1, <1>4, SettlesInv

(* Steps that touch neither the tables nor the calls.                      *)
LEMMA RequestsInv ==
  ASSUME IInv, UNCHANGED <<rules, calls, raced>>, TypeOK', ReadWhole', RequestOnTime'
  PROVE  IInv'
<1>1. \A t \in Tables : TableWhole(t)'
  BY DEF IInv, TableWhole
<1>2. IdsKeepTargets'
  BY DEF IInv, IdsKeepTargets, InHand
<1>3. IdsAreFresh'
  BY DEF IInv, IdsAreFresh, InHand
<1>4. UnracedIdStored'
  BY DEF IInv, UnracedIdStored
<1> QED
  BY <1>1, <1>2, <1>3, <1>4 DEF IInv

LEMMA SetRoleInv ==
  ASSUME IInv, NEW as \in Roles, SetRole(as)
  PROVE  IInv'
<1>1. UNCHANGED <<rules, calls, raced>>
  BY DEF SetRole
<1>2. TypeOK'
  BY DEF IInv, SetRole, TypeOK, NoRights
<1>3. RequestOnTime'
  BY DEF IInv, SetRole, RequestOnTime
<1>4. ReadWhole'
  BY DEF IInv, SetRole, ReadWhole
<1> QED
  BY <1>4, <1>1, <1>2, <1>3, RequestsInv

LEMMA BeginInv ==
  ASSUME IInv, Begin
  PROVE  IInv'
<1>1. UNCHANGED <<rules, calls, raced>>
  BY DEF Begin
<1>2. TypeOK /\ \A t \in Tables : RightsOf(t, role, rules[t])
                                     \in SUBSET UNION {AllRights(u) : u \in Tables}
  BY RightsTyped DEF IInv
<1>3. /\ sometime' = [t \in Tables |-> RightsOf(t, role, rules[t])]
      /\ always' = [t \in Tables |-> RightsOf(t, role, rules[t])]
      /\ viewer' = [at |-> "loading", role |-> role, unread |-> Tables, rules |-> NoRules]
      /\ torn' = FALSE /\ UNCHANGED <<kind, scopes, role, rules, calls, raced>>
  BY DEF Begin, Rights
<1>4. TypeOK'
  <2>1. NoRules \in [Tables -> SUBSET Rule]
    BY DEF NoRules
  <2>2. viewer' \in [at : {"loading", "ready"}, role : Roles, unread : SUBSET Tables,
                     rules : [Tables -> SUBSET Rule]]
    BY <2>1, <1>2, <1>3 DEF TypeOK
  <2> DEFINE U == UNION {AllRights(u) : u \in Tables}
  <2>3. sometime' \in [Tables -> SUBSET U] /\ always' \in [Tables -> SUBSET U]
    <3>1. \A t \in Tables : RightsOf(t, role, rules[t]) \in SUBSET U
      BY <1>2
    <3> HIDE DEF U
    <3> QED
      BY <3>1, <1>3
  <2> HIDE DEF U
  <2>4. kind' \in {"USER", "API_KEY"} /\ scopes' \subseteq Scopes /\ role' \in Roles
        /\ rules' \in [Tables -> SUBSET Rule]
        /\ calls' \in [Calls -> Call \cup {Idle, Over}]
        /\ raced' \subseteq Calls /\ torn' \in BOOLEAN
    BY <1>2, <1>3 DEF TypeOK
  <2> QED
    BY <2>2, <2>3, <2>4 DEF TypeOK, U
<1>5. RequestOnTime'
  <2>1. \A t \in Tables : sometime'[t] = RightsOf(t, role', rules'[t])
                          /\ always'[t] = RightsOf(t, role', rules'[t])
    BY <1>3
  <2>2. viewer'.at = "loading" /\ viewer'.unread = Tables /\ viewer'.role = role'
    BY <1>3
  <2> QED
    BY <2>1, <2>2 DEF RequestOnTime
<1>6. ReadWhole'
  BY <1>3 DEF ReadWhole, NoRules
<1> QED
  BY <1>6, <1>1, <1>4, <1>5, RequestsInv

LEMMA LoadInv ==
  ASSUME IInv, NEW t \in Tables, Load(t)
  PROVE  IInv'
<1>1. UNCHANGED <<kind, scopes, role, rules, calls, raced, sometime, always, torn>>
  BY DEF Load, history
<1>2. /\ viewer \in [at : {"loading", "ready"}, role : Roles, unread : SUBSET Tables,
                     rules : [Tables -> SUBSET Rule]]
      /\ rules \in [Tables -> SUBSET Rule]
  BY DEF IInv, TypeOK, Load, NoViewer
<1>3. /\ viewer.at = "loading" /\ t \in viewer.unread
      /\ viewer' = [at |-> IF viewer.unread = {t} THEN "ready" ELSE "loading",
                    role |-> viewer.role, unread |-> viewer.unread \ {t},
                    rules |-> [viewer.rules EXCEPT ![t] = rules[t]]]
  BY <1>2 DEF Load, TableRead
<1>4. TypeOK'
  <2>1. viewer' \in [at : {"loading", "ready"}, role : Roles, unread : SUBSET Tables,
                     rules : [Tables -> SUBSET Rule]]
    BY <1>2, <1>3
  <2> QED
    BY <2>1, <1>1 DEF IInv, TypeOK
<1>5. RequestOnTime'
  <2> SUFFICES ASSUME ~torn
               PROVE  RequestOnTime'
    BY <1>1 DEF RequestOnTime
  <2>1. /\ \A u \in Tables : LET held == RightsOf(u, role, rules[u])
                             IN  always[u] \subseteq held /\ held \subseteq sometime[u]
        /\ viewer.role = role
        /\ \A u \in Tables \ viewer.unread :
              LET given == RightsOf(u, viewer.role, viewer.rules[u])
              IN  always[u] \subseteq given /\ given \subseteq sometime[u]
    BY <1>3 DEF IInv, RequestOnTime
  <2>2. \A u \in Tables : viewer'.rules[u] = IF u = t THEN rules[t] ELSE viewer.rules[u]
    BY <1>2, <1>3
  <2>3. viewer'.role = role' /\ viewer'.unread = viewer.unread \ {t}
        /\ (viewer'.at = "ready" => viewer'.unread = {})
    BY <1>1, <1>3, <2>1
  <2>4. \A u \in Tables \ viewer'.unread :
           LET given == RightsOf(u, viewer'.role, viewer'.rules[u])
           IN  always'[u] \subseteq given /\ given \subseteq sometime'[u]
    BY <2>1, <2>2, <2>3, <1>1
  <2>5. \A u \in Tables : LET held == RightsOf(u, role', rules'[u])
                          IN  always'[u] \subseteq held /\ held \subseteq sometime'[u]
    BY <2>1, <1>1
  <2> QED
    BY <2>3, <2>4, <2>5 DEF RequestOnTime
<1>6. ReadWhole'
  <2>1. \A u \in Tables : viewer'.rules[u] = IF u = t THEN rules[t] ELSE viewer.rules[u]
    BY <1>2, <1>3
  <2>2. viewer.at # "idle" /\ TableWhole(t)
    BY <1>3 DEF IInv
  <2> QED
    BY <2>1, <2>2 DEF IInv, ReadWhole, TableWhole
<1> QED
  BY <1>6, <1>1, <1>4, <1>5, RequestsInv

LEMMA FinishInv ==
  ASSUME IInv, Finish
  PROVE  IInv'
<1>1. UNCHANGED <<rules, calls, raced>>
  BY DEF Finish
<1>2. TypeOK'
  BY DEF IInv, Finish, TypeOK, NoRights
<1>3. RequestOnTime'
  BY DEF Finish, RequestOnTime, NoViewer
<1>4. ReadWhole'
  BY DEF Finish, ReadWhole, NoViewer
<1> QED
  BY <1>4, <1>1, <1>2, <1>3, RequestsInv

LEMMA InitInv == Init => IInv
<1> SUFFICES ASSUME Init
             PROVE  IInv
  OBVIOUS
<1> DEFINE First == [id : {Seed}, target : Targets, effect : Effects]
<1>1. /\ calls = [c \in Calls |-> Idle] /\ viewer = NoViewer /\ raced = {}
      /\ rules = NoRules \/ \E x \in First : rules = [NoRules EXCEPT ![x.target.table] = {x}]
  BY DEF Init
\* At most one rule, and that of Seed.
<1>2. /\ rules \in [Tables -> SUBSET Rule]
      /\ \A t \in Tables : \A r \in rules[t] : r.id = Seed /\ r.target.table = t
      /\ \A t, u \in Tables : \A r \in rules[t], s \in rules[u] : r = s
  <2>1. CASE rules = NoRules
    BY <2>1 DEF NoRules
  <2>2. CASE \E x \in First : rules = [NoRules EXCEPT ![x.target.table] = {x}]
    <3>1. PICK x \in First : rules = [NoRules EXCEPT ![x.target.table] = {x}]
      BY <2>2
    <3>2. x \in Rule /\ x.id = Seed /\ x.target.table \in Tables
      BY TargetTable DEF Rule, Ids
    <3>3. \A t \in Tables : rules[t] = IF t = x.target.table THEN {x} ELSE {}
      BY <3>1, <3>2 DEF NoRules
    <3>4. rules \in [Tables -> SUBSET Rule]
      BY <3>1, <3>2 DEF NoRules
    <3> QED
      BY <3>2, <3>3, <3>4
  <2> QED
    BY <1>1, <2>1, <2>2
<1>3. \A c \in Calls : calls[c] = Idle /\ ~InHand(c) /\ calls[c].at # "save"
  BY <1>1 DEF InHand, Idle
<1>4. TypeOK
  BY <1>1, <1>2 DEF Init, TypeOK, NoRights
<1>5. \A t \in Tables : TableWhole(t)
  BY <1>2 DEF TableWhole
<1>6. IdsKeepTargets /\ IdsAreFresh /\ UnracedIdStored
  BY <1>2, <1>3 DEF IdsKeepTargets, IdsAreFresh, UnracedIdStored
<1>7. ReadWhole /\ RequestOnTime
  BY <1>1 DEF ReadWhole, RequestOnTime, NoViewer
<1> QED
  BY <1>4, <1>5, <1>6, <1>7 DEF IInv

LEMMA NextInv == IInv /\ [Next]_vars => IInv'
<1> SUFFICES ASSUME IInv, [Next]_vars
             PROVE  IInv'
  OBVIOUS
<1>1. ASSUME NEW c \in Calls, NEW target \in Targets, NEW effect \in Effects,
             FindForAdd(c, target, effect)
      PROVE  IInv'
  BY <1>1, FindForAddInv
<1>2. ASSUME NEW c \in Calls, FindForRemove(c)
      PROVE  IInv'
  BY <1>2, FindForRemoveInv
<1>3. ASSUME NEW c \in Calls, Save(c)
      PROVE  IInv'
  BY <1>3, SaveInv
<1>4. ASSUME NEW c \in Calls, Delete(c)
      PROVE  IInv'
  BY <1>4, DeleteInv
<1>5. ASSUME NEW as \in Roles, SetRole(as)
      PROVE  IInv'
  BY <1>5, SetRoleInv
<1>6. CASE Begin
  BY <1>6, BeginInv
<1>7. ASSUME NEW t \in Tables, Load(t)
      PROVE  IInv'
  BY <1>7, LoadInv
<1>8. CASE Finish
  BY <1>8, FinishInv
<1>9. CASE UNCHANGED vars
  <2>1. UNCHANGED <<rules, calls, raced>> /\ TypeOK' /\ ReadWhole' /\ RequestOnTime'
    BY <1>9 DEF vars, history, IInv, TypeOK, ReadWhole, RequestOnTime
  <2> QED
    BY <2>1, RequestsInv
<1> QED
  BY <1>1, <1>2, <1>3, <1>4, <1>5, <1>6, <1>7, <1>8, <1>9 DEF Next

(* Types, the unique indexes, ids that keep their targets, and requests    *)
(* that are on time, whatever overlaps (the ON CONFLICT clauses of the     *)
(* permission repositories; auth.ts).                                      *)
THEOREM Invariant == Spec => []IInv
<1> QED
  BY InitInv, NextInv, PTL DEF Spec

(* A request is given what the user held all the while, and nothing the    *)
(* user never held, however calls interleave with its four statements.     *)
THEOREM Timely == Spec => []ViewerTimely
<1>1. IInv => ViewerTimely
  BY DEF IInv, RequestOnTime, ViewerTimely, TypeOK, NoViewer
<1> QED
  BY <1>1, Invariant, PTL

(* An unraced call is answered with the row that is stored.                *)
THEOREM Answers == Spec => AnswersTrue
<1>1. ASSUME IInv, [Next]_vars, NEW c \in Calls, calls[c].at = "save", calls'[c] = Over,
             calls[c].target.table # "mail", c \notin raced
      PROVE  RowOf(calls[c]) \in rules'[calls[c].target.table]
  <2> DEFINE row == RowOf(calls[c])
             T == rules[calls[c].target.table]
  <2>1. InHand(c) /\ calls \in [Calls -> Call \cup {Idle, Over}] /\ calls[c] # Over
    BY <1>1 DEF InHand, IInv, TypeOK, Over
  <2>2. Save(c)
    <3>1. ASSUME NEW d \in Calls, NEW v, d # c, calls' = [calls EXCEPT ![d] = v]
          PROVE  FALSE
      BY <3>1, <2>1, <1>1
    <3>2. ~(\E target \in Targets, effect \in Effects : FindForAdd(c, target, effect))
          /\ ~FindForRemove(c) /\ ~Delete(c)
      BY <1>1 DEF FindForAdd, FindForRemove, Delete, Idle
    <3>3. \A d \in Calls : /\ \A target \in Targets, effect \in Effects :
                                 FindForAdd(d, target, effect) => \E v : calls' = [calls EXCEPT ![d] = v]
                           /\ FindForRemove(d) => \E v : calls' = [calls EXCEPT ![d] = v]
                           /\ Save(d) \/ Delete(d) => \E v : calls' = [calls EXCEPT ![d] = v]
      BY DEF FindForAdd, FindForRemove, Save, Delete, Settles
    <3>4. calls' # calls
      BY <1>1, <2>1
    <3>5. \E d \in Calls : \/ \E target \in Targets, effect \in Effects :
                                 FindForAdd(d, target, effect)
                           \/ FindForRemove(d) \/ Save(d) \/ Delete(d)
      BY <1>1, <3>4 DEF Next, vars, SetRole, Begin, Load, Finish
    <3> QED
      BY <3>1, <3>2, <3>3, <3>5
  <2>3. calls[c].target.table \in Tables /\ T \subseteq Rule
    BY <1>1, <2>1, CallTyped DEF IInv, TypeOK
  <2>4. rules'[calls[c].target.table] = Saved(row)
    BY <1>1, <2>2, <2>3 DEF Save, Settles, IInv, TypeOK
  <2>5. row.id = calls[c].id /\ row.target = calls[c].target
        /\ row = [id |-> row.id, target |-> row.target, effect |-> row.effect]
    BY DEF RowOf
  <2>6. \A r \in T : SameRule(r, row) => r.id = row.id /\ r.target = row.target
    BY <1>1, <2>5 DEF IInv, UnracedIdStored, SameRule
  <2>7. \A r \in T : SameRule(r, row) => [r EXCEPT !.effect = row.effect] = row
    BY <2>3, <2>5, <2>6 DEF Rule
  <2> HIDE DEF row
  <2>8. row \in Saved(row)
    <3> DEFINE same == {r \in T : SameRule(r, row)}
    <3>1. CASE same = {}
      BY <3>1, <2>5 DEF Saved
    <3>2. CASE same # {}
      <4>1. PICK r \in T : SameRule(r, row)
        BY <3>2
      <4> QED
        BY <4>1, <2>5, <2>7, <3>2 DEF Saved
    <3> QED
      BY <3>1, <3>2
  <2> QED
    BY <2>4, <2>8 DEF row
<1>2. IInv /\ [Next]_vars =>
         [\A c \in Calls :
             calls[c].at = "save" /\ calls'[c] = Over
                /\ calls[c].target.table # "mail" /\ c \notin raced =>
             RowOf(calls[c]) \in rules'[calls[c].target.table]]_vars
  BY <1>1
<1> QED
  BY <1>2, Invariant, PTL DEF Spec, AnswersTrue

-----------------------------------------------------------------------------
(* Listings and single decisions.                                          *)

(* A pattern's SQL condition holds of a mail when the pattern covers one   *)
(* of its addresses: "*" needs no condition, since a mail has an address.  *)
LEMMA PatternSound ==
  ASSUME NEW m \in Mails, NEW p \in Patterns
  PROVE  PatternCondition(p, m) <=> \E a \in m.addresses : a \in Covers[p]
<1>1. m.addresses \subseteq Addresses /\ m.addresses # {}
  OBVIOUS
<1> QED
  BY <1>1 DEF PatternCondition

(* The same for a rule's own pairing of a domain with a pattern.           *)
LEMMA RuleSound ==
  ASSUME NEW m \in Mails, NEW x, x.pattern \in Patterns
  PROVE  RuleCondition(x, m) <=> \E a \in m.addresses : Matches(x, m.domain, a)
BY PatternSound DEF RuleCondition, Matches

(* The rules of a request about mail are well formed.                      *)
LEMMA MailRulesTyped ==
  ASSUME NEW its \in SUBSET Rule, \A r \in its : r.target.table = "mail"
  PROVE  \A r \in its : r.target.pattern \in Patterns
BY DEF Rule, MailTarget, CalendarTarget, TemplateTarget

(* The SQL filter of a user's rules, in words of single addresses.         *)
LEMMA FilterSound ==
  ASSUME NEW its \in SUBSET Rule, \A r \in its : r.target.table = "mail",
         NEW m \in Mails, NEW as
  PROVE  FilterCondition(as, its, m) <=>
            /\ as = "ADMIN" \/ \E a \in m.addresses : Applies(its, "ALLOW", m.domain, a)
            /\ \A a \in m.addresses : ~Applies(its, "DENY", m.domain, a)
<1>1. \A r \in its : RuleCondition(r.target, m) <=>
                        \E a \in m.addresses : Matches(r.target, m.domain, a)
  BY MailRulesTyped, RuleSound
<1> QED
  BY <1>1 DEF FilterCondition, Applies

LEMMA UserListings ==
  ASSUME NEW its \in SUBSET Rule, \A r \in its : r.target.table = "mail",
         NEW m \in Mails, NEW as \in Roles
  PROVE  UserListsMail(as, its, m) <=>
            /\ UserMayMail(as, its, "MAIL_READ", m)
            /\ ~\E a \in m.addresses : Applies(its, "DENY", m.domain, a)
<1>1. MailRules(as, its, "MAIL_READ") = its
  BY DEF MailRules
<1>2. \E a : a \in m.addresses
  OBVIOUS
<1> QED
  BY <1>1, <1>2, FilterSound DEF UserListsMail, UserMayMail, AddressAllowed

LEMMA KeyListings ==
  ASSUME NEW held \in SUBSET Scopes, NEW capability, NEW m \in Mails,
         KeyMayMail(held, capability, m)
  PROVE  m.domain \in ScopedDomains(held, capability) /\ AllowedCondition(held, capability, m)
<1>1. PICK s \in held : s.capability = capability
                        /\ \E a \in m.addresses : Matches(s, m.domain, a)
  BY DEF KeyMayMail
<1>2. s \in {x \in held : x.capability = capability} /\ s.pattern \in Patterns
  BY <1>1 DEF MailScope, PermissionsAssumption
<1>3. PatternCondition(s.pattern, m)
  BY <1>1, <1>2, PatternSound DEF Matches
<1>4. AllowedCondition(held, capability, m)
  BY <1>2, <1>3 DEF AllowedCondition
<1>5. m.domain \in Domains /\ s.domain \in {Null, m.domain}
  BY <1>1 DEF Matches
<1> QED
  BY <1>2, <1>4, <1>5 DEF ScopedDomains

(* Whatever the rules, scopes and patterns, a user is listed nothing it may *)
(* not open, and a key everything it may.                                  *)
THEOREM Listings == Spec => []ListsKeepToRights
<1>1. IInv => UserListsOpenable
  <2> SUFFICES ASSUME IInv, kind = "USER", viewer.at = "ready"
               PROVE  UserListsOpenable
    BY DEF UserListsOpenable
  <2> DEFINE mine == viewer.rules["mail"]
  <2>1. viewer.role \in Roles /\ mine \in SUBSET Rule /\ \A r \in mine : r.target.table = "mail"
    BY DEF IInv, TypeOK, ReadWhole, NoViewer, Tables
  <2> HIDE DEF mine
  <2>2. \A m \in Mails : UserListsMail(viewer.role, mine, m) <=>
           /\ UserMayMail(viewer.role, mine, "MAIL_READ", m)
           /\ ~\E a \in m.addresses : Applies(mine, "DENY", m.domain, a)
    BY <2>1, UserListings
  <2>3. \A b \in Books : UserMayMail(viewer.role, mine, "MAIL_READ", b) =>
           ~\E a \in b.addresses : Applies(mine, "DENY", b.domain, a)
    BY <2>1 DEF Books, UserMayMail, AddressAllowed, MailRules
  <2>4. \A b \in Books : UserMayMail(viewer.role, mine, "MAIL_READ", b)
                            => UserListsMail(viewer.role, mine, b)
    BY <2>2, <2>3 DEF Books
  <2>5. \A o \in Owners : ListsCalendar(viewer.role, viewer.rules["calendar"], o)
           => MayCalendar(viewer.role, viewer.rules["calendar"], "READ", o)
    BY DEF ListsCalendar
  <2> QED
    BY <2>2, <2>4, <2>5 DEF UserListsOpenable, mine
<1>2. IInv => KeyOpenableListed
  <2> SUFFICES ASSUME IInv
               PROVE  KeyOpenableListed
    OBVIOUS
  <2>1. scopes \in SUBSET Scopes /\ Books \subseteq Mails
    BY DEF IInv, TypeOK, Books
  <2>2. \A m \in Mails : KeyMayMail(scopes, "MAIL_READ", m) => KeyListsMail(scopes, m)
    BY <2>1, KeyListings DEF KeyListsMail
  <2>3. \A b \in Books : KeyMayMail(scopes, "CONTACT_READ", b) => KeyListsBook(scopes, b)
    BY <2>1, KeyListings DEF KeyListsBook
  <2> QED
    BY <2>2, <2>3 DEF KeyOpenableListed
<1>3. IInv => ListsKeepToRights
  BY <1>1, <1>2 DEF ListsKeepToRights
<1> QED
  BY <1>3, Invariant, PTL
=============================================================================
