--------------------------- MODULE FileLinksProofs --------------------------
(***************************************************************************)
(* Proofs about FileLinks, for any number of links, objects, downloads and *)
(* revocations and for any limits and clock bound.                         *)
(***************************************************************************)
EXTENDS FileLinks, TLAPS

(* clampTtl always yields a lifetime between the floor and the cap.        *)
LEMMA ClampTtlBounds ==
  ASSUME NEW requested \in TtlRequests
  PROVE  /\ ClampTtl(requested) \in Nat
         /\ MinTtl <= ClampTtl(requested) /\ ClampTtl(requested) <= MaxTtl
  BY TtlAssumption DEF ClampTtl

(* Changing the program counter of one request leaves the rest of the      *)
(* request table alone: one lemma for each kind of request.                *)
MintTypes == [Links -> [pc : MintPcs, mintedAt : Nat, row : Row \cup {None}]]
DownloadTypes == [Downloads -> [pc : DownloadPcs, link : Links \cup {None}, at : Nat]]
RevokeTypes == [Revokers -> [pc : RevokePcs, link : Links \cup {None},
                             row : Row \cup {None}]]

LEMMA MintPcUpdate ==
  ASSUME mint \in MintTypes, NEW l \in Links, NEW p \in MintPcs,
         mint' = [mint EXCEPT ![l].pc = p]
  PROVE  /\ mint' \in MintTypes
         /\ \A k \in Links : /\ mint'[k].row = mint[k].row
                             /\ mint'[k].mintedAt = mint[k].mintedAt
                             /\ mint'[k].pc = IF k = l THEN p ELSE mint[k].pc
  BY DEF MintTypes

LEMMA DownloadPcUpdate ==
  ASSUME dl \in DownloadTypes, NEW d \in Downloads, NEW p \in DownloadPcs,
         dl' = [dl EXCEPT ![d].pc = p]
  PROVE  /\ dl' \in DownloadTypes
         /\ \A e \in Downloads : /\ dl'[e].link = dl[e].link
                                 /\ dl'[e].pc = IF e = d THEN p ELSE dl[e].pc
  BY DEF DownloadTypes

LEMMA RevokePcUpdate ==
  ASSUME rv \in RevokeTypes, NEW r \in Revokers, NEW p \in RevokePcs,
         rv' = [rv EXCEPT ![r].pc = p]
  PROVE  /\ rv' \in RevokeTypes
         /\ \A q \in Revokers : /\ rv'[q].link = rv[q].link /\ rv'[q].row = rv[q].row
                                /\ rv'[q].pc = IF q = r THEN p ELSE rv[q].pc
  BY DEF RevokeTypes

(* An upsert keeps the columns fixed at mint time of the row it overwrites *)
(* and takes the counter and the revocation from the row it writes.        *)
LEMMA UpsertColumns ==
  ASSUME NEW old \in Row \cup {None}, NEW new \in Row
  PROVE  /\ Upsert(old, new) \in Row
         /\ old = None => Upsert(old, new) = new
         /\ old # None => /\ Upsert(old, new).target = old.target
                          /\ Upsert(old, new).expiresAt = old.expiresAt
                          /\ Upsert(old, new).maxDownloads = old.maxDownloads
         /\ Upsert(old, new).revoked = new.revoked
         /\ Upsert(old, new).downloadCount = new.downloadCount
  <1>1. CASE old = None
    BY <1>1 DEF Upsert
  <1>2. CASE old # None
    BY <1>2 DEF Upsert, Row
  <1> QED BY <1>1, <1>2

LEMMA RevokedColumns ==
  ASSUME NEW row \in Row
  PROVE  /\ Revoked(row) \in Row
         /\ Revoked(row).target = row.target
         /\ Revoked(row).expiresAt = row.expiresAt
         /\ Revoked(row).maxDownloads = row.maxDownloads
         /\ Revoked(row).revoked
  BY DEF Revoked, Row

(* Counting one download changes no other column. *)
LEMMA CountedColumns ==
  ASSUME NEW row \in Row
  PROVE  LET counted == [row EXCEPT !.downloadCount = @ + 1]
         IN  /\ counted \in Row
             /\ counted.target = row.target
             /\ counted.expiresAt = row.expiresAt
             /\ counted.maxDownloads = row.maxDownloads
             /\ counted.revoked = row.revoked
             /\ counted.downloadCount = row.downloadCount + 1
             /\ row.downloadCount \in Nat
  BY DEF Row

(* The conjuncts of the invariant that mention only mint, or only rows and *)
(* requests relative to it, survive a step that leaves them alone.         *)
LEMMA SameMintStable ==
  ASSUME NEW l \in Links, NEW row, SameMint(l, row),
         mint'[l].row = mint[l].row, mint'[l].pc = mint[l].pc
  PROVE  SameMint(l, row)'
  BY DEF SameMint

-----------------------------------------------------------------------------
LEMMA InitIInv == Init => IInv
  <1> SUFFICES ASSUME Init PROVE IInv
    OBVIOUS
  <1>1. TypeOK
    BY DEF Init, TypeOK, MintPcs, DownloadPcs, RevokePcs
  <1>2. MintSound /\ RowsSound /\ DownloadsSound /\ RevokesSound
    BY DEF Init, MintSound, RowsSound, DownloadsSound, RevokesSound
  <1>3. CounterExact /\ GrantsWithinLimit
    BY DEF Init, CounterExact, GrantsWithinLimit, Limited
  <1> QED BY <1>1, <1>2, <1>3 DEF IInv

LEMMA AuthorizeMintIInv ==
  ASSUME IInv, NEW l \in Links, NEW t \in Targets, NEW limit \in Limits,
         NEW ttl \in TtlRequests, AuthorizeMint(l, t, limit, ttl)
  PROVE  IInv'
  <1> DEFINE new == [target |-> t, expiresAt |-> now + ClampTtl(ttl),
                     maxDownloads |-> limit, downloadCount |-> 0, revoked |-> FALSE]
  <1>1. /\ new \in Row /\ new.downloadCount = 0 /\ ~new.revoked
        /\ new.maxDownloads = limit
    BY ClampTtlBounds, LimitsAssumption DEF Row, IInv, TypeOK
  <1>2. /\ mint[l].pc = "idle" /\ ValidLimit(limit)
        /\ mint' = [mint EXCEPT ![l] = [pc |-> "save", mintedAt |-> now, row |-> new]]
        /\ UNCHANGED <<now, objects, blobs, links, dl, rv, granted>>
    BY DEF AuthorizeMint
  <1> HIDE DEF new
  <1>3. TypeOK'
    BY <1>1, <1>2 DEF IInv, TypeOK, MintPcs
  <1>4. /\ mint'[l].pc = "save" /\ mint'[l].row = new
        /\ \A k \in Links \ {l} : mint'[k] = mint[k]
    BY <1>2 DEF IInv, TypeOK
  <1>5. \A k \in Links : mint[k].pc = "done" => mint'[k] = mint[k]
    BY <1>2, <1>4
  <1>6. MintSound'
    <2>1. now \in Nat /\ mint'[l].mintedAt = now /\ new.expiresAt = now + ClampTtl(ttl)
      BY <1>2 DEF IInv, TypeOK, new
    <2>2. /\ now + MinTtl <= new.expiresAt
          /\ new.expiresAt <= now + MaxTtl
      BY <2>1, ClampTtlBounds, TtlAssumption
    <2> QED
      BY <1>1, <1>2, <1>4, <2>1, <2>2 DEF IInv, MintSound
  <1>7. RowsSound' /\ DownloadsSound' /\ RevokesSound'
    BY <1>2, <1>5 DEF IInv, RowsSound, DownloadsSound, RevokesSound, SameMint
  <1>8. CounterExact' /\ GrantsWithinLimit'
    BY <1>2, <1>4 DEF IInv, CounterExact, GrantsWithinLimit, Limited
  <1> QED BY <1>3, <1>6, <1>7, <1>8 DEF IInv

LEMMA SaveMintIInv ==
  ASSUME IInv, NEW l \in Links, SaveMint(l)
  PROVE  IInv'
  <1>0. TypeOK /\ MintSound /\ RowsSound /\ DownloadsSound /\ RevokesSound
        /\ CounterExact /\ GrantsWithinLimit
    BY DEF IInv
  <1>1. /\ mint[l].pc = "save" /\ mint[l].row \in Row /\ links[l] = None
        /\ granted[l] = 0 /\ mint[l].row.downloadCount = 0 /\ ~mint[l].row.revoked
        /\ ValidLimit(mint[l].row.maxDownloads)
    BY <1>0 DEF SaveMint, MintSound, RowsSound, SameMint
  <1>a. mint \in MintTypes
    BY <1>0 DEF TypeOK, MintTypes
  <1>2. CASE mint[l].row.target \in objects
    <2>1. /\ links' = [links EXCEPT ![l] = mint[l].row]
          /\ mint' = [mint EXCEPT ![l].pc = "done"]
          /\ UNCHANGED <<now, objects, blobs, dl, rv, granted>>
      BY <1>1, <1>2 DEF SaveMint, Upsert
    <2>2. /\ mint' \in MintTypes
          /\ \A k \in Links : /\ mint'[k].row = mint[k].row
                              /\ mint'[k].mintedAt = mint[k].mintedAt
                              /\ mint'[k].pc = IF k = l THEN "done" ELSE mint[k].pc
      BY <1>a, <2>1, MintPcUpdate DEF MintPcs
    <2>3. links' \in [Links -> Row \cup {None}] /\ links'[l] = mint[l].row
          /\ \A k \in Links \ {l} : links'[k] = links[k]
      BY <1>0, <1>1, <2>1 DEF TypeOK
    <2>4. TypeOK'
      BY <1>0, <2>1, <2>2, <2>3 DEF TypeOK, MintTypes
    <2>5. MintSound'
      BY <1>0, <1>1, <2>1, <2>2 DEF MintSound
    <2>6. RowsSound' /\ DownloadsSound' /\ RevokesSound'
      BY <1>0, <2>1, <2>2, <2>3 DEF RowsSound, DownloadsSound, RevokesSound, SameMint
    <2>7. CounterExact'
      BY <1>0, <1>1, <2>1, <2>3 DEF CounterExact
    <2>8. GrantsWithinLimit'
      BY <1>0, <1>1, <2>1, <2>2 DEF GrantsWithinLimit, Limited, ValidLimit
    <2> QED BY <2>4, <2>5, <2>6, <2>7, <2>8 DEF IInv
  <1>3. CASE mint[l].row.target \notin objects
    <2>1. /\ mint' = [mint EXCEPT ![l].pc = "failed"]
          /\ UNCHANGED <<now, objects, blobs, links, dl, rv, granted>>
      BY <1>3 DEF SaveMint
    <2>2. /\ mint' \in MintTypes
          /\ \A k \in Links : /\ mint'[k].row = mint[k].row
                              /\ mint'[k].mintedAt = mint[k].mintedAt
                              /\ mint'[k].pc = IF k = l THEN "failed" ELSE mint[k].pc
      BY <1>a, <2>1, MintPcUpdate DEF MintPcs
    <2>4. TypeOK'
      BY <1>0, <2>1, <2>2 DEF TypeOK, MintTypes
    <2>5. MintSound'
      BY <1>0, <1>1, <2>1, <2>2 DEF MintSound
    <2>6. RowsSound' /\ DownloadsSound' /\ RevokesSound'
      BY <1>0, <1>1, <2>1, <2>2 DEF RowsSound, DownloadsSound, RevokesSound, SameMint
    <2>7. CounterExact' /\ GrantsWithinLimit'
      BY <1>0, <1>1, <2>1, <2>2 DEF CounterExact, GrantsWithinLimit, Limited
    <2> QED BY <2>4, <2>5, <2>6, <2>7 DEF IInv
  <1> QED BY <1>2, <1>3

LEMMA EvictMintIInv ==
  ASSUME IInv, NEW l \in Links, EvictMint(l)
  PROVE  IInv'
  <1>0. TypeOK /\ MintSound /\ RowsSound /\ DownloadsSound /\ RevokesSound
        /\ CounterExact /\ GrantsWithinLimit
    BY DEF IInv
  <1>1. /\ mint[l].pc = "save"
        /\ mint' = [mint EXCEPT ![l].pc = "failed"]
        /\ UNCHANGED <<now, objects, blobs, links, dl, rv, granted>>
    BY DEF EvictMint
  <1>2. /\ mint' \in MintTypes
        /\ \A k \in Links : /\ mint'[k].row = mint[k].row
                            /\ mint'[k].mintedAt = mint[k].mintedAt
                            /\ mint'[k].pc = IF k = l THEN "failed" ELSE mint[k].pc
    BY <1>0, <1>1, MintPcUpdate DEF MintPcs, TypeOK, MintTypes
  <1>3. TypeOK'
    BY <1>0, <1>1, <1>2 DEF TypeOK, MintTypes
  <1>4. MintSound'
    BY <1>0, <1>1, <1>2 DEF MintSound
  <1>5. RowsSound' /\ DownloadsSound' /\ RevokesSound'
    BY <1>0, <1>1, <1>2 DEF RowsSound, DownloadsSound, RevokesSound, SameMint
  <1>6. CounterExact' /\ GrantsWithinLimit'
    BY <1>0, <1>1, <1>2 DEF CounterExact, GrantsWithinLimit, Limited
  <1> QED BY <1>3, <1>4, <1>5, <1>6 DEF IInv

(* Download steps other than Consume move one program counter. *)
LEMMA DownloadPcIInv ==
  ASSUME IInv, NEW d \in Downloads, NEW p \in DownloadPcs,
         dl[d].pc # "idle", dl' = [dl EXCEPT ![d].pc = p],
         UNCHANGED <<now, objects, blobs, links, mint, rv, granted>>
  PROVE  IInv'
  <1>0. TypeOK /\ MintSound /\ RowsSound /\ DownloadsSound /\ RevokesSound
        /\ CounterExact /\ GrantsWithinLimit
    BY DEF IInv
  <1>1. /\ dl' \in DownloadTypes
        /\ \A e \in Downloads : /\ dl'[e].link = dl[e].link
                                /\ dl'[e].pc = IF e = d THEN p ELSE dl[e].pc
    BY <1>0, DownloadPcUpdate DEF TypeOK, DownloadTypes
  <1>2. TypeOK'
    BY <1>0, <1>1 DEF TypeOK, DownloadTypes
  <1>3. DownloadsSound'
    BY <1>0, <1>1 DEF DownloadsSound
  <1>4. MintSound' /\ RowsSound' /\ RevokesSound' /\ CounterExact' /\ GrantsWithinLimit'
    BY <1>0 DEF MintSound, RowsSound, RevokesSound, SameMint, CounterExact,
                GrantsWithinLimit, Limited
  <1> QED BY <1>2, <1>3, <1>4 DEF IInv

LEMMA PresentIInv ==
  ASSUME IInv, NEW d \in Downloads, NEW l \in Links, Present(d, l)
  PROVE  IInv'
  <1>0. TypeOK /\ MintSound /\ RowsSound /\ DownloadsSound /\ RevokesSound
        /\ CounterExact /\ GrantsWithinLimit
    BY DEF IInv
  <1>1. /\ mint[l].pc = "done"
        /\ dl' = [dl EXCEPT ![d] = [pc |-> "consume", link |-> l, at |-> now]]
        /\ UNCHANGED <<now, objects, blobs, links, mint, rv, granted>>
    BY DEF Present
  <1>2. TypeOK'
    BY <1>0, <1>1 DEF TypeOK, DownloadPcs
  <1>3. DownloadsSound'
    BY <1>0, <1>1 DEF DownloadsSound, TypeOK
  <1>4. MintSound' /\ RowsSound' /\ RevokesSound' /\ CounterExact' /\ GrantsWithinLimit'
    BY <1>0, <1>1 DEF MintSound, RowsSound, RevokesSound, SameMint, CounterExact,
                GrantsWithinLimit, Limited
  <1> QED BY <1>2, <1>3, <1>4 DEF IInv

(* The step the invariant is for: the counter of an unrevoked row is the   *)
(* number of downloads granted, so the UPDATE's guard bounds the latter.   *)
LEMMA ConsumeIInv ==
  ASSUME IInv, NEW d \in Downloads, Consume(d)
  PROVE  IInv'
  <1>0. TypeOK /\ MintSound /\ RowsSound /\ DownloadsSound /\ RevokesSound
        /\ CounterExact /\ GrantsWithinLimit
    BY DEF IInv
  <1> DEFINE l == dl[d].link
             counted == [links[l] EXCEPT !.downloadCount = @ + 1]
  <1>1. CASE Usable(links[l], dl[d].at)
    <2>1. /\ dl[d].pc = "consume"
          /\ links' = [links EXCEPT ![l] = counted]
          /\ granted' = [granted EXCEPT ![l] = @ + 1]
          /\ dl' = [dl EXCEPT ![d].pc = "find"]
          /\ UNCHANGED <<now, objects, blobs, mint, rv>>
      BY <1>1 DEF Consume
    <2>2. /\ l \in Links /\ links[l] \in Row /\ ~links[l].revoked
          /\ links[l].maxDownloads = Unlimited
             \/ links[l].downloadCount < links[l].maxDownloads
      BY <1>0, <1>1, <2>1 DEF Usable, DownloadsSound, TypeOK
    <2>3. /\ counted \in Row /\ counted.target = links[l].target
          /\ counted.expiresAt = links[l].expiresAt
          /\ counted.maxDownloads = links[l].maxDownloads
          /\ counted.downloadCount = links[l].downloadCount + 1
      BY <2>2, CountedColumns
    <2>4. /\ links[l].downloadCount = granted[l] /\ granted[l] \in Nat
          /\ SameMint(l, links[l]) /\ links[l] # None
      BY <1>0, <2>2, NoneAssumption DEF CounterExact, RowsSound, TypeOK
    <2> HIDE DEF counted
    <2>5. /\ dl' \in DownloadTypes
          /\ \A e \in Downloads : /\ dl'[e].link = dl[e].link
                                  /\ dl'[e].pc = IF e = d THEN "find" ELSE dl[e].pc
      BY <1>0, <2>1, DownloadPcUpdate DEF TypeOK, DownloadTypes, DownloadPcs
    <2>6. /\ links' \in [Links -> Row \cup {None}] /\ links'[l] = counted
          /\ \A k \in Links \ {l} : links'[k] = links[k]
          /\ granted' \in [Links -> Nat] /\ granted'[l] = granted[l] + 1
          /\ \A k \in Links \ {l} : granted'[k] = granted[k]
      BY <1>0, <2>1, <2>2, <2>3, <2>4 DEF TypeOK
    <2>7. TypeOK'
      BY <1>0, <2>1, <2>5, <2>6 DEF TypeOK, DownloadTypes
    <2>8. MintSound'
      BY <1>0, <2>1, <2>4, <2>6 DEF MintSound, SameMint
    <2>9. RowsSound' /\ DownloadsSound' /\ RevokesSound'
      <3>1. RowsSound'
        BY <1>0, <2>1, <2>3, <2>4, <2>6 DEF RowsSound, SameMint
      <3>2. DownloadsSound'
        BY <1>0, <2>1, <2>5 DEF DownloadsSound
      <3>3. RevokesSound'
        BY <1>0, <2>1 DEF RevokesSound, SameMint
      <3> QED BY <3>1, <3>2, <3>3
    <2>10. CounterExact'
      BY <1>0, <2>3, <2>4, <2>6 DEF CounterExact
    <2>11. GrantsWithinLimit'
      <3>1. \A k \in Links \ {l} : Limited(k)' => granted'[k] <= mint'[k].row.maxDownloads
        BY <1>0, <2>1, <2>6 DEF GrantsWithinLimit, Limited
      <3>2. ASSUME mint[l].row.maxDownloads # Unlimited
            PROVE  granted'[l] <= mint[l].row.maxDownloads
        <4>1. /\ links[l].maxDownloads = mint[l].row.maxDownloads
              /\ mint[l].row.maxDownloads \in Int
          BY <1>0, <2>2, <2>4, <3>2 DEF SameMint, MintSound, ValidLimit
        <4> QED BY <2>2, <2>4, <2>6, <3>2, <4>1
      <3> QED BY <2>1, <3>1, <3>2 DEF GrantsWithinLimit, Limited
    <2> QED BY <2>7, <2>8, <2>9, <2>10, <2>11 DEF IInv
  <1>2. CASE ~Usable(links[l], dl[d].at)
    <2>1. /\ dl[d].pc # "idle" /\ dl' = [dl EXCEPT ![d].pc = "notFound"]
          /\ UNCHANGED <<now, objects, blobs, links, mint, rv, granted>>
      BY <1>2 DEF Consume
    <2> QED BY <2>1, DownloadPcIInv DEF DownloadPcs
  <1> QED BY <1>1, <1>2

LEMMA OtherDownloadIInv ==
  ASSUME IInv, NEW d \in Downloads, FindObject(d) \/ Stream(d) \/ EvictDownload(d)
  PROVE  IInv'
  <1>1. CASE FindObject(d)
    <2>1. PICK p \in DownloadPcs : dl' = [dl EXCEPT ![d].pc = p]
      BY <1>1 DEF FindObject, DownloadPcs
    <2> QED BY <1>1, <2>1, DownloadPcIInv DEF FindObject
  <1>2. CASE Stream(d)
    <2>1. PICK p \in DownloadPcs : dl' = [dl EXCEPT ![d].pc = p]
      BY <1>2 DEF Stream, DownloadPcs
    <2> QED BY <1>2, <2>1, DownloadPcIInv DEF Stream
  <1>3. CASE EvictDownload(d)
    BY <1>3, DownloadPcIInv DEF EvictDownload, DownloadPcs
  <1> QED BY <1>1, <1>2, <1>3

(* Steps that only remove rows, move the clock or change which objects     *)
(* exist.                                                                  *)
LEMMA RemovalIInv ==
  ASSUME IInv, now' \in Nat, objects' \subseteq Targets, blobs' \subseteq Targets,
         links' \in [Links -> Row \cup {None}],
         \A l \in Links : links'[l] \in {links[l], None},
         UNCHANGED <<mint, dl, rv, granted>>
  PROVE  IInv'
  <1>0. TypeOK /\ MintSound /\ RowsSound /\ DownloadsSound /\ RevokesSound
        /\ CounterExact /\ GrantsWithinLimit
    BY DEF IInv
  <1>1. TypeOK'
    BY <1>0 DEF TypeOK
  <1>2. MintSound' /\ DownloadsSound' /\ RevokesSound' /\ GrantsWithinLimit'
    BY <1>0 DEF MintSound, DownloadsSound, RevokesSound, SameMint, GrantsWithinLimit, Limited
  <1>3. RowsSound'
    BY <1>0 DEF RowsSound, SameMint
  <1>4. CounterExact'
    BY <1>0 DEF CounterExact
  <1> QED BY <1>1, <1>2, <1>3, <1>4 DEF IInv

LEMMA EnvironmentIInv ==
  ASSUME IInv,
         Tick \/ SweepExpired \/ (\E t \in Targets : DeleteObject(t) \/ DeleteBlob(t))
  PROVE  IInv'
  <1>0. TypeOK
    BY DEF IInv
  <1>1. CASE Tick
    BY <1>0, <1>1, RemovalIInv DEF Tick, TypeOK
  <1>2. CASE SweepExpired
    <2>1. /\ links' \in [Links -> Row \cup {None}]
          /\ \A l \in Links : links'[l] \in {links[l], None}
      BY <1>0, <1>2 DEF SweepExpired, TypeOK
    <2> QED BY <1>0, <1>2, <2>1, RemovalIInv DEF SweepExpired, TypeOK
  <1>3. ASSUME NEW t \in Targets, DeleteObject(t) PROVE IInv'
    <2>1. /\ links' \in [Links -> Row \cup {None}]
          /\ \A l \in Links : links'[l] \in {links[l], None}
      BY <1>0, <1>3 DEF DeleteObject, TypeOK
    <2> QED BY <1>0, <1>3, <2>1, RemovalIInv DEF DeleteObject, TypeOK
  <1>4. ASSUME NEW t \in Targets, DeleteBlob(t) PROVE IInv'
    BY <1>0, <1>4, RemovalIInv DEF DeleteBlob, TypeOK
  <1> QED BY <1>1, <1>2, <1>3, <1>4

LEMMA RevokeFindIInv ==
  ASSUME IInv, NEW r \in Revokers, NEW l \in Links, RevokeFind(r, l)
  PROVE  IInv'
  <1>0. TypeOK /\ MintSound /\ RowsSound /\ DownloadsSound /\ RevokesSound
        /\ CounterExact /\ GrantsWithinLimit
    BY DEF IInv
  <1>1. /\ links[l] \in Row /\ links[l] # None
        /\ rv' = [rv EXCEPT ![r] = [pc |-> "authorize", link |-> l, row |-> links[l]]]
        /\ UNCHANGED <<now, objects, blobs, links, mint, dl, granted>>
    BY <1>0 DEF RevokeFind, TypeOK
  <1>2. TypeOK'
    BY <1>0, <1>1 DEF TypeOK, RevokePcs
  <1>3. RevokesSound'
    BY <1>0, <1>1 DEF RevokesSound, RowsSound, SameMint, TypeOK
  <1>4. MintSound' /\ RowsSound' /\ DownloadsSound' /\ CounterExact' /\ GrantsWithinLimit'
    BY <1>0, <1>1 DEF MintSound, RowsSound, DownloadsSound, SameMint, CounterExact,
                GrantsWithinLimit, Limited
  <1> QED BY <1>2, <1>3, <1>4 DEF IInv

(* Revocation steps other than RevokeFind, when no row is written. *)
LEMMA RevokePcIInv ==
  ASSUME IInv, NEW r \in Revokers, NEW p \in RevokePcs,
         rv[r].pc # "idle", rv' = [rv EXCEPT ![r].pc = p],
         UNCHANGED <<now, objects, blobs, links, mint, dl, granted>>
  PROVE  IInv'
  <1>0. TypeOK /\ MintSound /\ RowsSound /\ DownloadsSound /\ RevokesSound
        /\ CounterExact /\ GrantsWithinLimit
    BY DEF IInv
  <1>1. /\ rv' \in RevokeTypes
        /\ \A q \in Revokers : /\ rv'[q].link = rv[q].link /\ rv'[q].row = rv[q].row
                               /\ rv'[q].pc = IF q = r THEN p ELSE rv[q].pc
    BY <1>0, RevokePcUpdate DEF TypeOK, RevokeTypes
  <1>2. TypeOK'
    BY <1>0, <1>1 DEF TypeOK, RevokeTypes
  <1>3. RevokesSound'
    BY <1>0, <1>1 DEF RevokesSound, SameMint
  <1>4. MintSound' /\ RowsSound' /\ DownloadsSound' /\ CounterExact' /\ GrantsWithinLimit'
    BY <1>0 DEF MintSound, RowsSound, DownloadsSound, SameMint, CounterExact,
                GrantsWithinLimit, Limited
  <1> QED BY <1>2, <1>3, <1>4 DEF IInv

(* The stale write-back: whatever the counter it carries, the row it       *)
(* leaves is revoked, so CounterExact asks nothing of it.                  *)
LEMMA RevokeSaveIInv ==
  ASSUME IInv, NEW r \in Revokers, RevokeSave(r)
  PROVE  IInv'
  <1>0. TypeOK /\ MintSound /\ RowsSound /\ DownloadsSound /\ RevokesSound
        /\ CounterExact /\ GrantsWithinLimit
    BY DEF IInv
  <1> DEFINE l == rv[r].link
             new == Upsert(links[l], Revoked(rv[r].row))
  <1>1. /\ l \in Links /\ rv[r].row \in Row /\ SameMint(l, rv[r].row) /\ rv[r].pc = "save"
    BY <1>0 DEF RevokeSave, RevokesSound
  <1>2. CASE rv[r].row.target \in objects
    <2>1. /\ links' = [links EXCEPT ![l] = new]
          /\ rv' = [rv EXCEPT ![r].pc = "done"]
          /\ UNCHANGED <<now, objects, blobs, mint, dl, granted>>
      BY <1>2 DEF RevokeSave
    <2>2. /\ Revoked(rv[r].row) \in Row /\ Revoked(rv[r].row).revoked
          /\ SameMint(l, Revoked(rv[r].row))
      BY <1>1, RevokedColumns DEF SameMint
    <2>3. links[l] \in Row \cup {None} /\ (links[l] # None => SameMint(l, links[l]))
      BY <1>0, <1>1 DEF TypeOK, RowsSound
    <2>4. new \in Row /\ new.revoked /\ SameMint(l, new)
      BY <2>2, <2>3, UpsertColumns DEF SameMint
    <2> HIDE DEF new
    <2>5. /\ rv' \in RevokeTypes
          /\ \A q \in Revokers : /\ rv'[q].link = rv[q].link /\ rv'[q].row = rv[q].row
                                 /\ rv'[q].pc = IF q = r THEN "done" ELSE rv[q].pc
      BY <1>0, <2>1, RevokePcUpdate DEF TypeOK, RevokeTypes, RevokePcs
    <2>6. /\ links' \in [Links -> Row \cup {None}] /\ links'[l] = new
          /\ \A k \in Links \ {l} : links'[k] = links[k]
      BY <1>0, <1>1, <2>1, <2>4 DEF TypeOK
    <2>7. TypeOK'
      BY <1>0, <2>1, <2>5, <2>6 DEF TypeOK, RevokeTypes
    <2>8. RowsSound'
      <3> SUFFICES ASSUME NEW k \in Links, links'[k] # None PROVE SameMint(k, links[k])'
        BY DEF RowsSound
      <3>1. CASE k = l
        BY <3>1, <2>1, <2>4, <2>6 DEF SameMint
      <3>2. CASE k # l
        BY <3>2, <1>0, <2>1, <2>6 DEF RowsSound, SameMint
      <3> QED BY <3>1, <3>2
    <2>9. RevokesSound'
      <3>1. \A q \in Revokers : rv'[q].pc # "idle" => rv[q].pc # "idle"
        BY <1>1, <2>5
      <3>2. \A q \in Revokers : rv'[q].pc # "idle" =>
              rv[q].link \in Links /\ rv[q].row \in Row /\ SameMint(rv[q].link, rv[q].row)
        BY <1>0, <3>1 DEF RevokesSound
      <3> QED
        BY <2>1, <2>5, <3>2 DEF RevokesSound, SameMint
    <2>10. CounterExact'
      BY <1>0, <2>1, <2>4, <2>6 DEF CounterExact
    <2>11. MintSound' /\ DownloadsSound' /\ GrantsWithinLimit'
      BY <1>0, <2>1 DEF MintSound, DownloadsSound, GrantsWithinLimit, Limited
    <2> QED BY <2>7, <2>8, <2>9, <2>10, <2>11 DEF IInv
  <1>3. CASE rv[r].row.target \notin objects
    BY <1>1, <1>3, RevokePcIInv DEF RevokeSave, RevokePcs
  <1> QED BY <1>2, <1>3

LEMMA OtherRevokeIInv ==
  ASSUME IInv, NEW r \in Revokers, RevokeAuthorize(r) \/ EvictRevoke(r)
  PROVE  IInv'
  <1>1. CASE RevokeAuthorize(r)
    <2>1. PICK p \in RevokePcs : rv' = [rv EXCEPT ![r].pc = p]
      BY <1>1 DEF RevokeAuthorize, RevokePcs
    <2> QED BY <1>1, <2>1, RevokePcIInv DEF RevokeAuthorize
  <1>2. CASE EvictRevoke(r)
    BY <1>2, RevokePcIInv DEF EvictRevoke, RevokePcs
  <1> QED BY <1>1, <1>2

-----------------------------------------------------------------------------
LEMMA NextIInv == IInv /\ [Next]_vars => IInv'
  <1> SUFFICES ASSUME IInv, [Next]_vars PROVE IInv'
    OBVIOUS
  <1>1. CASE UNCHANGED vars
    <2>1. IInv => TypeOK
      BY DEF IInv
    <2> QED BY <1>1, <2>1, RemovalIInv DEF vars, TypeOK
  <1>2. ASSUME NEW l \in Links, NEW t \in Targets, NEW limit \in Limits,
               NEW ttl \in TtlRequests, AuthorizeMint(l, t, limit, ttl)
        PROVE  IInv'
    BY <1>2, AuthorizeMintIInv
  <1>3. ASSUME NEW l \in Links, SaveMint(l) \/ EvictMint(l) PROVE IInv'
    BY <1>3, SaveMintIInv, EvictMintIInv
  <1>4. ASSUME NEW d \in Downloads, NEW l \in Links, Present(d, l) PROVE IInv'
    BY <1>4, PresentIInv
  <1>5. ASSUME NEW d \in Downloads,
               Consume(d) \/ FindObject(d) \/ Stream(d) \/ EvictDownload(d)
        PROVE  IInv'
    BY <1>5, ConsumeIInv, OtherDownloadIInv
  <1>6. ASSUME NEW r \in Revokers, NEW l \in Links, RevokeFind(r, l) PROVE IInv'
    BY <1>6, RevokeFindIInv
  <1>7. ASSUME NEW r \in Revokers, RevokeAuthorize(r) \/ RevokeSave(r) \/ EvictRevoke(r)
        PROVE  IInv'
    BY <1>7, RevokeSaveIInv, OtherRevokeIInv
  <1>8. ASSUME Tick \/ SweepExpired \/ (\E t \in Targets : DeleteObject(t) \/ DeleteBlob(t))
        PROVE  IInv'
    BY <1>8, EnvironmentIInv
  <1> QED BY <1>1, <1>2, <1>3, <1>4, <1>5, <1>6, <1>7, <1>8 DEF Next

(* The inductive invariant holds in every reachable state of every         *)
(* instance: rows, snapshots and counters agree with the mint and with the *)
(* downloads granted.                                                      *)
THEOREM InductiveInvariant == Spec => []IInv
  BY InitIInv, NextIInv, PTL DEF Spec

(* No link ever grants more than its maxDownloads, whatever the number of  *)
(* concurrent downloads, revocations, sweeps, deletions and evictions.     *)
THEOREM GrantsBounded == Spec => []GrantsWithinLimit
  <1>1. IInv => GrantsWithinLimit
    BY DEF IInv
  <1> QED BY <1>1, InductiveInvariant, PTL

-----------------------------------------------------------------------------
(* A live row and the phase it stands for. *)
Live(row) == row # None /\ ~row.revoked

(* The four things a step can do to the links: prepare something, issue a  *)
(* link, grant a download, or leave some links without a live row.         *)
PreparingStep ==
  /\ UNCHANGED <<links, granted>>
  /\ \A l \in Links : /\ mint'[l].pc = "done" <=> mint[l].pc = "done"
                      /\ mint[l].pc = "done" => mint'[l] = mint[l]

IssuingStep(l) ==
  /\ mint[l].pc = "save" /\ links[l] = None /\ granted' = granted
  /\ mint' = [mint EXCEPT ![l].pc = "done"]
  /\ links' = [links EXCEPT ![l] = mint[l].row]

GrantingStep(l) ==
  /\ Live(links[l]) /\ mint' = mint
  /\ links[l].maxDownloads = Unlimited
     \/ links[l].downloadCount < links[l].maxDownloads
  /\ links' = [links EXCEPT ![l].downloadCount = @ + 1]
  /\ granted' = [granted EXCEPT ![l] = @ + 1]

KillingStep ==
  /\ UNCHANGED <<mint, granted>>
  /\ \A l \in Links : links'[l] = links[l] \/ (mint[l].pc = "done" /\ ~Live(links'[l]))

LEMMA StepKinds ==
  ASSUME IInv, [Next]_vars
  PROVE  \/ PreparingStep
         \/ \E l \in Links : IssuingStep(l) \/ GrantingStep(l)
         \/ KillingStep
  <1>0. TypeOK /\ MintSound /\ RowsSound /\ DownloadsSound /\ RevokesSound
    BY DEF IInv
  <1>1. CASE UNCHANGED vars
    BY <1>1 DEF vars, PreparingStep
  <1>2. ASSUME NEW l \in Links, NEW t \in Targets, NEW limit \in Limits,
               NEW ttl \in TtlRequests, AuthorizeMint(l, t, limit, ttl)
        PROVE  PreparingStep
    BY <1>0, <1>2 DEF AuthorizeMint, TypeOK, PreparingStep
  <1>3. ASSUME NEW l \in Links, mint[l].pc = "save",
               mint' = [mint EXCEPT ![l].pc = "failed"], UNCHANGED <<links, granted>>
        PROVE  PreparingStep
    BY <1>0, <1>3 DEF TypeOK, PreparingStep
  <1>4. ASSUME NEW l \in Links, SaveMint(l), mint[l].row.target \in objects
        PROVE  IssuingStep(l)
    BY <1>0, <1>4 DEF SaveMint, RowsSound, SameMint, Upsert, IssuingStep
  <1>5. ASSUME NEW d \in Downloads, Consume(d), Usable(links[dl[d].link], dl[d].at)
        PROVE  \E l \in Links : GrantingStep(l)
    <2>1. dl[d].link \in Links
      BY <1>0, <1>5 DEF Consume, DownloadsSound
    <2> QED BY <1>5, <2>1 DEF Consume, Usable, Live, GrantingStep
  <1>6. ASSUME NEW r \in Revokers, RevokeSave(r), rv[r].row.target \in objects
        PROVE  KillingStep
    <2>1. /\ rv[r].link \in Links /\ rv[r].row \in Row /\ mint[rv[r].link].pc = "done"
      BY <1>0, <1>6 DEF RevokeSave, RevokesSound, SameMint
    <2>2. Upsert(links[rv[r].link], Revoked(rv[r].row)).revoked
      BY <1>0, <2>1, RevokedColumns, UpsertColumns DEF TypeOK
    <2> QED BY <1>0, <1>6, <2>1, <2>2 DEF RevokeSave, Live, TypeOK, KillingStep
  <1>7. ASSUME SweepExpired \/ (\E t \in Targets : DeleteObject(t))
        PROVE  KillingStep
    <2>1. \A l \in Links : links'[l] = links[l] \/ (links[l] # None /\ links'[l] = None)
      BY <1>7 DEF SweepExpired, DeleteObject, Expired
    <2> QED BY <1>0, <1>7, <2>1 DEF SweepExpired, DeleteObject, RowsSound, SameMint, Live,
                                   KillingStep
  <1>8. ASSUME \/ Tick \/ (\E t \in Targets : DeleteBlob(t))
               \/ \E d \in Downloads, l \in Links : Present(d, l)
               \/ \E d \in Downloads : FindObject(d) \/ Stream(d) \/ EvictDownload(d)
               \/ \E d \in Downloads : Consume(d) /\ ~Usable(links[dl[d].link], dl[d].at)
               \/ \E r \in Revokers, l \in Links : RevokeFind(r, l)
               \/ \E r \in Revokers : RevokeAuthorize(r) \/ EvictRevoke(r)
               \/ \E r \in Revokers : RevokeSave(r) /\ rv[r].row.target \notin objects
        PROVE  PreparingStep
    BY <1>8 DEF PreparingStep, Tick, DeleteBlob, Present, FindObject, Stream, EvictDownload, Consume,
                RevokeFind, RevokeAuthorize, EvictRevoke, RevokeSave
  <1>9. ASSUME NEW l \in Links, EvictMint(l) \/ (SaveMint(l) /\ mint[l].row.target \notin objects)
        PROVE  PreparingStep
    BY <1>3, <1>9 DEF EvictMint, SaveMint
  <1>10. CASE Next
    BY <1>10, <1>2, <1>4, <1>5, <1>6, <1>7, <1>8, <1>9, Zenon DEF Next
  <1> QED BY <1>1, <1>10

(* A link that is dead stays dead and grants nothing more, whatever was in *)
(* flight when it died.                                                    *)
THEOREM DeadForGood == Spec => DeadStaysDead
  <1>1. ASSUME IInv, [Next]_vars, NEW l \in Links, Dead(l)
        PROVE  Dead(l)' /\ granted'[l] = granted[l]
    <2>0. /\ mint[l].pc = "done" /\ ~Live(links[l]) /\ links \in [Links -> Row \cup {None}]
          /\ granted \in [Links -> Nat]
      BY <1>1 DEF Dead, Live, IInv, TypeOK
    <2>1. mint'[l].pc = "done" /\ ~Live(links'[l]) /\ granted'[l] = granted[l]
      <3>1. CASE PreparingStep
        BY <2>0, <3>1 DEF PreparingStep
      <3>2. ASSUME NEW k \in Links, IssuingStep(k)
            PROVE  mint'[l] = mint[l] /\ links'[l] = links[l] /\ granted'[l] = granted[l]
        BY <1>1, <2>0, <3>2 DEF IssuingStep, IInv, TypeOK
      <3>3. ASSUME NEW k \in Links, GrantingStep(k)
            PROVE  mint'[l] = mint[l] /\ links'[l] = links[l] /\ granted'[l] = granted[l]
        <4>1. k # l
          BY <2>0, <3>3 DEF GrantingStep
        <4> QED BY <2>0, <3>3, <4>1 DEF GrantingStep
      <3>4. CASE KillingStep
        BY <2>0, <3>4 DEF KillingStep
      <3> QED BY <1>1, <2>0, <3>1, <3>2, <3>3, <3>4, StepKinds
    <2> QED BY <2>1 DEF Dead, Live
  <1>2. IInv /\ [Next]_vars =>
          [\A l \in Links : Dead(l) => Dead(l)' /\ granted'[l] = granted[l]]_vars
    BY <1>1
  <1> QED BY <1>2, InductiveInvariant, PTL DEF Spec, DeadStaysDead

-----------------------------------------------------------------------------
(* The phases and budgets of all links, as the refinement mapping reads    *)
(* them.                                                                   *)
Phases == [l \in Links |-> PhaseOf(l)]
Budgets == [l \in Links |-> BudgetOf(l)]

LEMMA PreparingRefines ==
  ASSUME PreparingStep
  PROVE  UNCHANGED <<Phases, granted, Budgets>>
  <1>1. \A l \in Links : PhaseOf(l)' = PhaseOf(l) /\ BudgetOf(l)' = BudgetOf(l)
    BY DEF PreparingStep, PhaseOf, BudgetOf
  <1> QED BY <1>1 DEF PreparingStep, Phases, Budgets

LEMMA IssuingRefines ==
  ASSUME IInv, NEW l \in Links, IssuingStep(l)
  PROVE  Promise!Issue(l, mint[l].row.maxDownloads)
  <1>1. /\ mint \in MintTypes /\ links \in [Links -> Row \cup {None}]
        /\ mint[l].row \in Row /\ ~mint[l].row.revoked /\ mint[l].row # None
    BY NoneAssumption DEF IInv, TypeOK, MintTypes, MintSound, IssuingStep
  <1>2. \A k \in Links : /\ mint'[k].row = mint[k].row
                         /\ mint'[k].pc = IF k = l THEN "done" ELSE mint[k].pc
    BY <1>1, MintPcUpdate DEF IssuingStep, MintPcs
  <1>3. /\ links'[l] = mint[l].row /\ \A k \in Links \ {l} : links'[k] = links[k]
    BY <1>1 DEF IssuingStep
  <1>4. \A k \in Links \ {l} : PhaseOf(k)' = PhaseOf(k) /\ BudgetOf(k)' = BudgetOf(k)
    BY <1>2, <1>3 DEF PhaseOf, BudgetOf
  <1>5. /\ PhaseOf(l) = "none" /\ PhaseOf(l)' = "live"
        /\ BudgetOf(l)' = mint[l].row.maxDownloads
    BY <1>1, <1>2, <1>3 DEF PhaseOf, BudgetOf, IssuingStep
  <1>6. /\ Phases' = [Phases EXCEPT ![l] = "live"] /\ Phases[l] = "none"
        /\ Budgets' = [Budgets EXCEPT ![l] = mint[l].row.maxDownloads]
    BY <1>4, <1>5 DEF Phases, Budgets
  <1> QED BY <1>6 DEF Promise!Issue, Phases, Budgets, IssuingStep

LEMMA GrantingRefines ==
  ASSUME IInv, NEW l \in Links, GrantingStep(l)
  PROVE  Promise!Grant(l)
  <1>0. /\ links \in [Links -> Row \cup {None}] /\ links[l] \in Row
        /\ links[l].downloadCount = granted[l] /\ SameMint(l, links[l])
    BY DEF GrantingStep, Live, IInv, TypeOK, CounterExact, RowsSound
  <1>1. /\ links'[l] \in Row /\ links'[l].revoked = links[l].revoked
        /\ \A k \in Links \ {l} : links'[k] = links[k]
    BY <1>0, CountedColumns DEF GrantingStep
  <1>2. \A k \in Links : PhaseOf(k)' = PhaseOf(k) /\ BudgetOf(k)' = BudgetOf(k)
    BY <1>0, <1>1, NoneAssumption DEF PhaseOf, BudgetOf, GrantingStep
  <1>3. UNCHANGED <<Phases, Budgets>>
    BY <1>2 DEF Phases, Budgets
  <1>4. Phases[l] = "live" /\ Budgets[l] = links[l].maxDownloads
    BY <1>0 DEF Phases, Budgets, PhaseOf, BudgetOf, SameMint, GrantingStep, Live
  <1> QED BY <1>0, <1>3, <1>4 DEF Promise!Grant, Promise!Allowed, Phases, Budgets,
                                  GrantingStep

LEMMA KillingRefines ==
  ASSUME IInv, KillingStep
  PROVE  \E S \in SUBSET Links : Promise!Kill(S)
  <1> DEFINE S == {l \in Links : PhaseOf(l) = "live" /\ ~Live(links'[l])}
  <1>1. \A l \in Links : BudgetOf(l)' = BudgetOf(l)
    BY DEF KillingStep, BudgetOf
  <1>2. \A l \in Links : PhaseOf(l)' = IF l \in S THEN "dead" ELSE PhaseOf(l)
    BY DEF KillingStep, PhaseOf, Live
  <1>3. \A l \in S : Phases[l] = "live"
    BY DEF Phases
  <1>4. Phases' = [l \in Links |-> IF l \in S THEN "dead" ELSE Phases[l]]
    BY <1>2 DEF Phases
  <1>5. UNCHANGED <<Budgets, granted>>
    BY <1>1 DEF Budgets, KillingStep
  <1> HIDE DEF S
  <1>6. Promise!Kill(S)
    BY <1>3, <1>4, <1>5 DEF Promise!Kill, Phases, Budgets
  <1> QED BY <1>6 DEF S

(* Every behaviour of the requests, the sweep and the deletions is a       *)
(* behaviour of the abstract capability: FileLinks implements what a file  *)
(* link promises.                                                          *)
THEOREM Refinement == Spec => ImplementsPromise
  <1>1. Init => Promise!Init
    BY DEF Init, Promise!Init, PhaseOf, BudgetOf
  <1>2. ASSUME IInv, [Next]_vars
        PROVE  [Promise!Next]_<<Phases, granted, Budgets>>
    <2>1. CASE PreparingStep
      BY <2>1, PreparingRefines
    <2>2. ASSUME NEW l \in Links, IssuingStep(l) PROVE Promise!Next
      <3>1. mint[l].row.maxDownloads \in Limits
        BY <1>2, <2>2 DEF IInv, MintSound, IssuingStep
      <3> QED BY <1>2, <2>2, <3>1, IssuingRefines DEF Promise!Next
    <2>3. ASSUME NEW l \in Links, GrantingStep(l) PROVE Promise!Next
      BY <1>2, <2>3, GrantingRefines DEF Promise!Next
    <2>4. CASE KillingStep
      BY <1>2, <2>4, KillingRefines DEF Promise!Next
    <2> QED BY <1>2, <2>1, <2>2, <2>3, <2>4, StepKinds
  <1> QED BY <1>1, <1>2, InductiveInvariant, PTL
          DEF Spec, ImplementsPromise, Promise!Spec, Phases, Budgets
=============================================================================
