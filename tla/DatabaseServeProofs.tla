-------------------------- MODULE DatabaseServeProofs --------------------------
(* Proofs about the serving lane, for any peers, slots and generations.     *)
EXTENDS DatabaseServe, FiniteSetTheorems, TLAPS

(* An export result that is waiting to be published is a whole dump.        *)
ResultIsWhole == job = "whole" => temp = "whole"

(* The strengthening of the safety properties that the steps preserve.      *)
ServeInv ==
  /\ ServeTypeOK
  /\ LiveIsOnDisk
  /\ ReadersKeepTheirFile
  /\ WaitersHaveAJob
  /\ ResultIsWhole /\ OnlyWholeDumps
  /\ NothingLeaks

LEMMA InitInv == ServeInit => ServeInv
<1> SUFFICES ASSUME ServeInit PROVE ServeInv
  OBVIOUS
<1> USE DEF ServeInit, SnapshotInit, NoServe, NoGen, NoSession, NoMeta, Silence
<1>0. meta \in [file : Nat, counter : Nat] /\ meta.file <= meta.counter
  <2>1. meta.file = 0 /\ meta.counter = 0 /\ meta \in [file : Nat, counter : Nat]
    OBVIOUS
  <2>2. QED
    BY <2>1
<1>1. ServeTypeOK
  <2>1. SnapshotTypeOK
    BY <1>0 DEF SnapshotTypeOK, MetaStates
  <2>2. ServesOK(serves)
    BY DEF ServesOK
  <2>3. QED
    BY <2>1, <2>2 DEF ServeTypeOK, Jobs
<1>2. InUse(serves) = {}
  BY DEF InUse
<1>3. QED
  BY <1>1, <1>2 DEF ServeInv, LiveIsOnDisk, ReadersKeepTheirFile, WaitersHaveAJob, Waiters,
     ResultIsWhole, OnlyWholeDumps, NothingLeaks

(* Taking peers out of serves_ keeps its shape and frees nothing else.      *)
LEMMA WithoutFacts ==
  ASSUME ServesOK(serves), NEW gone \in SUBSET Peers
  PROVE  /\ ServesOK(Without(serves, gone))
         /\ InUse(Without(serves, gone)) \subseteq InUse(serves)
         /\ Waiters(Without(serves, gone)) \subseteq Waiters(serves)
         /\ Serving(Without(serves, gone)) = Serving(serves) \ gone
BY DEF Without, ServesOK, NoServe, NoGen, NoSession, InUse, Waiters, Serving

(* A job that is still wanted is not stopped, and none is started.          *)
LEMMA CancelFacts ==
  ASSUME job \in Jobs, NEW ss
  PROVE  /\ CancelIfUnwanted(job, ss) \in Jobs
         /\ CancelIfUnwanted(job, ss) = "none" <=> job = "none"
         /\ CancelIfUnwanted(job, ss) = "whole" <=> job = "whole"
BY DEF CancelIfUnwanted, Jobs

(* A step that only drops serves, prunes, and maybe stops the export.       *)
LEMMA DropStepInv ==
  ASSUME ServeInv, NEW gone \in SUBSET Peers,
         serves' = Without(serves, gone),
         disk' = PruneSnapshots(disk, serves') \/ (disk' = disk /\ serves' = serves),
         job' = CancelIfUnwanted(job, serves'),
         UnchangedSnapshot, UNCHANGED <<temp, leftover>>,
         sharing' \in BOOLEAN, limited' \subseteq Peers, lastSession' \in [Peers -> Nat],
         answered' \in [Peers -> [session : Nat, kind : {"none", "refused", "wait", "ready"}, file : Nat]]
  PROVE  ServeInv'
<1> USE DEF ServeInv, UnchangedSnapshot
<1>1. ServesOK(serves)
  BY DEF ServeTypeOK
<1>2. disk' \subseteq disk
  BY DEF PruneSnapshots, Pruned
<1>3. ServeTypeOK'
  <2>1. SnapshotTypeOK'
    BY <1>2 DEF SnapshotTypeOK, ServeTypeOK
  <2>2. ServesOK(serves)'
    BY <1>1, WithoutFacts DEF ServesOK
  <2>3. job' \in Jobs
    BY CancelFacts DEF ServeTypeOK
  <2>4. QED
    BY <2>1, <2>2, <2>3 DEF ServeTypeOK
<1>4. InUse(serves') \subseteq InUse(serves) /\ Waiters(serves') \subseteq Waiters(serves)
  BY <1>1, WithoutFacts
<1>5. LiveIsOnDisk' /\ ReadersKeepTheirFile' /\ NothingLeaks'
  BY <1>4 DEF LiveIsOnDisk, ReadersKeepTheirFile, NothingLeaks, PruneSnapshots, Pruned
<1>6. WaitersHaveAJob' /\ ResultIsWhole' /\ OnlyWholeDumps'
  BY <1>4, CancelFacts DEF WaitersHaveAJob, ResultIsWhole, OnlyWholeDumps, ServeTypeOK
<1>7. QED
  BY <1>3, <1>5, <1>6

LEMMA PeerLeavesInv ==
  ASSUME ServeInv, NEW p \in Peers, PeerLeaves(p)
  PROVE  ServeInv'
<1> USE DEF PeerLeaves, DropServe
<1>1. answered' \in [Peers -> [session : Nat, kind : {"none", "refused", "wait", "ready"}, file : Nat]]
  BY DEF ServeInv, ServeTypeOK, Silence, NoSession, NoGen
<1>2. QED
  BY <1>1, DropStepInv DEF ServeInv, ServeTypeOK

(* What a drop of p's older serve leaves, whether or not there was one.     *)
LEMMA SupersedeFacts ==
  ASSUME ServeInv, NEW p \in Peers
  PROVE  /\ ServesOK(Superseded(p))
         /\ Superseded(p)[p] = NoServe
         /\ \A q \in Peers \ {p} : Superseded(p)[q] = serves[q]
         /\ Waiters(Superseded(p)) \subseteq Waiters(serves)
         /\ DiskAfterSupersede(p) \subseteq disk
         /\ InUse(Superseded(p)) \subseteq DiskAfterSupersede(p)
         /\ live # NoGen => live \in DiskAfterSupersede(p)
         /\ DiskAfterSupersede(p) \subseteq {live} \union InUse(Superseded(p)) \union leftover
<1> USE DEF ServeInv
<1>1. ServesOK(serves)
  BY DEF ServeTypeOK
<1>2. /\ ServesOK(Superseded(p))
      /\ InUse(Superseded(p)) \subseteq InUse(serves)
      /\ Waiters(Superseded(p)) \subseteq Waiters(serves)
  BY <1>1, WithoutFacts DEF Superseded
<1>3. Superseded(p)[p] = NoServe /\ \A q \in Peers \ {p} : Superseded(p)[q] = serves[q]
  BY DEF Superseded, Without
<1>4. DiskAfterSupersede(p) \subseteq disk
  BY DEF DiskAfterSupersede, PruneSnapshots, Pruned
<1>5. /\ InUse(Superseded(p)) \subseteq DiskAfterSupersede(p)
      /\ live # NoGen => live \in DiskAfterSupersede(p)
  BY <1>2 DEF DiskAfterSupersede, PruneSnapshots, Pruned, ReadersKeepTheirFile, LiveIsOnDisk
<1>6. DiskAfterSupersede(p) \subseteq {live} \union InUse(Superseded(p)) \union leftover
  <2>1. CASE p \in Serving(serves)
    BY <2>1 DEF DiskAfterSupersede, PruneSnapshots, Pruned
  <2>2. CASE p \notin Serving(serves)
    <3>1. Superseded(p) = serves
      BY <1>1, <2>2 DEF Serving, ServesOK, Superseded, Without
    <3>2. QED
      BY <2>2, <3>1 DEF DiskAfterSupersede, NothingLeaks
  <2>3. QED
    BY <2>1, <2>2
<1>7. QED
  BY <1>2, <1>3, <1>4, <1>5, <1>6

(* The generation a request is served from at once is on disk.              *)
LEMMA ServableIsOnDisk ==
  ASSUME ServeInv, NEW p \in Peers, NEW have, ServableFile(p, have) # NoGen
  PROVE  ServableFile(p, have) \in DiskAfterSupersede(p) /\ ServableFile(p, have) \in Nat
<1>1. disk \subseteq Nat /\ live \in Nat
  BY DEF ServeInv, ServeTypeOK, SnapshotTypeOK
<1>2. DiskAfterSupersede(p) \subseteq disk /\ (live # NoGen => live \in DiskAfterSupersede(p))
  BY SupersedeFacts
<1>3. QED
  BY <1>1, <1>2 DEF ServableFile, PathForGeneration, NoGen

(* p is given a serve v, in a step that prunes no more than a superseded    *)
(* serve allows.                                                            *)
LEMMA GiveServeInv ==
  ASSUME ServeInv, NEW p \in Peers,
         NEW v \in [session : Nat, file : Nat, waiting : BOOLEAN, sending : BOOLEAN],
         v.session # NoSession, v.waiting # v.sending, v.sending <=> v.file # NoGen,
         v.sending => v.file \in DiskAfterSupersede(p),
         v.waiting => job' # "none",
         serves' = [serves EXCEPT ![p] = v], disk' = DiskAfterSupersede(p),
         job' \in Jobs, job' = "none" => job = "none", job' = "whole" => job = "whole" /\ temp' = temp,
         temp' \in {"none", "partial", "whole"},
         UnchangedSnapshot, UNCHANGED leftover,
         sharing' \in BOOLEAN, limited' \subseteq Peers, lastSession' \in [Peers -> Nat],
         answered' \in [Peers -> [session : Nat, kind : {"none", "refused", "wait", "ready"}, file : Nat]]
  PROVE  ServeInv'
<1> USE DEF ServeInv, UnchangedSnapshot
<1>1. ServesOK(serves) /\ ServesOK(Superseded(p))
  BY SupersedeFacts DEF ServeTypeOK
<1>2. ServeTypeOK'
  <2>1. SnapshotTypeOK'
    BY SupersedeFacts DEF SnapshotTypeOK, ServeTypeOK
  <2>2. ServesOK(serves)'
    BY <1>1 DEF ServesOK
  <2>3. QED
    BY <2>1, <2>2 DEF ServeTypeOK
<1>3. InUse(serves') = InUse(Superseded(p)) \union (IF v.sending THEN {v.file} ELSE {})
  <2>1. \A q \in Peers : serves'[q].file = IF q = p THEN v.file ELSE Superseded(p)[q].file
    BY <1>1, SupersedeFacts DEF ServesOK
  <2>2. Superseded(p)[p].file = NoGen
    BY SupersedeFacts DEF NoServe
  <2>3. v.file # NoGen <=> v.sending
    OBVIOUS
  <2>4. QED
    BY <2>1, <2>2, <2>3 DEF InUse
<1>4. LiveIsOnDisk' /\ ReadersKeepTheirFile' /\ NothingLeaks'
  BY <1>3, SupersedeFacts DEF LiveIsOnDisk, ReadersKeepTheirFile, NothingLeaks
<1>5. WaitersHaveAJob'
  BY <1>1 DEF WaitersHaveAJob, Waiters, ServesOK
<1>6. ResultIsWhole' /\ OnlyWholeDumps'
  BY DEF ResultIsWhole, OnlyWholeDumps
<1>7. QED
  BY <1>2, <1>4, <1>5, <1>6

(* handlePeerRequest() *)
LEMMA HandlePeerRequestInv ==
  ASSUME ServeInv, NEW p \in Peers, NEW s \in Nat \ {NoSession}, NEW have,
         NEW able \in BOOLEAN, NEW room \in BOOLEAN, NEW sent \in BOOLEAN,
         HandlePeerRequest(p, s, have, able, room, sent)
  PROVE  ServeInv'
<1> DEFINE g == ServableFile(p, have)
<1>1. /\ s \in Nat /\ s # NoSession /\ ServesOK(serves) /\ sharing \in BOOLEAN
      /\ job \in Jobs /\ temp \in {"none", "partial", "whole"}
      /\ limited \subseteq Peers /\ lastSession \in [Peers -> Nat]
      /\ answered \in [Peers -> [session : Nat, kind : {"none", "refused", "wait", "ready"}, file : Nat]]
  BY DEF ServeInv, ServeTypeOK, SnapshotTypeOK, NoSession
<1>2. /\ lastSession' \in [Peers -> Nat] /\ limited' \subseteq Peers /\ sharing' \in BOOLEAN
      /\ UnchangedSnapshot /\ UNCHANGED leftover
  BY <1>1 DEF HandlePeerRequest
<1>3. ASSUME NEW r \in {Refusal(s), ToldToWait(s)}, answered' = [answered EXCEPT ![p] = r]
      PROVE  answered' \in [Peers -> [session : Nat, kind : {"none", "refused", "wait", "ready"}, file : Nat]]
  BY <1>1, <1>3 DEF Refusal, ToldToWait, NoGen
<1>4. CASE UNCHANGED <<serves, disk, job, temp>> /\ answered' = [answered EXCEPT ![p] = Refusal(s)]
  BY <1>1, <1>2, <1>3, <1>4 DEF ServeInv, UnchangedSnapshot, ServeTypeOK, SnapshotTypeOK, LiveIsOnDisk,
     ReadersKeepTheirFile, WaitersHaveAJob, ResultIsWhole, OnlyWholeDumps, NothingLeaks
<1>5. CASE RefuseAfterDrop(p, s)
  <2>1. NoServe \in [session : Nat, file : Nat, waiting : BOOLEAN, sending : BOOLEAN]
    BY DEF NoServe, NoSession, NoGen
  <2>2. CASE p \in Serving(serves)
    <3>1. disk' = PruneSnapshots(disk, serves') /\ serves' = Without(serves, {p})
      BY <1>5, <2>2 DEF RefuseAfterDrop, DiskAfterSupersede, Superseded
    <3>0. ServesOK(Without(serves, {p}))
      BY <1>1, WithoutFacts
    <3>2. ServesOK(serves)' /\ disk' \subseteq disk
      <4>1. ServesOK(serves)'
        BY <3>0, <3>1 DEF ServesOK
      <4>2. disk' \subseteq disk
        BY <3>1 DEF PruneSnapshots, Pruned
      <4>3. QED
        BY <4>1, <4>2
    <3>3. InUse(serves') \subseteq InUse(serves) /\ Waiters(serves') \subseteq Waiters(serves)
      BY <1>1, <3>1, WithoutFacts
    <3>4. ServeTypeOK'
      BY <1>1, <1>2, <1>3, <1>5, <3>2 DEF RefuseAfterDrop, UnchangedSnapshot, ServeInv, ServeTypeOK, SnapshotTypeOK
    <3>5. LiveIsOnDisk' /\ ReadersKeepTheirFile' /\ NothingLeaks'
      BY <1>2, <3>1, <3>3 DEF ServeInv, UnchangedSnapshot, LiveIsOnDisk, ReadersKeepTheirFile, NothingLeaks,
         PruneSnapshots, Pruned
    <3>6. WaitersHaveAJob' /\ ResultIsWhole' /\ OnlyWholeDumps'
      BY <1>2, <1>5, <3>3 DEF ServeInv, UnchangedSnapshot, RefuseAfterDrop, WaitersHaveAJob, ResultIsWhole, OnlyWholeDumps
    <3>7. QED
      BY <3>4, <3>5, <3>6 DEF ServeInv
  <2>3. CASE p \notin Serving(serves)
    <3>1. Superseded(p) = serves
      BY <1>1, <2>3 DEF Serving, ServesOK, Superseded, Without
    <3>2. UNCHANGED <<serves, disk, job, temp>> /\ answered' = [answered EXCEPT ![p] = Refusal(s)]
      BY <1>5, <2>3, <3>1 DEF RefuseAfterDrop, DiskAfterSupersede
    <3>3. QED
      BY <3>2, <1>4
  <2>4. QED
    BY <2>2, <2>3
<1>6. CASE g # NoGen /\ OfferSnapshot(p, s, g, sent)
  <2>1. g \in DiskAfterSupersede(p) /\ g \in Nat
    BY <1>6, ServableIsOnDisk
  <2>2. answered' \in [Peers -> [session : Nat, kind : {"none", "refused", "wait", "ready"}, file : Nat]]
    BY <1>1, <1>6, <2>1 DEF OfferSnapshot, ToldReady
  <2>3. CASE sent
    <3>1. SendingServe(s, g) \in [session : Nat, file : Nat, waiting : BOOLEAN, sending : BOOLEAN]
      BY <1>1, <2>1 DEF SendingServe
    <3>2. QED
      BY <1>1, <1>2, <1>6, <2>1, <2>2, <2>3, <3>1, GiveServeInv DEF OfferSnapshot, SendingServe
  <2>4. CASE ~sent
    <3>1. /\ serves' = Superseded(p) /\ job' = CancelIfUnwanted(job, serves') /\ UNCHANGED temp
          /\ disk' = PruneSnapshots(DiskAfterSupersede(p), serves')
      BY <1>6, <2>4 DEF OfferSnapshot
    <3>2. disk' = PruneSnapshots(disk, serves')
      BY <3>1 DEF DiskAfterSupersede, PruneSnapshots, Pruned
    <3>3. serves' = Without(serves, {p}) /\ {p} \in SUBSET Peers
      BY <3>1 DEF Superseded
    <3>4. QED
      BY <1>2, <2>2, <3>1, <3>2, <3>3, DropStepInv
  <2>5. QED
    BY <2>3, <2>4
<1>7. CASE JoinWaiters(p, s)
  <2>1. WaitingServe(s) \in [session : Nat, file : Nat, waiting : BOOLEAN, sending : BOOLEAN]
    BY <1>1 DEF WaitingServe, NoGen
  <2>2. job' # "none" /\ job' \in Jobs /\ (job' = "whole" => job = "whole" /\ temp' = temp)
        /\ temp' \in {"none", "partial", "whole"}
    BY <1>1, <1>7 DEF JoinWaiters, EnsureSnapshotJob, Jobs
  <2>3. QED
    BY <1>1, <1>2, <1>3, <1>7, <2>1, <2>2, GiveServeInv DEF JoinWaiters, WaitingServe
<1>8. QED
  BY <1>4, <1>5, <1>6, <1>7 DEF HandlePeerRequest

-----------------------------------------------------------------------------
LEMMA WorkerEndsInv ==
  ASSUME ServeInv, NEW result \in {"whole", "failed"}, WorkerEnds(result)
  PROVE  ServeInv'
<1> USE DEF ServeInv, WorkerEnds
<1>1. ServeTypeOK'
  BY DEF ServeTypeOK, SnapshotTypeOK, ServesOK, Jobs
<1>2. LiveIsOnDisk' /\ ReadersKeepTheirFile' /\ NothingLeaks'
  BY DEF LiveIsOnDisk, ReadersKeepTheirFile, NothingLeaks
<1>3. WaitersHaveAJob' /\ ResultIsWhole' /\ OnlyWholeDumps'
  BY DEF WaitersHaveAJob, ResultIsWhole, OnlyWholeDumps
<1>4. QED
  BY <1>1, <1>2, <1>3

(* What onSnapshotFinished() makes of serves_ when the dump is published.   *)
LEMMA OfferFacts ==
  ASSUME ServesOK(serves), NEW unsent, NEW down, OfferToWaiters(unsent, down),
         live' \in Nat \ {NoGen},
         answered \in [Peers -> [session : Nat, kind : {"none", "refused", "wait", "ready"}, file : Nat]]
  PROVE  /\ ServesOK(serves)'
         /\ Waiters(serves') = {}
         /\ InUse(serves') \subseteq InUse(serves) \union {live'}
         /\ InUse(serves) \subseteq InUse(serves')
         /\ answered' \in [Peers -> [session : Nat, kind : {"none", "refused", "wait", "ready"}, file : Nat]]
<1> USE DEF ServesOK
<1>1. ASSUME NEW p \in Peers
      PROVE  /\ serves'[p] \in [session : Nat, file : Nat, waiting : BOOLEAN, sending : BOOLEAN]
             /\ serves'[p].session = NoSession => serves'[p] = NoServe
             /\ serves'[p].session # NoSession => serves'[p].waiting # serves'[p].sending
             /\ serves'[p].sending <=> serves'[p].file # NoGen
             /\ ~serves'[p].waiting
             /\ serves'[p].file \in {serves[p].file, live', NoGen}
             /\ serves[p].file # NoGen => serves'[p].file = serves[p].file
  <2>1. CASE ~serves[p].waiting
    BY <2>1 DEF OfferToWaiters
  <2>2. CASE serves[p].waiting
    <3>1. serves[p].file = NoGen /\ serves[p].session \in Nat /\ serves[p].session # NoSession
      BY <2>2 DEF NoServe
    <3>2. serves'[p] \in {NoServe, SendingServe(serves[p].session, live')}
      BY <2>2 DEF OfferToWaiters
    <3>3. CASE serves'[p] = NoServe
      BY <3>1, <3>3 DEF NoServe, NoGen, NoSession
    <3>4. CASE serves'[p] = SendingServe(serves[p].session, live')
      BY <3>1, <3>4 DEF SendingServe
    <3>5. QED
      BY <3>2, <3>3, <3>4
  <2>3. QED
    BY <2>1, <2>2
<1>2. ServesOK(serves)'
  BY <1>1 DEF OfferToWaiters
<1>3. Waiters(serves') = {} /\ InUse(serves') \subseteq InUse(serves) \union {live'}
  BY <1>1 DEF Waiters, InUse
<1>4. InUse(serves) \subseteq InUse(serves')
  BY <1>1 DEF InUse
<1>5. answered' \in [Peers -> [session : Nat, kind : {"none", "refused", "wait", "ready"}, file : Nat]]
  BY DEF OfferToWaiters, Refusal, ToldReady, NoGen
<1>6. QED
  BY <1>2, <1>3, <1>4, <1>5

(* What a publication leaves on file is a record, the new, the old or none. *)
LEMMA WrittenMeta ==
  ASSUME ServeInv, NEW write \in MetaWrites, Publish(write)
  PROVE  /\ meta' \in [file : Nat, counter : Nat] /\ meta'.file <= meta'.counter
         /\ write = "written" => meta' = [file |-> generation + 1, counter |-> generation + 1]
<1>1. /\ generation + 1 \in Nat /\ meta \in [file : Nat, counter : Nat] /\ meta.file <= meta.counter
      /\ meta' = PublishedMeta(generation + 1, write)
  BY DEF Publish, ServeInv, ServeTypeOK, SnapshotTypeOK
<1>2. CASE write = "written"
  <2>1. meta' = [file |-> generation + 1, counter |-> generation + 1]
    BY <1>1, <1>2 DEF PublishedMeta
  <2>2. meta' \in [file : Nat, counter : Nat] /\ meta'.file = generation + 1 /\ meta'.counter = generation + 1
    BY <1>1, <2>1
  <2>3. meta'.file <= meta'.counter
    BY <1>1, <2>2
  <2>4. QED
    BY <2>1, <2>2, <2>3
<1>3. CASE write = "unopened"
  BY <1>1, <1>3 DEF PublishedMeta
<1>4. CASE write = "torn"
  BY <1>1, <1>4 DEF PublishedMeta, NoMeta, NoGen
<1>5. QED
  BY <1>2, <1>3, <1>4 DEF MetaWrites

LEMMA SnapshotPublishedInv ==
  ASSUME ServeInv, NEW unsent, NEW down, NEW write \in MetaWrites,
         SnapshotPublished(unsent, down, write)
  PROVE  ServeInv'
<1> USE DEF ServeInv, SnapshotPublished, Publish
<1>1. live' = generation + 1 /\ live' \in Nat \ {NoGen} /\ ServesOK(serves)
  BY DEF ServeTypeOK, SnapshotTypeOK, NoGen
<1>2. /\ ServesOK(serves)' /\ Waiters(serves') = {}
      /\ InUse(serves') \subseteq InUse(serves) \union {live'}
      /\ InUse(serves) \subseteq InUse(serves')
      /\ answered' \in [Peers -> [session : Nat, kind : {"none", "refused", "wait", "ready"}, file : Nat]]
  BY <1>1, OfferFacts DEF ServeTypeOK
<1>3. ServeTypeOK'
  <2>0. meta' \in [file : Nat, counter : Nat] /\ meta'.file <= meta'.counter
    BY WrittenMeta
  <2>1. SnapshotTypeOK'
    <3>1. generation \in Nat /\ metaState' \in MetaStates
      BY DEF ServeTypeOK, SnapshotTypeOK, MetaStates
    <3>2. QED
      BY <1>1, <2>0, <3>1 DEF ServeTypeOK, SnapshotTypeOK, Pruned
  <2>2. QED
    BY <1>2, <2>1 DEF ServeTypeOK, Jobs
<1>4. LiveIsOnDisk' /\ ReadersKeepTheirFile' /\ NothingLeaks'
  BY <1>1, <1>2 DEF LiveIsOnDisk, ReadersKeepTheirFile, NothingLeaks, Pruned
<1>5. WaitersHaveAJob' /\ ResultIsWhole' /\ OnlyWholeDumps'
  BY <1>2 DEF WaitersHaveAJob, ResultIsWhole, OnlyWholeDumps
<1>6. QED
  BY <1>3, <1>4, <1>5

LEMMA SnapshotFailedInv ==
  ASSUME ServeInv, SnapshotFailed
  PROVE  ServeInv'
<1> USE DEF ServeInv, SnapshotFailed
<1> DEFINE gone == Waiters(serves)
<1>1. ServesOK(serves) /\ gone \in SUBSET Peers /\ serves' = Without(serves, gone)
  BY DEF ServeTypeOK, Waiters, DropWaiters
<1>2. /\ ServesOK(Without(serves, gone)) /\ InUse(serves') \subseteq InUse(serves)
      /\ Waiters(serves') \subseteq Waiters(serves)
  BY <1>1, WithoutFacts
<1>3. Waiters(serves') = {} /\ (gone = {} => serves' = serves)
  BY <1>1 DEF Waiters, Without, NoServe, ServesOK
<1>4. /\ temp' = "none" /\ generation' \in Nat /\ disk' \subseteq disk
      /\ UNCHANGED <<live, fresh, meta, named, halfWritten, metaState>>
  BY DEF ServeTypeOK, SnapshotTypeOK, DropWaiters, PruneSnapshots, Pruned
<1>5. ServeTypeOK'
  <2>1. SnapshotTypeOK'
    BY <1>4 DEF ServeTypeOK, SnapshotTypeOK
  <2>2. ServesOK(serves)'
    BY <1>1, <1>2 DEF ServesOK
  <2>3. QED
    BY <2>1, <2>2 DEF ServeTypeOK, Jobs, DropWaiters
<1>6. LiveIsOnDisk' /\ ReadersKeepTheirFile' /\ NothingLeaks'
  <2>1. CASE gone = {}
    BY <1>3, <1>4, <2>1 DEF DropWaiters, LiveIsOnDisk, ReadersKeepTheirFile, NothingLeaks
  <2>2. CASE gone # {}
    <3>1. disk' = Pruned(disk, live, InUse(serves'))
      BY <2>2 DEF DropWaiters, PruneSnapshots
    <3>2. QED
      BY <1>2, <1>4, <3>1 DEF Pruned, LiveIsOnDisk, ReadersKeepTheirFile, NothingLeaks
  <2>3. QED
    BY <2>1, <2>2
<1>7. WaitersHaveAJob' /\ ResultIsWhole' /\ OnlyWholeDumps'
  BY <1>3, <1>4 DEF WaitersHaveAJob, ResultIsWhole, OnlyWholeDumps
<1>8. QED
  BY <1>5, <1>6, <1>7

LEMMA RebuildSnapshotInv ==
  ASSUME ServeInv, RebuildSnapshot
  PROVE  ServeInv'
<1> USE DEF ServeInv, RebuildSnapshot, EnsureSnapshotJob, UnchangedSnapshot
<1>1. ServeTypeOK'
  BY DEF ServeTypeOK, SnapshotTypeOK, ServesOK, Jobs
<1>2. LiveIsOnDisk' /\ ReadersKeepTheirFile' /\ NothingLeaks'
  BY DEF LiveIsOnDisk, ReadersKeepTheirFile, NothingLeaks
<1>3. WaitersHaveAJob' /\ ResultIsWhole' /\ OnlyWholeDumps'
  BY DEF WaitersHaveAJob, ResultIsWhole, OnlyWholeDumps
<1>4. QED
  BY <1>1, <1>2, <1>3

(* A step that leaves the serves, the job, the files and the live name      *)
(* alone, whatever else of the state it changes within its type.            *)
LEMMA QuietStepInv ==
  ASSUME ServeInv, UNCHANGED <<generation, live, disk, temp, meta, named, halfWritten, metaState>>,
         UNCHANGED <<serves, job, lastSession, answered, leftover>>,
         fresh' \in BOOLEAN, sharing' \in BOOLEAN, limited' \subseteq Peers
  PROVE  ServeInv'
<1> USE DEF ServeInv
<1>1. ServeTypeOK'
  BY DEF ServeTypeOK, SnapshotTypeOK, ServesOK
<1>2. LiveIsOnDisk' /\ ReadersKeepTheirFile' /\ NothingLeaks'
  BY DEF LiveIsOnDisk, ReadersKeepTheirFile, NothingLeaks
<1>3. WaitersHaveAJob' /\ ResultIsWhole' /\ OnlyWholeDumps'
  BY DEF WaitersHaveAJob, ResultIsWhole, OnlyWholeDumps
<1>4. QED
  BY <1>1, <1>2, <1>3

LEMMA SetSharingEnabledInv ==
  ASSUME ServeInv, NEW enabled \in BOOLEAN, SetSharingEnabled(enabled)
  PROVE  ServeInv'
<1> USE DEF SetSharingEnabled
<1>1. /\ sharing' \in BOOLEAN /\ limited' \subseteq Peers /\ lastSession' \in [Peers -> Nat]
      /\ answered' \in [Peers -> [session : Nat, kind : {"none", "refused", "wait", "ready"}, file : Nat]]
      /\ UnchangedSnapshot /\ UNCHANGED <<temp, leftover>>
  BY DEF ServeInv, ServeTypeOK
<1>2. CASE enabled
  BY <1>1, <1>2, QuietStepInv DEF UnchangedSnapshot, ServeInv, ServeTypeOK, SnapshotTypeOK
<1>3. CASE ~enabled
  <2>1. serves' = Without(serves, Peers) /\ Peers \in SUBSET Peers /\ job' = CancelIfUnwanted(job, serves')
    BY <1>3
  <2>2. disk' = PruneSnapshots(disk, serves') \/ (disk' = disk /\ serves' = serves)
    <3>1. CASE Serving(serves) # {}
      BY <1>3, <3>1
    <3>2. CASE Serving(serves) = {}
      <4>1. ServesOK(serves)
        BY DEF ServeInv, ServeTypeOK
      <4>2. Without(serves, Peers) = serves
        BY <3>2, <4>1 DEF Serving, Without, ServesOK
      <4>3. QED
        BY <1>3, <3>2, <4>2
    <3>3. QED
      BY <3>1, <3>2
  <2>3. QED
    BY <1>1, <2>1, <2>2, DropStepInv
<1>4. QED
  BY <1>2, <1>3

(* A new process that recovers from any metadata, in any directory.         *)
LEMMA NewProcessInv ==
  ASSUME ServeInv, NEW m, NEW onDisk, NEW agrees \in BOOLEAN, LoadFrom(m, onDisk, agrees), NewProcess,
         m \in [file : Nat, counter : Nat], m.file <= m.counter, onDisk \subseteq Nat \ {NoGen},
         UNCHANGED <<named, halfWritten>>, temp' \in {"none", "partial", "whole"}
  PROVE  ServeInv'
<1> USE DEF ServeInv, NewProcess, LoadFrom
<1>1. InUse(serves') = {} /\ Waiters(serves') = {}
  BY DEF InUse, Waiters, NoServe
<1>2. ServeTypeOK'
  <2>0. meta' \in [file : Nat, counter : Nat] /\ meta'.file <= meta'.counter
    <3>1. NoMeta \in [file : Nat, counter : Nat] /\ NoMeta.file = 0 /\ NoMeta.counter = 0
      BY DEF NoMeta, NoGen
    <3>2. QED
      BY <3>1
  <2>1. SnapshotTypeOK'
    BY <2>0 DEF ServeTypeOK, SnapshotTypeOK, NoGen, MetaStates
  <2>2. ServesOK(serves)'
    BY DEF ServesOK, NoServe, NoSession, NoGen
  <2>3. leftover' \subseteq Nat
    BY <2>1 DEF SnapshotTypeOK
  <2>4. answered' \in [Peers -> [session : Nat, kind : {"none", "refused", "wait", "ready"}, file : Nat]]
    BY DEF Silence, NoSession, NoGen
  <2>5. QED
    BY <2>1, <2>2, <2>3, <2>4 DEF ServeTypeOK, Jobs
<1>3. LiveIsOnDisk'
  BY DEF LiveIsOnDisk
<1>4. ReadersKeepTheirFile' /\ NothingLeaks'
  BY <1>1 DEF ReadersKeepTheirFile, NothingLeaks
<1>5. WaitersHaveAJob' /\ ResultIsWhole' /\ OnlyWholeDumps'
  BY <1>1 DEF WaitersHaveAJob, ResultIsWhole, OnlyWholeDumps
<1>6. QED
  BY <1>2, <1>3, <1>4, <1>5

LEMMA ServeRestartInv ==
  ASSUME ServeInv, NEW agrees \in BOOLEAN, ServeRestart(agrees)
  PROVE  ServeInv'
<1>1. /\ meta \in [file : Nat, counter : Nat] /\ meta.file <= meta.counter /\ disk \subseteq Nat \ {NoGen}
      /\ temp \in {"none", "partial", "whole"}
  BY DEF ServeInv, ServeTypeOK, SnapshotTypeOK
<1>2. QED
  BY <1>1, NewProcessInv DEF ServeRestart, Restart

LEMMA DiesInsideCommitInv ==
  ASSUME ServeInv, NEW truncated \in BOOLEAN, DiesInsideCommit(truncated)
  PROVE  ServeInv'
<1> DEFINE m == IF truncated THEN NoMeta ELSE meta
           onDisk == disk \union {generation + 1}
<1>1. m \in [file : Nat, counter : Nat] /\ m.file <= m.counter
  <2>1. NoMeta \in [file : Nat, counter : Nat] /\ NoMeta.file = 0 /\ NoMeta.counter = 0
    BY DEF NoMeta, NoGen
  <2>2. QED
    BY <2>1 DEF ServeInv, ServeTypeOK, SnapshotTypeOK
<1>2. onDisk \subseteq Nat \ {NoGen}
  BY DEF ServeInv, ServeTypeOK, SnapshotTypeOK, NoGen
<1>3. LoadFrom(m, onDisk, TRUE) /\ NewProcess /\ UNCHANGED <<named, halfWritten>> /\ temp' = "none"
  BY DEF DiesInsideCommit, RestartInsideCommit
<1> HIDE DEF m, onDisk
<1>4. QED
  BY <1>1, <1>2, <1>3, NewProcessInv

-----------------------------------------------------------------------------
(* No step of the serving lane breaks the invariant.                        *)
LEMMA NextInv ==
  ASSUME ServeInv, [Next]_vars
  PROVE  ServeInv'
<1>1. ASSUME NEW p \in Peers, PeerStep(p) PROVE ServeInv'
  <2>1. ASSUME NEW have \in {NoGen} \union disk, NEW able \in BOOLEAN, NEW room \in BOOLEAN,
               NEW sent \in BOOLEAN,
               HandlePeerRequest(p, lastSession[p] + 1, have, able, room, sent)
        PROVE  ServeInv'
    <3>1. lastSession[p] + 1 \in Nat \ {NoSession}
      BY DEF ServeInv, ServeTypeOK, NoSession
    <3>2. QED
      BY <2>1, <3>1, HandlePeerRequestInv
  <2>2. CASE PeerLeaves(p)
    BY <2>2, PeerLeavesInv
  <2>3. CASE RequestIntervalPasses(p)
    BY <2>3, QuietStepInv DEF RequestIntervalPasses, snapshotVars, ServeInv, ServeTypeOK, SnapshotTypeOK
  <2>4. QED
    BY <1>1, <2>1, <2>2, <2>3 DEF PeerStep, HandlePeerCancel, OnPeerDisconnected, OnTransferFinished
<1>2. CASE SnapshotStep
  BY <1>2, WorkerEndsInv, SnapshotPublishedInv, SnapshotFailedInv DEF SnapshotStep, OnSnapshotFinished
<1>3. CASE RebuildSnapshot
  BY <1>3, RebuildSnapshotInv
<1>4. ASSUME NEW enabled \in BOOLEAN, SetSharingEnabled(enabled) PROVE ServeInv'
  BY <1>4, SetSharingEnabledInv
<1>5. CASE IndexDrifts
  BY <1>5, QuietStepInv DEF IndexDrifts, Drift, serveVars, ServeInv, ServeTypeOK, SnapshotTypeOK
<1>6. ASSUME NEW agrees \in BOOLEAN, ServeRestart(agrees) PROVE ServeInv'
  BY <1>6, ServeRestartInv
<1>9. ASSUME NEW truncated \in BOOLEAN, DiesInsideCommit(truncated) PROVE ServeInv'
  BY <1>9, DiesInsideCommitInv
<1>7. CASE UNCHANGED vars
  BY <1>7, QuietStepInv DEF vars, snapshotVars, serveVars, ServeInv, ServeTypeOK, SnapshotTypeOK
<1>8. QED
  BY <1>1, <1>2, <1>3, <1>4, <1>5, <1>6, <1>7, <1>9 DEF Next

(* The invariant holds in every state the lane reaches.                     *)
THEOREM ServeInvariant == Spec => []ServeInv
<1>1. QED
  BY InitInv, NextInv, PTL DEF Spec

(* Type correctness: a serve waits or sends, and never both or neither.     *)
THEOREM ServeTypeCorrect == Spec => []ServeTypeOK
<1>1. ServeInv => ServeTypeOK
  BY DEF ServeInv
<1>2. QED
  BY <1>1, ServeInvariant, PTL

(* No prune, publication, restart or drop takes a file from under a reader. *)
THEOREM ReadersAreSafe == Spec => []ReadersKeepTheirFile
<1>1. ServeInv => ReadersKeepTheirFile
  BY DEF ServeInv
<1>2. QED
  BY <1>1, ServeInvariant, PTL

(* The file new peers are sent to is never missing.                         *)
THEOREM LiveFileIsThere == Spec => []LiveIsOnDisk
<1>1. ServeInv => LiveIsOnDisk
  BY DEF ServeInv
<1>2. QED
  BY <1>1, ServeInvariant, PTL

(* A peer told to wait is always waiting for an export that will end.       *)
THEOREM WaitersAreServedByAJob == Spec => []WaitersHaveAJob
<1>1. ServeInv => WaitersHaveAJob
  BY DEF ServeInv
<1>2. QED
  BY <1>1, ServeInvariant, PTL

(* Nothing but complete exports is ever published.                          *)
THEOREM PublishedDumpsAreWhole == Spec => []OnlyWholeDumps
<1>1. ServeInv => OnlyWholeDumps
  BY DEF ServeInv
<1>2. QED
  BY <1>1, ServeInvariant, PTL

(* Superseded dumps do not accumulate while the process runs.               *)
THEOREM SupersededDumpsGo == Spec => []NothingLeaks
<1>1. ServeInv => NothingLeaks
  BY DEF ServeInv
<1>2. QED
  BY <1>1, ServeInvariant, PTL

-----------------------------------------------------------------------------
(* A step that admits nobody keeps the number of slots taken within bounds. *)
LEMMA NobodyAdmitted ==
  ASSUME SlotLimit, Serving(serves') \subseteq Serving(serves)
  PROVE  SlotLimit'
<1>1. IsFiniteSet(Serving(serves))
  BY ServeAssumption, FS_Subset DEF Serving
<1>2. Cardinality(Serving(serves')) <= Cardinality(Serving(serves))
  BY <1>1, FS_Subset
<1>3. /\ Cardinality(Serving(serves')) \in Nat /\ Cardinality(Serving(serves)) \in Nat
      /\ MaxServes \in Nat
  BY <1>1, ServeAssumption, FS_Subset, FS_CardinalityType
<1>4. QED
  BY <1>2, <1>3 DEF SlotLimit

(* A peer admitted when the other serves leave a slot takes that slot.      *)
LEMMA OneAdmitted ==
  ASSUME NEW p \in Peers, ~Busy(p), Serving(serves') \subseteq Serving(Superseded(p)) \union {p}
  PROVE  SlotLimit'
<1> DEFINE others == Serving(Superseded(p))
<1>1. IsFiniteSet(others) /\ Cardinality(others) \in Nat
  BY ServeAssumption, FS_Subset, FS_CardinalityType DEF Serving
<1>2. Cardinality(others) < MaxServes
  BY <1>1, ServeAssumption DEF Busy
<1>3. IsFiniteSet(others \union {p}) /\ Cardinality(others \union {p}) <= Cardinality(others) + 1
  <2>1. /\ IsFiniteSet(others \union {p})
        /\ Cardinality(others \union {p}) \in {Cardinality(others), Cardinality(others) + 1}
    BY <1>1, FS_AddElement
  <2>2. QED
    BY <1>1, <2>1
<1>4. /\ Cardinality(Serving(serves')) <= Cardinality(others \union {p})
      /\ Cardinality(Serving(serves')) \in Nat
      /\ Cardinality(others \union {p}) \in Nat
  BY <1>3, FS_Subset, FS_CardinalityType
<1>5. QED
  BY <1>1, <1>2, <1>3, <1>4, ServeAssumption DEF SlotLimit

LEMMA SlotLimitStep ==
  ASSUME ServeInv, SlotLimit, [Next]_vars
  PROVE  SlotLimit'
<1>0. ServesOK(serves)
  BY DEF ServeInv, ServeTypeOK
<1>1. ASSUME NEW p \in Peers, PeerStep(p) PROVE SlotLimit'
  <2>1. ASSUME NEW have, NEW able, NEW room, NEW sent,
               HandlePeerRequest(p, lastSession[p] + 1, have, able, room, sent)
        PROVE  SlotLimit'
    <3>1. Serving(Superseded(p)) \subseteq Serving(serves)
      BY <1>0, WithoutFacts DEF Superseded
    <3>2. CASE Serving(serves') \subseteq Serving(serves)
      BY <3>2, NobodyAdmitted
    <3>3. CASE serves' = Superseded(p)
      BY <3>1, <3>3, NobodyAdmitted
    <3>4. ASSUME ~Busy(p), NEW v, serves' = [serves EXCEPT ![p] = v] PROVE SlotLimit'
      <4>1. \A q \in Peers \ {p} : serves'[q] = Superseded(p)[q]
        BY <1>0, <3>4 DEF Superseded, Without, ServesOK
      <4>2. Serving(serves') \subseteq Serving(Superseded(p)) \union {p}
        BY <4>1 DEF Serving
      <4>3. QED
        BY <3>4, <4>2, OneAdmitted
    <3>5. QED
      BY <2>1, <3>2, <3>3, <3>4 DEF HandlePeerRequest, RefuseAfterDrop, OfferSnapshot, JoinWaiters
  <2>2. CASE PeerLeaves(p)
    <3>1. Serving(serves') \subseteq Serving(serves)
      BY <1>0, <2>2, WithoutFacts DEF PeerLeaves, DropServe
    <3>2. QED
      BY <3>1, NobodyAdmitted
  <2>3. CASE RequestIntervalPasses(p)
    BY <2>3, NobodyAdmitted DEF RequestIntervalPasses
  <2>4. QED
    BY <1>1, <2>1, <2>2, <2>3 DEF PeerStep, HandlePeerCancel, OnPeerDisconnected, OnTransferFinished
<1>2. CASE SnapshotStep
  <2>1. ASSUME NEW unsent, NEW down, OfferToWaiters(unsent, down) PROVE Serving(serves') \subseteq Serving(serves)
    BY <1>0, <2>1 DEF OfferToWaiters, Serving, SendingServe, NoServe, NoSession, ServesOK
  <2>2. ASSUME DropWaiters PROVE Serving(serves') \subseteq Serving(serves)
    BY <1>0, <2>2, WithoutFacts DEF DropWaiters, Waiters
  <2>3. ASSUME NEW result, WorkerEnds(result) PROVE Serving(serves') \subseteq Serving(serves)
    BY <2>3 DEF WorkerEnds
  <2>4. QED
    BY <1>2, <2>1, <2>2, <2>3, NobodyAdmitted DEF SnapshotStep, OnSnapshotFinished, SnapshotPublished, SnapshotFailed
<1>3. CASE RebuildSnapshot
  BY <1>3, NobodyAdmitted DEF RebuildSnapshot
<1>4. ASSUME NEW enabled \in BOOLEAN, SetSharingEnabled(enabled) PROVE SlotLimit'
  <2>1. Serving(Without(serves, Peers)) \subseteq Serving(serves)
    BY <1>0, WithoutFacts
  <2>2. QED
    BY <1>4, <2>1, NobodyAdmitted DEF SetSharingEnabled
<1>5. CASE IndexDrifts
  BY <1>5, NobodyAdmitted DEF IndexDrifts, serveVars
<1>6. ASSUME NewProcess PROVE SlotLimit'
  <2>1. Serving(serves') \subseteq Serving(serves)
    BY <1>6 DEF NewProcess, Serving, NoServe, NoSession
  <2>2. QED
    BY <2>1, NobodyAdmitted
<1>7. CASE UNCHANGED vars
  BY <1>7, NobodyAdmitted DEF vars, serveVars
<1>8. QED
  BY <1>1, <1>2, <1>3, <1>4, <1>5, <1>6, <1>7 DEF Next, ServeRestart, DiesInsideCommit

(* Never more than kMaxConcurrentServes peers hold a slot: every request    *)
(* that supersedes, waits, is offered or is refused leaves room for none    *)
(* beyond the limit.                                                        *)
THEOREM SlotsAreBounded == Spec => []SlotLimit
<1>1. ServeInit => SlotLimit
  <2>1. SUFFICES ASSUME ServeInit PROVE SlotLimit
    OBVIOUS
  <2>2. Serving(serves) = {}
    BY <2>1 DEF ServeInit, Serving, NoServe, NoSession
  <2>3. QED
    BY <2>2, FS_EmptySet, ServeAssumption DEF SlotLimit
<1>2. QED
  BY <1>1, SlotLimitStep, ServeInvariant, PTL DEF Spec

-----------------------------------------------------------------------------
(* The counter is past every name ever live; so is the one on file, if the  *)
(* last publication could write it.                                         *)
NamesCounted ==
  \/ metaState = "lost"
  \/ metaState = "behind" /\ \A g \in named : g <= generation
  \/ metaState = "current" /\ \A g \in named : g <= generation /\ (meta = NoMeta \/ g <= meta.counter)

(* Recovery from the metadata on file, or from none, keeps the count or is  *)
(* recorded as having lost it.                                              *)
LEMMA LoadKeepsCount ==
  ASSUME ServeInv, NamesCounted, NEW m \in {meta, NoMeta}, NEW onDisk, NEW agrees,
         LoadFrom(m, onDisk, agrees), UNCHANGED named
  PROVE  NamesCounted'
<1>1. CASE m = NoMeta
  BY <1>1 DEF LoadFrom, NamesCounted
<1>2. CASE m = meta /\ m # NoMeta
  BY <1>2 DEF LoadFrom, NamesCounted
<1>3. QED
  BY <1>1, <1>2

LEMMA NamesCountedStep ==
  ASSUME ServeInv, NamesCounted, [Next]_vars
  PROVE  NamesCounted'
<1>0. generation \in Nat /\ named \subseteq Nat /\ meta \in [file : Nat, counter : Nat]
  BY DEF ServeInv, ServeTypeOK, SnapshotTypeOK
<1>1. ASSUME UNCHANGED <<named, meta, metaState>>, generation' \in {generation, generation + 1}
      PROVE  NamesCounted'
  BY <1>0, <1>1 DEF NamesCounted
<1>2. ASSUME NEW write \in MetaWrites, Publish(write) PROVE NamesCounted'
  <2>1. /\ generation' = generation + 1 /\ named' = named \union {generation + 1}
        /\ metaState' = IF metaState = "lost" THEN "lost"
                        ELSE IF write = "written" THEN "current" ELSE "behind"
    BY <1>2 DEF Publish
  <2>2. write = "written" => meta'.counter = generation + 1
    BY <1>2, WrittenMeta
  <2>3. metaState = "lost" \/ \A g \in named : g \in Nat /\ g <= generation
    BY <1>0 DEF NamesCounted
  <2>4. metaState = "lost" \/ \A g \in named' : g <= generation + 1
    BY <1>0, <2>1, <2>3
  <2>5. QED
    BY <2>1, <2>2, <2>4 DEF NamesCounted
<1>3. ASSUME NEW p \in Peers, PeerStep(p) PROVE NamesCounted'
  BY <1>1, <1>3 DEF PeerStep, HandlePeerRequest, UnchangedSnapshot, HandlePeerCancel, OnPeerDisconnected,
     OnTransferFinished, PeerLeaves, RequestIntervalPasses, snapshotVars
<1>4. CASE SnapshotStep
  <2>1. ASSUME NEW unsent, NEW down, NEW write \in MetaWrites, SnapshotPublished(unsent, down, write)
        PROVE  NamesCounted'
    BY <1>2, <2>1 DEF SnapshotPublished
  <2>2. QED
    BY <1>1, <1>4, <2>1 DEF SnapshotStep, WorkerEnds, OnSnapshotFinished, SnapshotFailed
<1>5. CASE RebuildSnapshot \/ \E enabled \in BOOLEAN : SetSharingEnabled(enabled)
  BY <1>1, <1>5 DEF RebuildSnapshot, SetSharingEnabled, UnchangedSnapshot
<1>6. CASE IndexDrifts \/ UNCHANGED vars
  BY <1>1, <1>6 DEF IndexDrifts, Drift, vars, snapshotVars
<1>7. ASSUME NEW agrees \in BOOLEAN, ServeRestart(agrees) PROVE NamesCounted'
  BY <1>7, LoadKeepsCount DEF ServeRestart, Restart
<1>8. ASSUME NEW truncated \in BOOLEAN, DiesInsideCommit(truncated) PROVE NamesCounted'
  BY <1>8, LoadKeepsCount DEF DiesInsideCommit, RestartInsideCommit
<1>9. QED
  BY <1>3, <1>4, <1>5, <1>6, <1>7, <1>8 DEF Next

(* The counter survives every crash and restart past every name ever live,  *)
(* unless a restart counted on from a file the last publication had failed  *)
(* to write, or that was gone.                                              *)
THEOREM NamesAreCounted == Spec => []CounterCoversNames
<1>1. ServeInit => NamesCounted
  BY DEF ServeInit, SnapshotInit, NamesCounted
<1>2. NamesCounted => CounterCoversNames
  BY DEF NamesCounted, CounterCoversNames, CounterResumes
<1>3. QED
  BY <1>1, <1>2, NamesCountedStep, ServeInvariant, PTL DEF Spec

-----------------------------------------------------------------------------
(* What any step does to q's serve: leave it, end it, decide about it while *)
(* it waits, or open a session q never used before.                         *)
Unchanged(q) == serves'[q] = serves[q] /\ lastSession'[q] \in {lastSession[q], lastSession[q] + 1}
Ended(q) == serves'[q].session = NoSession /\ lastSession'[q] \in {lastSession[q], lastSession[q] + 1}
Decided(q) == /\ serves[q].waiting /\ serves'[q].session = serves[q].session
              /\ lastSession'[q] = lastSession[q]
Opened(q) == /\ serves'[q].session = lastSession[q] + 1
             /\ lastSession'[q] = lastSession[q] + 1
ServeMoves(q) == Unchanged(q) \/ Ended(q) \/ Decided(q) \/ Opened(q)

LEMMA EveryStepMoves ==
  ASSUME ServeInv, [Next]_vars, NEW q \in Peers
  PROVE  ServeMoves(q)
<1> USE DEF ServeMoves, Unchanged, Ended
<1>0. ServesOK(serves) /\ lastSession \in [Peers -> Nat]
  BY DEF ServeInv, ServeTypeOK
<1>a. ASSUME NEW gone, serves' = Without(serves, gone), UNCHANGED lastSession PROVE ServeMoves(q)
  BY <1>a DEF Without, NoServe
<1>b. ASSUME UNCHANGED <<serves, lastSession>> PROVE ServeMoves(q)
  BY <1>b
<1>1. ASSUME NEW p \in Peers, PeerStep(p) PROVE ServeMoves(q)
  <2>1. ASSUME NEW have, NEW able, NEW room, NEW sent,
               HandlePeerRequest(p, lastSession[p] + 1, have, able, room, sent)
        PROVE  ServeMoves(q)
    <3>1. lastSession' = [lastSession EXCEPT ![p] = lastSession[p] + 1]
      BY <2>1 DEF HandlePeerRequest
    <3>2. lastSession'[q] \in {lastSession[q], lastSession[q] + 1}
      BY <1>0, <3>1
    <3>3. CASE serves' = serves \/ serves' = Superseded(p)
      BY <3>2, <3>3 DEF Superseded, Without, NoServe
    <3>4. ASSUME NEW v, serves' = [serves EXCEPT ![p] = v], v.session = lastSession[p] + 1
          PROVE  ServeMoves(q)
      <4>1. CASE q = p
        BY <1>0, <3>1, <3>4, <4>1 DEF ServesOK, Opened
      <4>2. CASE q # p
        BY <1>0, <3>2, <3>4, <4>2 DEF ServesOK
      <4>3. QED
        BY <4>1, <4>2
    <3>5. \A g : /\ SendingServe(lastSession[p] + 1, g).session = lastSession[p] + 1
                 /\ WaitingServe(lastSession[p] + 1).session = lastSession[p] + 1
      BY DEF SendingServe, WaitingServe
    <3>6. QED
      BY <2>1, <3>3, <3>4, <3>5 DEF HandlePeerRequest, RefuseAfterDrop, OfferSnapshot, JoinWaiters
  <2>2. CASE PeerLeaves(p)
    BY <2>2, <1>a DEF PeerLeaves, DropServe
  <2>3. CASE RequestIntervalPasses(p)
    BY <2>3, <1>b DEF RequestIntervalPasses
  <2>4. QED
    BY <1>1, <2>1, <2>2, <2>3 DEF PeerStep, HandlePeerCancel, OnPeerDisconnected, OnTransferFinished
<1>2. CASE SnapshotStep
  <2>1. ASSUME NEW unsent, NEW down, NEW write, SnapshotPublished(unsent, down, write) PROVE ServeMoves(q)
    <3>1. OfferToWaiters(unsent, down) /\ UNCHANGED lastSession
      BY <2>1 DEF SnapshotPublished
    <3>2. CASE ~serves[q].waiting
      BY <3>1, <3>2 DEF OfferToWaiters
    <3>3. CASE serves[q].waiting
      BY <3>1, <3>3 DEF OfferToWaiters, SendingServe, NoServe, Decided
    <3>4. QED
      BY <3>2, <3>3
  <2>2. ASSUME SnapshotFailed PROVE ServeMoves(q)
    BY <2>2, <1>a DEF SnapshotFailed, DropWaiters
  <2>3. ASSUME NEW result, WorkerEnds(result) PROVE ServeMoves(q)
    BY <2>3, <1>b DEF WorkerEnds
  <2>4. QED
    BY <1>2, <2>1, <2>2, <2>3 DEF SnapshotStep, OnSnapshotFinished
<1>3. CASE RebuildSnapshot
  BY <1>3, <1>b DEF RebuildSnapshot
<1>4. ASSUME NEW enabled \in BOOLEAN, SetSharingEnabled(enabled) PROVE ServeMoves(q)
  BY <1>4, <1>a, <1>b DEF SetSharingEnabled
<1>5. CASE IndexDrifts
  BY <1>5, <1>b DEF IndexDrifts, serveVars
<1>6. ASSUME NewProcess PROVE ServeMoves(q)
  BY <1>6 DEF NewProcess, NoServe
<1>7. CASE UNCHANGED vars
  BY <1>7, <1>b DEF vars, serveVars
<1>8. QED
  BY <1>1, <1>2, <1>3, <1>4, <1>5, <1>6, <1>7 DEF Next, ServeRestart, DiesInsideCommit

(* No serve is of a session its peer has not opened yet.                    *)
SessionsKnown == \A q \in Peers : serves[q].session <= lastSession[q]

LEMMA SessionsKnownStep ==
  ASSUME ServeInv, SessionsKnown, [Next]_vars
  PROVE  SessionsKnown'
<1>1. /\ \A q \in Peers : lastSession[q] \in Nat /\ serves[q].session \in Nat
      /\ \A q \in Peers : ServeMoves(q)
  BY EveryStepMoves DEF ServeInv, ServeTypeOK, ServesOK
<1>2. QED
  BY <1>1 DEF SessionsKnown, ServeMoves, Unchanged, Ended, Decided, Opened, NoSession

(* A transfer under way is never redirected to another generation: every    *)
(* step leaves a sending serve alone, or ends it, or opens a later session. *)
THEOREM TransfersKeepTheirDump == Spec => OneDumpPerSession
<1> DEFINE Kept(q) == serves[q].sending /\ serves'[q].session = serves[q].session
                        => serves'[q] = serves[q]
<1>1. ServeInit => SessionsKnown
  BY DEF ServeInit, SessionsKnown, NoServe, NoSession
<1>2. ASSUME ServeInv, SessionsKnown, [Next]_vars, NEW q \in Peers PROVE Kept(q)
  <2>1. /\ ServeMoves(q) /\ lastSession[q] \in Nat /\ serves[q].session \in Nat
        /\ serves[q].sending => serves[q].session # NoSession /\ ~serves[q].waiting
    BY <1>2, EveryStepMoves DEF ServeInv, ServeTypeOK, ServesOK, NoServe, NoSession
  <2>2. serves[q].session <= lastSession[q]
    BY <1>2 DEF SessionsKnown
  <2>3. QED
    BY <2>1, <2>2 DEF ServeMoves, Unchanged, Ended, Decided, Opened
<1>3. ServeInv /\ SessionsKnown /\ [Next]_vars =>
        [\A p \in Peers :
           serves[p].sending /\ serves'[p].session = serves[p].session => serves'[p] = serves[p]]_vars
  BY <1>2
<1>4. QED
  BY <1>1, <1>3, ServeInvariant, SessionsKnownStep, PTL DEF Spec, OneDumpPerSession

-----------------------------------------------------------------------------
(* The answer of a peer that is sent a dump names that dump.                *)
NamedTo(q) ==
  serves[q].sending /\ answered[q].session = serves[q].session
    => answered[q] = ToldReady(serves[q].session, serves[q].file)

LEMMA AnswerStep ==
  ASSUME ServeInv, SessionsKnown, AnswerNamesTheFile, [Next]_vars, NEW q \in Peers
  PROVE  NamedTo(q)'
<1> USE DEF NamedTo
<1>0. /\ ServesOK(serves) /\ NamedTo(q)
      /\ lastSession \in [Peers -> Nat] /\ serves[q].session <= lastSession[q]
      /\ answered \in [Peers -> [session : Nat, kind : {"none", "refused", "wait", "ready"}, file : Nat]]
  BY DEF ServeInv, ServeTypeOK, SessionsKnown, AnswerNamesTheFile
<1>a. ASSUME NEW gone, serves' = Without(serves, gone), q \in gone \/ answered'[q] = answered[q]
      PROVE  NamedTo(q)'
  BY <1>0, <1>a DEF Without, NoServe
<1>b. ASSUME UNCHANGED <<serves, answered>> PROVE NamedTo(q)'
  BY <1>0, <1>b
<1>1. ASSUME NEW p \in Peers, PeerStep(p) PROVE NamedTo(q)'
  <2>1. ASSUME NEW have, NEW able, NEW room, NEW sent,
               HandlePeerRequest(p, lastSession[p] + 1, have, able, room, sent)
        PROVE  NamedTo(q)'
    <3> DEFINE s == lastSession[p] + 1
    <3>1. ASSUME NEW a, serves' = Superseded(p), answered' = [answered EXCEPT ![p] = a]
          PROVE  NamedTo(q)'
      BY <1>0, <1>a, <3>1 DEF Superseded
    <3>2. CASE serves' = serves /\ answered' = [answered EXCEPT ![p] = Refusal(s)]
      <4>1. CASE q = p
        <5>1. answered'[q].session = s /\ s # serves'[q].session
          BY <1>0, <3>2, <4>1 DEF Refusal, ServesOK
        <5>2. QED
          BY <5>1
      <4>2. CASE q # p
        BY <1>0, <3>2, <4>2
      <4>3. QED
        BY <4>1, <4>2
    <3>3. ASSUME NEW v, NEW a, serves' = [serves EXCEPT ![p] = v], answered' = [answered EXCEPT ![p] = a],
                 v.sending => a = ToldReady(v.session, v.file)
          PROVE  NamedTo(q)'
      <4>1. CASE q = p
        BY <1>0, <3>3, <4>1 DEF ServesOK
      <4>2. CASE q # p
        BY <1>0, <3>3, <4>2 DEF ServesOK
      <4>3. QED
        BY <4>1, <4>2
    <3>4. \A g : OfferSnapshot(p, s, g, sent) => NamedTo(q)'
      BY <3>1, <3>3 DEF OfferSnapshot, SendingServe
    <3>5. JoinWaiters(p, s) => NamedTo(q)'
      BY <3>3 DEF JoinWaiters, WaitingServe
    <3>6. RefuseAfterDrop(p, s) => NamedTo(q)'
      BY <3>1 DEF RefuseAfterDrop
    <3>7. QED
      BY <2>1, <3>2, <3>4, <3>5, <3>6 DEF HandlePeerRequest
  <2>2. CASE PeerLeaves(p)
    <3>1. q \in {p} \/ answered'[q] = answered[q]
      BY <1>0, <2>2 DEF PeerLeaves
    <3>2. QED
      BY <2>2, <1>a, <3>1 DEF PeerLeaves, DropServe
  <2>3. CASE RequestIntervalPasses(p)
    BY <2>3, <1>b DEF RequestIntervalPasses
  <2>4. QED
    BY <1>1, <2>1, <2>2, <2>3 DEF PeerStep, HandlePeerCancel, OnPeerDisconnected, OnTransferFinished
<1>2. CASE SnapshotStep
  <2>1. ASSUME NEW unsent, NEW down, NEW write, SnapshotPublished(unsent, down, write) PROVE NamedTo(q)'
    <3>1. OfferToWaiters(unsent, down)
      BY <2>1 DEF SnapshotPublished
    <3>2. CASE ~serves[q].waiting
      BY <1>0, <3>1, <3>2 DEF OfferToWaiters
    <3>3. CASE serves[q].waiting /\ q \in unsent \union down
      BY <3>1, <3>3 DEF OfferToWaiters, NoServe
    <3>4. CASE serves[q].waiting /\ q \notin unsent \union down
      BY <3>1, <3>4 DEF OfferToWaiters, SendingServe
    <3>5. QED
      BY <3>2, <3>3, <3>4
  <2>2. ASSUME SnapshotFailed PROVE NamedTo(q)'
    BY <2>2, <1>a DEF SnapshotFailed, DropWaiters
  <2>3. ASSUME NEW result, WorkerEnds(result) PROVE NamedTo(q)'
    BY <2>3, <1>b DEF WorkerEnds
  <2>4. QED
    BY <1>2, <2>1, <2>2, <2>3 DEF SnapshotStep, OnSnapshotFinished
<1>3. CASE RebuildSnapshot
  BY <1>3, <1>b DEF RebuildSnapshot
<1>4. ASSUME NEW enabled \in BOOLEAN, SetSharingEnabled(enabled) PROVE NamedTo(q)'
  BY <1>4, <1>a, <1>b DEF SetSharingEnabled
<1>5. CASE IndexDrifts
  BY <1>5, <1>b DEF IndexDrifts, serveVars
<1>6. ASSUME NewProcess PROVE NamedTo(q)'
  BY <1>6 DEF NewProcess, NoServe
<1>7. CASE UNCHANGED vars
  BY <1>7, <1>b DEF vars, serveVars
<1>8. QED
  BY <1>1, <1>2, <1>3, <1>4, <1>5, <1>6, <1>7 DEF Next, ServeRestart, DiesInsideCommit

(* The name a peer notes beside the bytes it receives is that of the dump   *)
(* the bytes are of, whoever was published in the meantime.                 *)
THEOREM AnswersAreTrue == Spec => []AnswerNamesTheFile
<1>1. ServeInit => SessionsKnown /\ AnswerNamesTheFile
  BY DEF ServeInit, SessionsKnown, AnswerNamesTheFile, NoServe, NoSession
<1>2. ServeInv /\ SessionsKnown /\ AnswerNamesTheFile /\ [Next]_vars => AnswerNamesTheFile'
  BY AnswerStep DEF AnswerNamesTheFile, NamedTo
<1>3. QED
  BY <1>1, <1>2, ServeInvariant, SessionsKnownStep, PTL DEF Spec

(* The disk and the records of it agree, for any peers and generations.     *)
THEOREM FilesStayRight == Spec => []FilesAreRight
BY LiveFileIsThere, ReadersAreSafe, SupersededDumpsGo, NamesAreCounted, PTL DEF FilesAreRight

(* Peers are given what they were promised, for any number of them.         *)
THEOREM ServesStaySound == Spec => []ServesAreSound
BY SlotsAreBounded, WaitersAreServedByAJob, PublishedDumpsAreWhole, AnswersAreTrue, PTL DEF ServesAreSound
=============================================================================
