---------------------------- MODULE FrontEndsProofs ----------------------------
(* Proofs about what stands between the services and their users, for any   *)
(* constants: each part keeps an invariant of its own, and a step of one    *)
(* part leaves the others alone.                                            *)
EXTENDS FrontEnds, FiniteSetTheorems, SequenceTheorems, WellFoundedInduction, TLAPS

-----------------------------------------------------------------------------
(* Numbers, sets and sequences *)
LEMMA LeastExists ==
    ASSUME NEW S \in SUBSET Nat, S # {}
    PROVE  \E x \in S : \A y \in S : x <= y
<1> DEFINE R == OpToRel(<, Nat)
<1>1. \A x, y \in Nat : x < y => <<x, y>> \in R
  BY DEF OpToRel
<1>2. IsWellFoundedOn(R, Nat)
  BY NatLessThanWellFounded
<1> HIDE DEF R
<1>3. PICK x \in S : \A y \in S : <<y, x>> \notin R
  BY <1>2, WFMin
<1>4. \A y \in S : ~(y < x)
  BY <1>1, <1>3
<1>5. QED
  BY <1>4

LEMMA MaxIsGreatest ==
    ASSUME NEW S \in SUBSET Nat, S # {}, NEW m \in Nat, \A x \in S : x <= m
    PROVE  Max(S) \in S /\ \A y \in S : y <= Max(S)
<1> DEFINE T == {m - x : x \in S}
<1>1. T \in SUBSET Nat /\ T # {}
  <2>1. \A x \in S : m - x \in Nat
    OBVIOUS
  <2>2. QED
    BY <2>1, Zenon
<1>2. PICK t \in T : \A y \in T : t <= y
  BY <1>1, LeastExists
<1>3. PICK x \in S : t = m - x
  OBVIOUS
<1>4. \A y \in S : x >= y
  <2> SUFFICES ASSUME NEW y \in S PROVE x >= y
    OBVIOUS
  <2>1. x \in Nat /\ y \in Nat /\ m - x <= m - y
    BY <1>2, <1>3
  <2>2. QED
    BY <2>1
<1>5. Max(S) \in S /\ \A y \in S : Max(S) >= y
  BY <1>4 DEF Max
<1>6. QED
  BY <1>5

----------------------------------------------------------------------------
Feeds == {f \in [Hashes -> 0..MaxTime] : Size(f) <= MaxSize}
Messages ==
    {m \in [kind : {"feed", "feed_response"}, items : Feeds, date : 0..MaxTime] : Items(m.items) # {} => m.date > 0}

(* The sequence of a set has each of its elements once.                     *)
LEMMA SeqOfSet ==
    ASSUME NEW S, IsFiniteSet(S)
    PROVE  /\ SetToSeq(S) \in Seq(S) /\ Len(SetToSeq(S)) = Cardinality(S) /\ Cardinality(S) \in Nat
           /\ \A i, j \in 1..Cardinality(S) : SetToSeq(S)[i] = SetToSeq(S)[j] => i = j
           /\ \A x \in S : \E i \in 1..Cardinality(S) : SetToSeq(S)[i] = x
<1> DEFINE n == Cardinality(S)
           f == SetToSeq(S)
<1>1. n \in Nat /\ ExistsBijection(1..n, S)
  BY FS_CardinalityType
<1>2. \E g \in [1..n -> S] : IsInjective(g)
  BY <1>1 DEF ExistsBijection, Bijection, Injection
<1>3. f \in [1..n -> S] /\ IsInjective(f)
  BY <1>2 DEF SetToSeq
<1>4. f \in Injection(1..n, S)
  BY <1>3 DEF Injection
<1>5. IsFiniteSet(1..n) /\ Cardinality(1..n) = n
  BY <1>1, FS_Interval
<1>6. f \in Surjection(1..n, S)
  BY <1>4, <1>5, FS_Injection
<1>7. f \in Seq(S)
  BY <1>1, <1>3, SeqDef
<1>8. Len(f) = n
  BY <1>1, <1>3, <1>7, LenProperties
<1> HIDE DEF f
<1>9. \A i, j \in 1..n : f[i] = f[j] => i = j
  BY <1>3 DEF IsInjective
<1>10. \A x \in S : \E i \in 1..n : f[i] = x
  BY <1>6 DEF Surjection
<1>11. QED
  BY <1>1, <1>7, <1>8, <1>9, <1>10 DEF f

-----------------------------------------------------------------------------
(* The settings *)
(* What is said of us on the way to a peer.                                 *)
Words == {"shares", "keeps"}
Said == IF wire = <<>> THEN known ELSE wire[Len(wire)]
Word(b) == IF b THEN "shares" ELSE "keeps"
Sane(c) == c \in Settings /\ c.connections \in 1..2 /\ (c.replication => c.server)

SettingsInv ==
    /\ SettingsTypeOK /\ wire \in Seq(Words)
    /\ running # "off" => Sane(config) /\ advertised = applied.sharing
    /\ linked => running = "up"
    /\ ServicesFollow
    /\ PeersKnowOurSharing

LEMMA DefaultsAreSane == Sane(Defaults)
BY DEF Sane, Settings, Defaults

LEMMA ValidatedIsSane ==
    ASSUME NEW c \in Settings
    PROVE  Sane(Validated(c))
<1> DEFINE n == Clamp("connections", c.connections)
<1>1. n \in 1..2
  BY DEF Clamp, Settings
<1>2. Validated(c) = [[c EXCEPT !.connections = n] EXCEPT !.server = c.server \/ c.replication]
  BY DEF Validated, Settings
<1> HIDE DEF n
<1>3. /\ [c EXCEPT !.connections = n] \in Settings /\ [c EXCEPT !.connections = n].connections = n
      /\ c.server \in BOOLEAN /\ c.replication \in BOOLEAN
  BY <1>1 DEF Settings
<1>4. QED
  BY <1>1, <1>2, <1>3 DEF Sane, Settings

LEMMA LoadedIsSane ==
    ASSUME SettingsInv
    PROVE  Sane(Loaded)
BY DefaultsAreSane, ValidatedIsSane DEF Loaded, SettingsInv, SettingsTypeOK

LEMMA OneWrite ==
    ASSUME NEW c, Sane(c), NEW k \in Keys, NEW v \in Value(k),
           k = "replication" => ~v, k = "server" => v
    PROVE  Sane([c EXCEPT ![k] = Clamp(k, v)])
<1>1. CASE k = "replication"
  BY <1>1 DEF Sane, Settings, Value, Clamp
<1>2. CASE k = "server"
  BY <1>2 DEF Sane, Settings, Value, Clamp
<1>3. CASE k = "sharing"
  BY <1>3 DEF Sane, Settings, Value, Clamp
<1>4. CASE k = "indexer"
  BY <1>4 DEF Sane, Settings, Value, Clamp
<1>5. CASE k = "agreed"
  BY <1>5 DEF Sane, Settings, Value, Clamp
<1>6. CASE k = "connections"
  BY <1>6 DEF Sane, Settings, Value, Clamp
<1>7. QED
  BY <1>1, <1>2, <1>3, <1>4, <1>5, <1>6 DEF Keys

LEMMA AfterIsSane ==
    ASSUME NEW c, Sane(c), NEW k \in Keys, NEW v \in Value(k)
    PROVE  Sane(After(c, Writes(k, v)))
<1>1. CASE k = "replication" /\ v
  <2>1. After(c, Writes(k, v)) = [[c EXCEPT !["server"] = TRUE] EXCEPT !["replication"] = TRUE]
    BY <1>1 DEF After, Writes, Clamp
  <2>2. QED
    BY <2>1 DEF Sane, Settings
<1>2. CASE k = "server" /\ ~v
  <2>1. After(c, Writes(k, v)) = [[c EXCEPT !["replication"] = FALSE] EXCEPT !["server"] = FALSE]
    BY <1>2 DEF After, Writes, Clamp
  <2>2. QED
    BY <2>1 DEF Sane, Settings
<1>3. CASE ~(k = "replication" /\ v) /\ ~(k = "server" /\ ~v)
  <2>1. After(c, Writes(k, v)) = [c EXCEPT ![k] = Clamp(k, v)]
    BY <1>3 DEF After, Writes
  <2>2. QED
    BY <1>3, <2>1, OneWrite
<1>4. QED
  BY <1>1, <1>2, <1>3

LEMMA FromJsonIsSettings ==
    ASSUME NEW c \in Settings, NEW k \in {"replication", "server", "sharing"},
           NEW j \in {"replication", "server", "sharing"}, NEW v \in BOOLEAN, NEW u \in BOOLEAN
    PROVE  [c EXCEPT ![k] = Clamp(k, v), ![j] = Clamp(j, u)] \in Settings
<1> DEFINE d == [c EXCEPT ![k] = v]
<1>1. d \in Settings
  <2>1. CASE k = "replication"
    BY <2>1 DEF Settings
  <2>2. CASE k = "server"
    BY <2>2 DEF Settings
  <2>3. CASE k = "sharing"
    BY <2>3 DEF Settings
  <2>4. QED
    BY <2>1, <2>2, <2>3
<1>2. [c EXCEPT ![k] = Clamp(k, v), ![j] = Clamp(j, u)] = [d EXCEPT ![j] = u]
  BY DEF Clamp
<1> HIDE DEF d
<1>3. [d EXCEPT ![j] = u] \in Settings
  <2>1. CASE j = "replication"
    BY <1>1, <2>1 DEF Settings
  <2>2. CASE j = "server"
    BY <1>1, <2>2 DEF Settings
  <2>3. CASE j = "sharing"
    BY <1>1, <2>3 DEF Settings
  <2>4. QED
    BY <2>1, <2>2, <2>3
<1>4. QED
  BY <1>2, <1>3

LEMMA SharesIsBoolean ==
    ASSUME NEW c \in Settings
    PROVE  Shares(c) \in BOOLEAN
<1>1. CASE ShareOption = {}
  BY <1>1 DEF Shares, Settings
<1>2. CASE ShareOption # {}
  BY <1>2, SettingsAssumption DEF Shares
<1>3. QED
  BY <1>1, <1>2

LEMMA SettingsInitInv == SettingsInit => SettingsInv
<1> SUFFICES ASSUME SettingsInit PROVE SettingsInv
  OBVIOUS
<1>1. /\ config = Defaults /\ dirty = FALSE /\ applied = Nothing
      /\ crawling = FALSE /\ replicating = FALSE /\ refused = FALSE
      /\ running = "off" /\ network = "down"
      /\ advertised = FALSE /\ linked = FALSE /\ wire = <<>> /\ known = "nobody" /\ runs = 0
  BY DEF SettingsInit
<1>2. file \in [kind : {"none", "torn", "whole"}, values : Settings]
  <2>1. /\ Defaults \in Settings
        /\ [Defaults EXCEPT !.server = FALSE, !.connections = 3] \in Settings
        /\ [Defaults EXCEPT !.replication = FALSE] \in Settings
    <3>1. [Defaults EXCEPT !.server = FALSE] \in Settings
      BY DefaultsAreSane DEF Sane, Settings
    <3>2. \A c \in Settings : [c EXCEPT !.connections = 3] \in Settings
      BY DEF Settings
    <3>3. [Defaults EXCEPT !.replication = FALSE] \in Settings
      BY DefaultsAreSane DEF Sane, Settings
    <3>4. QED
      BY <3>1, <3>2, <3>3, DefaultsAreSane DEF Sane
  <2>2. file \in {NoConfig, Torn, Holds([Defaults EXCEPT !.server = FALSE, !.connections = 3]), Holds([Defaults EXCEPT !.replication = FALSE])}
    BY DEF SettingsInit
  <2>3. \A c \in Settings : /\ Holds(c) \in [kind : {"none", "torn", "whole"}, values : Settings]
                           /\ [kind |-> "none", values |-> c] \in [kind : {"none", "torn", "whole"}, values : Settings]
                           /\ [kind |-> "torn", values |-> c] \in [kind : {"none", "torn", "whole"}, values : Settings]
    BY DEF Holds
  <2>4. QED
    BY <2>1, <2>2, <2>3, Zenon DEF NoConfig, Torn
<1>3. Defaults \in Settings
  BY DefaultsAreSane DEF Sane
<1>4. SettingsTypeOK /\ wire \in Seq(Words)
  <2>1. \A b \in {dirty, crawling, replicating, refused, advertised, linked} : b \in BOOLEAN
    BY <1>1
  <2>2. Len(wire) <= MaxWire /\ wire \in Seq(Words)
    BY <1>1, SettingsAssumption
  <2>3. QED
    BY <1>1, <1>2, <1>3, <2>1, <2>2 DEF SettingsTypeOK
<1>5. QED
  BY <1>1, <1>4 DEF SettingsInv, ServicesFollow, PeersKnowOurSharing

(* What the flags and the messages are.                                     *)
LEMMA SettingsTypes ==
    ASSUME SettingsInv
    PROVE  /\ config \in Settings /\ file \in [kind : {"none", "torn", "whole"}, values : Settings]
           /\ running \in {"off", "built", "up"} /\ network \in {"down", "bare", "full"} /\ refused \in BOOLEAN
           /\ dirty \in BOOLEAN /\ crawling \in BOOLEAN /\ replicating \in BOOLEAN
           /\ advertised \in BOOLEAN /\ linked \in BOOLEAN
           /\ known \in {"nobody", "shares", "keeps"} /\ wire \in Seq(Words) /\ Len(wire) \in 0..MaxWire
           /\ linked => running = "up" /\ Said = Word(applied.sharing) /\ advertised = applied.sharing
<1>1. \A b \in {dirty, crawling, replicating, refused, advertised, linked} : b \in BOOLEAN
  BY DEF SettingsInv, SettingsTypeOK
<1>2. Len(wire) \in Nat
  BY DEF SettingsInv
<1>3. /\ config \in Settings /\ file \in [kind : {"none", "torn", "whole"}, values : Settings]
      /\ running \in {"off", "built", "up"} /\ network \in {"down", "bare", "full"}
      /\ known \in {"nobody", "shares", "keeps"} /\ wire \in Seq(Words) /\ Len(wire) \in 0..MaxWire
  BY <1>2, SettingsAssumption DEF SettingsInv, SettingsTypeOK
<1>4. linked => running = "up" /\ Said = Word(applied.sharing) /\ advertised = applied.sharing
  BY DEF SettingsInv, PeersKnowOurSharing, Said, Word
<1>5. QED
  BY <1>1, <1>3, <1>4

(* A type invariant in one step, from that of each variable.                *)
LEMMA SettingsTypesNext ==
    ASSUME config' \in Settings, file' \in [kind : {"none", "torn", "whole"}, values : Settings],
           running' \in {"off", "built", "up"}, network' \in {"down", "bare", "full"},
           dirty' \in BOOLEAN, crawling' \in BOOLEAN, refused' \in BOOLEAN,
           replicating' \in BOOLEAN, advertised' \in BOOLEAN, linked' \in BOOLEAN,
           known' \in {"nobody", "shares", "keeps"}, Len(wire') <= MaxWire,
           running' # "off" => config'.connections \in 1..2
    PROVE  SettingsTypeOK'
<1>1. \A b \in {dirty', crawling', replicating', refused', advertised', linked'} : b \in BOOLEAN
  OBVIOUS
<1>2. QED
  BY <1>1 DEF SettingsTypeOK

(* The crawler runs only where it is wanted, and where it is, or it refused. *)
LEMMA CrawlerFacts ==
    ASSUME NEW c \in Settings, crawling \in BOOLEAN, refused \in BOOLEAN, CrawlerFollows(c)
    PROVE  /\ crawling' \in BOOLEAN /\ refused' \in BOOLEAN
           /\ crawling' => Wanted(c)
           /\ Wanted(c) => crawling' \/ refused'
<1>1. CASE ~Wanted(c) /\ crawling' = FALSE /\ refused' = FALSE
  BY <1>1
<1>2. CASE Wanted(c) /\ crawling /\ UNCHANGED <<crawling, refused>>
  BY <1>2
<1>3. CASE Wanted(c) /\ crawling' = TRUE /\ refused' = FALSE
  BY <1>3
<1>4. CASE Wanted(c) /\ crawling' = FALSE /\ refused' = TRUE
  BY <1>4
<1>5. QED
  BY <1>1, <1>2, <1>3, <1>4 DEF CrawlerFollows

LEMMA ApplyFacts ==
    ASSUME SettingsInv, NEW c, Sane(c), Apply(c), UNCHANGED <<linked, known>>
    PROVE  /\ applied'.replication = c.replication /\ applied'.server = c.server
           /\ advertised' = applied'.sharing /\ advertised' \in BOOLEAN
           /\ wire' \in Seq(Words) /\ Len(wire') <= MaxWire
           /\ network' = network
           /\ crawling' \in BOOLEAN /\ replicating' \in BOOLEAN /\ refused' \in BOOLEAN
           /\ running = "up" => /\ replicating' = c.replication
                                /\ crawling' => Wanted(c)
                                /\ Wanted(c) => crawling' \/ refused'
           /\ PeersKnowOurSharing'
<1>1. /\ c \in Settings /\ c.replication \in BOOLEAN /\ c.indexer \in BOOLEAN
  BY DEF Sane, Settings
<1>2. Shares(c) \in BOOLEAN
  BY <1>1, SharesIsBoolean
<1>3. /\ applied'.replication = c.replication /\ applied'.server = c.server /\ applied'.sharing = Shares(c)
      /\ advertised' = Shares(c) /\ Len(wire') <= MaxWire
  BY DEF Apply
<1>4. /\ replicating' = IF running = "up" THEN c.replication ELSE replicating /\ c.replication
      /\ wire' = IF linked /\ advertised' # advertised THEN wire \o Announcement ELSE wire
  BY DEF Apply, FollowReplication, Told
<1>5. /\ network' = network /\ replicating' \in BOOLEAN
      /\ crawling' \in BOOLEAN /\ refused' \in BOOLEAN
      /\ running = "up" => /\ replicating' = c.replication
                           /\ crawling' => Wanted(c)
                           /\ Wanted(c) => crawling' \/ refused'
  <2>1. network' = network /\ replicating' \in BOOLEAN
    BY <1>1, <1>4, SettingsTypes DEF Apply
  <2>2. CASE running = "up"
    <3>1. CrawlerFollows(c) /\ replicating' = c.replication
      BY <1>4, <2>2 DEF Apply
    <3>2. QED
      BY <1>1, <2>1, <3>1, CrawlerFacts, SettingsTypes
  <2>3. CASE running # "up"
    <3>1. UNCHANGED <<crawling, refused>>
      BY <2>3 DEF Apply
    <3>2. QED
      BY <2>1, <2>3, <3>1, SettingsTypes
  <2>4. QED
    BY <2>2, <2>3
<1>6. CASE linked /\ advertised' # advertised
  <2>1. wire' = Append(wire, Word(advertised'))
    <3>1. Announcement = <<Word(advertised')>>
      BY DEF Announcement, Word
    <3>2. wire \in Seq(Words) /\ Word(advertised') \in Words
      BY SettingsTypes DEF Word, Words
    <3>3. QED
      BY <1>4, <1>6, <3>1, <3>2, AppendIsConcat
  <2>2. Word(advertised') \in Words /\ wire \in Seq(Words)
    BY SettingsTypes DEF Word, Words
  <2>3. wire' \in Seq(Words) /\ wire' # <<>> /\ wire'[Len(wire')] = Word(advertised')
    BY <2>1, <2>2, AppendProperties
  <2>4. PeersKnowOurSharing'
    BY <1>3, <2>3 DEF PeersKnowOurSharing, Word
  <2>5. QED
    BY <1>2, <1>3, <1>4, <1>5, <2>3, <2>4
<1>7. CASE ~(linked /\ advertised' # advertised)
  <2>1. wire' = wire /\ wire' \in Seq(Words) /\ Said' = Said
    BY <1>4, <1>7, SettingsTypes DEF Said
  <2>2. linked' => Said' = Word(applied'.sharing)
    BY <1>3, <1>7, <2>1, SettingsTypes DEF Word
  <2>3. PeersKnowOurSharing'
    BY <2>2 DEF PeersKnowOurSharing, Said, Word
  <2>4. QED
    BY <1>2, <1>3, <1>4, <1>5, <2>1, <2>3
<1>8. QED
  BY <1>6, <1>7

LEMMA ConstructInv ==
    ASSUME SettingsInv, Construct
    PROVE  SettingsInv'
<1>1. /\ running = "off" /\ config' = Loaded /\ dirty' = FALSE /\ Apply(config')
      /\ running' = "built" /\ UNCHANGED <<file, linked, known>>
  BY DEF Construct
<1>2. Sane(config')
  BY <1>1, LoadedIsSane
<1>3. ~linked
  BY <1>1, SettingsTypes
<1>4. SettingsTypeOK'
  BY <1>1, <1>2, ApplyFacts, SettingsTypes, SettingsTypesNext DEF Sane
<1>5. ServicesFollow'
  BY <1>1, <1>2, ApplyFacts DEF ServicesFollow, Sane
<1>6. QED
  BY <1>1, <1>2, <1>3, <1>4, <1>5, ApplyFacts DEF SettingsInv

LEMMA SettingChanges ==
    ASSUME SettingsInv, Sane(config'), running # "off", Apply(config'), dirty' \in BOOLEAN,
           file' \in [kind : {"none", "torn", "whole"}, values : Settings],
           UNCHANGED <<running, linked, known>>
    PROVE  SettingsInv'
<1>1. SettingsTypeOK'
  BY ApplyFacts, SettingsTypes, SettingsTypesNext DEF Sane
<1>2. ServicesFollow'
  BY ApplyFacts DEF ServicesFollow, Sane
<1>3. QED
  BY <1>1, <1>2, ApplyFacts, SettingsTypes DEF SettingsInv

LEMMA SetKeyInv ==
    ASSUME SettingsInv, NEW k \in Keys, NEW v \in Value(k), SetKey(k, v)
    PROVE  SettingsInv'
<1>1. /\ running # "off" /\ config' = After(config, Writes(k, v)) /\ Apply(config')
      /\ file' = Holds(config') \/ file' = file
      /\ dirty' = FALSE \/ dirty' = TRUE
      /\ UNCHANGED <<running, linked, known>>
  BY DEF SetKey
<1>2. Sane(config')
  BY <1>1, AfterIsSane DEF SettingsInv
<1>3. file' \in [kind : {"none", "torn", "whole"}, values : Settings]
  BY <1>1, <1>2, SettingsTypes DEF Holds, Sane
<1>4. QED
  BY <1>1, <1>2, <1>3, SettingChanges

LEMMA FromJsonInv ==
    ASSUME SettingsInv, NEW k \in {"replication", "server", "sharing"},
           NEW j \in {"replication", "server", "sharing"}, NEW v \in BOOLEAN, NEW u \in BOOLEAN,
           FromJson(k, v, j, u)
    PROVE  SettingsInv'
<1>1. /\ running # "off" /\ Apply(config') /\ dirty' = TRUE
      /\ UNCHANGED <<file, running, linked, known>>
      /\ config' = Validated([config EXCEPT ![k] = Clamp(k, v), ![j] = Clamp(j, u)])
  BY DEF FromJson
<1>2. Sane(config')
  BY <1>1, SettingsTypes, FromJsonIsSettings, ValidatedIsSane
<1>3. QED
  BY <1>1, <1>2, SettingsTypes, SettingChanges

(* The program is gone, and its connections with it.                        *)
LEMMA GoneInv ==
    ASSUME SettingsInv, Gone, dirty' = FALSE,
           file' \in [kind : {"none", "torn", "whole"}, values : Settings]
    PROVE  SettingsInv'
<1>1. /\ crawling' = FALSE /\ replicating' = FALSE /\ refused' = FALSE
      /\ running' = "off" /\ network' = "down"
      /\ linked' = FALSE /\ wire' = <<>> /\ known' = "nobody" /\ advertised' = FALSE
      /\ UNCHANGED <<config, applied, runs>>
  BY DEF Gone
<1>2. Len(wire') <= MaxWire /\ wire' \in Seq(Words)
  BY <1>1, SettingsAssumption
<1>3. SettingsTypeOK'
  BY <1>1, <1>2, SettingsTypes, SettingsTypesNext
<1>4. QED
  BY <1>1, <1>2, <1>3 DEF SettingsInv, ServicesFollow, PeersKnowOurSharing

(* A step that changes no setting, and neither starts nor ends the program. *)
LEMMA SettingsStand ==
    ASSUME SettingsInv, UNCHANGED <<config, applied, crawling, replicating, refused, running, advertised>>,
           network' \in {"down", "bare", "full"},
           file' \in [kind : {"none", "torn", "whole"}, values : Settings], dirty' \in BOOLEAN,
           linked' \in BOOLEAN, known' \in {"nobody", "shares", "keeps"},
           wire' \in Seq(Words), Len(wire') <= MaxWire, linked' => running' = "up",
           linked' => Said' = Word(applied.sharing)
    PROVE  SettingsInv'
<1>1. SettingsTypeOK'
  BY SettingsTypes, SettingsTypesNext DEF SettingsInv, SettingsTypeOK
<1>2. PeersKnowOurSharing'
  BY DEF PeersKnowOurSharing, Said, Word
<1>3. QED
  BY <1>1, <1>2 DEF SettingsInv, ServicesFollow

LEMMA SettingsNextInv ==
    ASSUME SettingsInv, SettingsNext
    PROVE  SettingsInv'
<1>1. CASE Construct
  BY <1>1, ConstructInv
<1>2. CASE StartServices
  <2>1. /\ running = "built" /\ running' = "up"
        /\ network' \in {"down", "bare", "full"}
        /\ CrawlerFollows(config) /\ replicating' = config.replication
        /\ UNCHANGED <<config, file, dirty, applied, advertised, linked, wire, known>>
    BY <1>2 DEF StartServices
  <2>2. ~linked /\ config.replication \in BOOLEAN /\ Sane(config) /\ config \in Settings
    BY <2>1, SettingsTypes DEF Settings, SettingsInv
  <2>3. /\ crawling' \in BOOLEAN /\ refused' \in BOOLEAN
        /\ crawling' => Wanted(config)
        /\ Wanted(config) => crawling' \/ refused'
    BY <2>1, <2>2, CrawlerFacts, SettingsTypes
  <2>4. SettingsTypeOK'
    BY <2>1, <2>2, <2>3, SettingsTypes, SettingsTypesNext DEF Sane
  <2>5. ServicesFollow' /\ PeersKnowOurSharing'
    <3>1. Wanted(config)' = Wanted(config)
      BY <2>1 DEF Wanted
    <3>2. QED
      BY <2>1, <2>2, <2>3, <3>1 DEF ServicesFollow, PeersKnowOurSharing, SettingsInv
  <2>6. QED
    BY <2>1, <2>2, <2>4, <2>5 DEF SettingsInv
<1>3. CASE StopServices
  <2>1. file' \in [kind : {"none", "torn", "whole"}, values : Settings]
    BY <1>3, SettingsTypes DEF StopServices, Holds
  <2>2. QED
    BY <1>3, <2>1, GoneInv DEF StopServices
<1>4. CASE SettingsKilled
  <2>1. file' \in [kind : {"none", "torn", "whole"}, values : Settings]
    BY <1>4, SettingsTypes, DefaultsAreSane DEF SettingsKilled, Torn, Sane
  <2>2. QED
    BY <1>4, <2>1, GoneInv DEF SettingsKilled
<1>5. CASE SaveConfig
  <2>1. /\ file' = Holds(config) /\ dirty' = FALSE
        /\ UNCHANGED <<config, applied, crawling, replicating, refused, running, network, advertised, linked, wire, known>>
    BY <1>5 DEF SaveConfig
  <2>2. file' \in [kind : {"none", "torn", "whole"}, values : Settings]
    BY <2>1, SettingsTypes DEF Holds
  <2>3. Said' = Said
    BY <2>1 DEF Said
  <2>4. /\ linked' \in BOOLEAN /\ known' \in {"nobody", "shares", "keeps"} /\ dirty' \in BOOLEAN
        /\ wire' \in Seq(Words) /\ Len(wire') <= MaxWire
        /\ linked' => running' = "up" /\ Said' = Word(applied.sharing)
    <3>1. linked' \in BOOLEAN /\ dirty' \in BOOLEAN /\ known' \in {"nobody", "shares", "keeps"}
      BY <2>1, SettingsTypes
    <3>2. wire' \in Seq(Words) /\ Len(wire') <= MaxWire
      BY <2>1, SettingsTypes, SettingsAssumption
    <3>3. linked => running = "up" /\ Said = Word(applied.sharing)
      BY SettingsTypes
    <3>4. QED
      BY <2>1, <2>3, <3>1, <3>2, <3>3
  <2>5. QED
    BY <2>1, <2>2, <2>4, SettingsStand, SettingsTypes
<1>6. CASE PeerConnects
  <2>1. /\ running = "up" /\ linked' = TRUE /\ wire' = <<Word(advertised)>>
        /\ UNCHANGED <<config, file, dirty, applied, crawling, replicating, refused, running, network, advertised, known>>
    BY <1>6 DEF PeerConnects, Word
  <2>2. Word(advertised) \in Words
    BY DEF Word, Words
  <2>3. wire' \in Seq(Words) /\ Len(wire') = 1 /\ wire' # <<>> /\ wire'[Len(wire')] = Word(advertised)
    BY <2>1, <2>2
  <2>4. Said' = Word(applied.sharing)
    BY <2>1, <2>3 DEF Said, SettingsInv
  <2>5. Len(wire') <= MaxWire
    BY <2>3, SettingsAssumption
  <2>6. /\ linked' \in BOOLEAN /\ known' \in {"nobody", "shares", "keeps"} /\ dirty' \in BOOLEAN
        /\ file' \in [kind : {"none", "torn", "whole"}, values : Settings]
    BY <2>1, SettingsTypes
  <2>7. QED
    BY <2>1, <2>3, <2>4, <2>5, <2>6, SettingsStand, SettingsTypes
<1>7. CASE PeerDisconnects
  <2>1. /\ linked' = FALSE /\ wire' = <<>> /\ known' = "nobody"
        /\ UNCHANGED <<config, file, dirty, applied, crawling, replicating, refused, running, network, advertised>>
    BY <1>7 DEF PeerDisconnects
  <2>2. Len(wire') <= MaxWire /\ wire' \in Seq(Words)
    BY <2>1, SettingsAssumption
  <2>3. QED
    BY <2>1, <2>2, SettingsTypes, SettingsStand
<1>8. CASE ClientInfo
  <2>1. /\ linked /\ wire # <<>> /\ known' = Head(wire) /\ wire' = Tail(wire)
        /\ UNCHANGED <<config, file, dirty, applied, crawling, replicating, refused, running, network, advertised, linked>>
    BY <1>8 DEF ClientInfo
  <2>2. /\ Head(wire) \in Words /\ Tail(wire) \in Seq(Words) /\ Len(Tail(wire)) = Len(wire) - 1
        /\ Len(wire) \in 1..MaxWire /\ Head(wire) = wire[1]
        /\ \A i \in 1..Len(Tail(wire)) : Tail(wire)[i] = wire[i + 1]
    BY <2>1, SettingsTypes, HeadTailProperties
  <2>3. Said' = wire[Len(wire)]
    <3>1. CASE Len(wire) = 1
      BY <2>1, <2>2, <3>1 DEF Said
    <3>2. CASE Len(wire) > 1
      <4>1. Tail(wire) # <<>> /\ Tail(wire)[Len(Tail(wire))] = wire[Len(wire)]
        <5>1. Len(Tail(wire)) \in 1..Len(Tail(wire)) /\ Len(Tail(wire)) + 1 = Len(wire)
          BY <2>2, <3>2
        <5>2. Tail(wire) # <<>>
          <6>1. Len(<<>>) = 0
            OBVIOUS
          <6>2. QED
            BY <5>1, <6>1
        <5>3. QED
          BY <2>2, <5>1, <5>2
      <4>2. QED
        BY <2>1, <4>1 DEF Said
    <3>3. QED
      BY <2>2, <3>1, <3>2
  <2>4. Said' = Word(applied.sharing)
    BY <2>1, <2>3, SettingsTypes DEF Said
  <2>5. known' \in {"nobody", "shares", "keeps"} /\ Len(wire') <= MaxWire /\ wire' \in Seq(Words)
    <3>1. known' \in {"nobody", "shares", "keeps"}
      BY <2>1, <2>2 DEF Words
    <3>2. Len(wire') <= MaxWire
      BY <2>1, <2>2, SettingsAssumption
    <3>3. QED
      BY <2>1, <2>2, <3>1, <3>2
  <2>6. QED
    BY <2>1, <2>4, <2>5, SettingsTypes, SettingsStand
<1>9. CASE \E k \in Keys : \E v \in Value(k) : SetKey(k, v)
  BY <1>9, SetKeyInv
<1>10. CASE \E k, j \in {"replication", "server", "sharing"}, v, u \in BOOLEAN : FromJson(k, v, j, u)
  BY <1>10, FromJsonInv
<1>11. CASE DhtChanges
  <2>1. /\ network' \in {"down", "bare", "full"}
        /\ UNCHANGED <<config, file, dirty, applied, crawling, replicating, refused, running, advertised, linked, wire, known>>
    BY <1>11 DEF DhtChanges
  <2>2. Said' = Said
    BY <2>1 DEF Said
  <2>3. /\ linked' \in BOOLEAN /\ dirty' \in BOOLEAN /\ known' \in {"nobody", "shares", "keeps"}
        /\ file' \in [kind : {"none", "torn", "whole"}, values : Settings]
    BY <2>1, SettingsTypes
  <2>4. wire' \in Seq(Words) /\ Len(wire') <= MaxWire
    BY <2>1, SettingsTypes, SettingsAssumption
  <2>5. linked' => running' = "up" /\ Said' = Word(applied.sharing)
    BY <2>1, <2>2, SettingsTypes
  <2>6. QED
    BY <2>1, <2>3, <2>4, <2>5, SettingsStand
<1>12. QED
  BY <1>1, <1>2, <1>3, <1>4, <1>5, <1>6, <1>7, <1>8, <1>9, <1>10, <1>11 DEF SettingsNext

LEMMA SettingsStutter ==
    ASSUME SettingsInv, UNCHANGED settingsVars
    PROVE  SettingsInv'
<1>1. UNCHANGED <<config, file, dirty, applied, crawling, replicating, refused, running, network, advertised, linked, wire, known, runs>>
  BY DEF settingsVars
<1>2. SettingsTypeOK' /\ ServicesFollow' /\ PeersKnowOurSharing'
  BY <1>1 DEF SettingsInv, SettingsTypeOK, ServicesFollow, PeersKnowOurSharing
<1>3. QED
  BY <1>1, <1>2 DEF SettingsInv

-----------------------------------------------------------------------------
(* The feed *)
NodesInv ==
    /\ up \in [FeedNodes -> BOOLEAN] /\ marked \in [FeedNodes -> BOOLEAN] /\ inStep \in [FeedNodes -> BOOLEAN]
    /\ feed \in [FeedNodes -> Feeds] /\ stored \in [FeedNodes -> Feeds]
    /\ feedDate \in [FeedNodes -> 0..MaxTime] /\ seconds \in 1..MaxTime
    /\ \A n \in FeedNodes : Items(feed[n]) # {} => feedDate[n] > 0
    /\ StoredFollows

(* A node's own request is the first message it has, and a response is on   *)
(* the way to it only if the other node has taken its request.              *)
Asking(box) == box # <<>> /\ box[1].kind = "feed"
Response(m) == m.kind = "feed_response"
Fits(own, other) ==
    /\ \A i \in 2..Len(own) : Response(own[i])
    /\ Len(own) <= (IF Asking(own) THEN 1 ELSE 0) + (IF Asking(other) THEN 0 ELSE 1)

(* A feed f of date d would replace g of date e.                            *)
Beats(f, d, g, e) == Size(f) > Size(g) \/ (Size(f) = Size(g) /\ d > e)

(* A node holds the feed f of date d that both end up with, the other holds *)
(* g of date e: nothing on its way to the first replaces f, what is on its  *)
(* way to the other is f, and unless the other has as good a feed, f is on  *)
(* its way to it or still asked for.                                        *)
Leading(f, d, g, e, own, other) ==
    /\ ~Beats(g, e, f, d)
    /\ \A i \in 1..Len(own) : Response(own[i]) => ~Beats(own[i].items, own[i].date, f, d)
    /\ \A i \in 1..Len(other) : Response(other[i]) => other[i].items = f /\ other[i].date = d
    /\ \/ Size(f) = Size(g) /\ d = e
       \/ Asking(own)
       \/ \E i \in 1..Len(other) : Response(other[i])

InboxFits(n) == Fits(inbox[n], inbox[OtherNode(n)])
Leads(n) ==
    LET o == OtherNode(n)
    IN  Leading(feed[n], feedDate[n], feed[o], feedDate[o], inbox[n], inbox[o])

LinkInv ==
    /\ paired \in BOOLEAN /\ quiet \in BOOLEAN
    /\ inbox \in [FeedNodes -> Seq(Messages)]
    /\ \A n \in FeedNodes : InboxFits(n)
    /\ IF paired THEN \A n \in FeedNodes : up[n] ELSE \A n \in FeedNodes : inbox[n] = <<>>
    /\ paired /\ quiet => \E n \in FeedNodes : Leads(n)

FeedInv == NodesInv /\ LinkInv

LEMMA TwoNodes ==
    ASSUME NEW n \in FeedNodes
    PROVE  /\ OtherNode(n) \in FeedNodes /\ OtherNode(n) # n /\ OtherNode(OtherNode(n)) = n
           /\ \A m \in FeedNodes : m = n \/ m = OtherNode(n)
<1>1. PICK a, b \in FeedNodes : a # b /\ FeedNodes = {a, b}
  BY FeedAssumption
<1>2. \A m \in FeedNodes : OtherNode(m) = IF m = a THEN b ELSE a
  BY <1>1 DEF OtherNode
<1>3. QED
  BY <1>1, <1>2

LEMMA SizeFacts ==
    ASSUME NEW f
    PROVE  /\ IsFiniteSet(Items(f)) /\ Size(f) \in Nat
           /\ Items(f) = {} => Size(f) = 0
           /\ Size(f) > 0 => Items(f) # {}
<1>1. Items(f) \in SUBSET Hashes
  BY DEF Items
<1>2. IsFiniteSet(Items(f))
  BY <1>1, FS_Subset, FeedAssumption
<1>3. QED
  BY <1>2, FS_CardinalityType, FS_EmptySet DEF Size

LEMMA FewerItems ==
    ASSUME NEW f, NEW g, Items(f) \subseteq Items(g)
    PROVE  Size(f) <= Size(g)
BY SizeFacts, FS_Subset DEF Size

LEMMA NoItemsIsAFeed == NoItems \in Feeds /\ Items(NoItems) = {}
<1>1. Items(NoItems) = {}
  BY DEF NoItems, Items
<1>2. NoItems \in [Hashes -> 0..MaxTime]
  BY FeedAssumption DEF NoItems
<1>3. QED
  BY <1>1, <1>2, SizeFacts, FeedAssumption DEF Feeds

LEMMA LatestFacts ==
    ASSUME NEW f \in Feeds
    PROVE  /\ Latest(f) \in 0..MaxTime
           /\ Items(f) # {} => Latest(f) > 0
<1> DEFINE S == {f[h] : h \in Hashes}
<1>1. f \in [Hashes -> 0..MaxTime]
  BY DEF Feeds
<1>2. S \in SUBSET Nat /\ S # {} /\ \A x \in S : x <= MaxTime
  BY <1>1, FeedAssumption
<1>3. Max(S) \in S /\ \A y \in S : y <= Max(S)
  BY <1>2, MaxIsGreatest, FeedAssumption
<1>4. Latest(f) = Max(S)
  BY DEF Latest
<1>5. Latest(f) \in 0..MaxTime
  BY <1>1, <1>3, <1>4
<1>6. ASSUME Items(f) # {} PROVE Latest(f) > 0
  <2>1. PICK h \in Hashes : f[h] # 0
    BY <1>6 DEF Items
  <2>2. f[h] \in S
    OBVIOUS
  <2>3. f[h] <= Latest(f)
    BY <1>3, <1>4, <2>2
  <2>4. QED
    BY <1>1, <1>5, <2>1, <2>3, FeedAssumption
<1>7. QED
  BY <1>5, <1>6

(* An item more, in the place of another one if need be.                    *)
LEMMA WithItemFacts ==
    ASSUME NEW f \in Feeds, NEW h \in Hashes, seconds \in 1..MaxTime, NEW g \in WithItem(f, h)
    PROVE  g \in Feeds
<1>1. f \in [Hashes -> 0..MaxTime] /\ Size(f) <= MaxSize
  BY DEF Feeds
<1>2. CASE f[h] # 0
  BY <1>2 DEF WithItem
<1>3. CASE f[h] = 0 /\ Size(f) < MaxSize
  <2>1. g = [f EXCEPT ![h] = seconds]
    BY <1>3 DEF WithItem
  <2>2. g \in [Hashes -> 0..MaxTime]
    BY <1>1, <2>1
  <2>3. Items(g) = Items(f) \cup {h}
    BY <1>1, <2>1 DEF Items
  <2>4. Size(g) <= Size(f) + 1
    BY <2>3, SizeFacts, FS_AddElement DEF Size
  <2>5. QED
    BY <1>3, <2>2, <2>4, SizeFacts, FeedAssumption DEF Feeds
<1>4. CASE f[h] = 0 /\ ~(Size(f) < MaxSize)
  <2>1. PICK last \in Items(f) : g = [f EXCEPT ![h] = seconds, ![last] = 0]
    BY <1>4 DEF WithItem
  <2>2. last \in Hashes /\ last # h /\ h \notin Items(f)
    BY <1>4 DEF Items
  <2>3. g \in [Hashes -> 0..MaxTime]
    <3>1. seconds \in 0..MaxTime /\ 0 \in 0..MaxTime
      BY FeedAssumption
    <3>2. QED
      BY <1>1, <2>1, <2>2, <3>1
  <2>4. Items(g) = (Items(f) \cup {h}) \ {last}
    BY <1>1, <2>1, <2>2 DEF Items
  <2>5. IsFiniteSet(Items(f) \cup {h}) /\ Cardinality(Items(f) \cup {h}) = Size(f) + 1
    BY <2>2, SizeFacts, FS_AddElement DEF Size
  <2>6. last \in Items(f) \cup {h}
    OBVIOUS
  <2>7. Cardinality(Items(g)) = Cardinality(Items(f) \cup {h}) - 1
    BY <2>4, <2>5, <2>6, FS_RemoveElement
  <2>8. Size(g) = Size(f)
    BY <2>5, <2>7, SizeFacts DEF Size
  <2>9. QED
    BY <1>1, <2>3, <2>8 DEF Feeds
<1>5. QED
  BY <1>1, <1>2, <1>3, <1>4, SizeFacts, FeedAssumption

(* What a rewrite of the table may leave in it.                             *)
LEMMA RewrittenFacts ==
    ASSUME NodesInv, NEW n \in FeedNodes, NEW w \in Rewritten(n)
    PROVE  w.table \in Feeds /\ w.whole \in BOOLEAN /\ (w.whole => w.table = feed[n])
<1>1. feed[n] \in Feeds /\ stored[n] \in Feeds /\ feed[n] \in [Hashes -> 0..MaxTime] /\ Size(feed[n]) <= MaxSize
  BY DEF NodesInv, Feeds
<1>2. CASE w = [table |-> feed[n], whole |-> TRUE]
  BY <1>1, <1>2
<1>3. CASE w = [table |-> stored[n], whole |-> feed[n] = stored[n]]
  BY <1>1, <1>3
<1>4. CASE \E lot \in SUBSET Items(feed[n]) : w = [table |-> [h \in Hashes |-> IF h \in lot THEN feed[n][h] ELSE 0], whole |-> lot = Items(feed[n])]
  <2>1. PICK lot \in SUBSET Items(feed[n]) : w = [table |-> [h \in Hashes |-> IF h \in lot THEN feed[n][h] ELSE 0], whole |-> lot = Items(feed[n])]
    BY <1>4
  <2> DEFINE t == [h \in Hashes |-> IF h \in lot THEN feed[n][h] ELSE 0]
  <2>2. t \in [Hashes -> 0..MaxTime]
    BY <1>1, FeedAssumption
  <2>3. Items(t) \subseteq Items(feed[n])
    BY DEF Items
  <2>4. Size(t) <= MaxSize
    BY <1>1, <2>3, FewerItems, SizeFacts, FeedAssumption
  <2>5. lot = Items(feed[n]) => t = feed[n]
    BY <1>1 DEF Items
  <2>6. t \in Feeds
    BY <2>2, <2>4 DEF Feeds
  <2>7. w.table = t /\ w.whole = (lot = Items(feed[n]))
    BY <2>1
  <2>8. QED
    BY <2>5, <2>6, <2>7
<1>5. QED
  BY <1>2, <1>3, <1>4 DEF Rewritten

----------------------------------------------------------------------------
LEMMA FeedInitInv == FeedInit => FeedInv
<1> SUFFICES ASSUME FeedInit PROVE FeedInv
  OBVIOUS
<1>1. NoItems \in Feeds /\ Items(NoItems) = {}
  BY NoItemsIsAFeed
<1>2. NodesInv
  BY <1>1, FeedAssumption DEF FeedInit, NodesInv, StoredFollows
<1>3. \A n \in FeedNodes : inbox[n] = <<>>
  BY DEF FeedInit
<1>4. \A n \in FeedNodes : InboxFits(n)
  BY <1>3, TwoNodes DEF InboxFits, Fits, Asking
<1>5. inbox \in [FeedNodes -> Seq(Messages)]
  BY DEF FeedInit
<1>6. LinkInv
  BY <1>3, <1>4, <1>5 DEF FeedInit, LinkInv
<1>7. QED
  BY <1>2, <1>6 DEF FeedInv

(* Steps of one node that leave the connection and the feeds alone.         *)
LEMMA LinkStands ==
    ASSUME LinkInv, UNCHANGED <<up, feed, feedDate, paired, quiet, inbox>>
    PROVE  LinkInv'
<1>1. \A n \in FeedNodes : InboxFits(n)' = InboxFits(n)
  BY DEF InboxFits, Fits, Asking
<1>2. \A n \in FeedNodes : Leads(n)' = Leads(n)
  BY DEF Leads
<1>3. QED
  BY <1>1, <1>2 DEF LinkInv

(* The connection ends, or there is none.                                   *)
LEMMA NoLink ==
    ASSUME ~paired', quiet' \in BOOLEAN, inbox' = [n \in FeedNodes |-> <<>>], paired' \in BOOLEAN
    PROVE  LinkInv'
<1>1. \A n \in FeedNodes : inbox'[n] = <<>>
  OBVIOUS
<1>2. \A n \in FeedNodes : InboxFits(n)'
  BY <1>1, TwoNodes DEF InboxFits, Fits, Asking
<1>3. inbox' \in [FeedNodes -> Seq(Messages)]
  OBVIOUS
<1>4. QED
  BY <1>1, <1>2, <1>3 DEF LinkInv

LEMMA SecondPassesInv ==
    ASSUME FeedInv, SecondPasses
    PROVE  FeedInv'
<1>1. LinkInv'
  BY LinkStands DEF FeedInv, SecondPasses
<1>2. NodesInv'
  BY FeedAssumption DEF FeedInv, NodesInv, SecondPasses, StoredFollows
<1>3. QED
  BY <1>1, <1>2 DEF FeedInv

LEMMA FeedDisconnectInv ==
    ASSUME FeedInv, FeedDisconnect
    PROVE  FeedInv'
<1>1. LinkInv'
  BY NoLink DEF FeedInv, FeedDisconnect, Unpaired, LinkInv
<1>2. NodesInv'
  BY DEF FeedInv, NodesInv, FeedDisconnect, StoredFollows
<1>3. QED
  BY <1>1, <1>2 DEF FeedInv

LEMMA LoadFeedInv ==
    ASSUME FeedInv, NEW n \in FeedNodes, LoadFeed(n)
    PROVE  FeedInv'
<1>1. PICK read \in BOOLEAN :
        LET f == IF read THEN stored[n] ELSE NoItems
        IN  /\ feed' = [feed EXCEPT ![n] = f]
            /\ feedDate' = [feedDate EXCEPT ![n] = Latest(f)]
            /\ inStep' = [inStep EXCEPT ![n] = read \/ stored[n] = NoItems]
  BY DEF LoadFeed
<1> DEFINE f == IF read THEN stored[n] ELSE NoItems
           well == read \/ stored[n] = NoItems
<1>2. f \in Feeds /\ well \in BOOLEAN /\ (well => f = stored[n])
  BY NoItemsIsAFeed DEF FeedInv, NodesInv
<1>3. /\ feed' = [feed EXCEPT ![n] = f] /\ feedDate' = [feedDate EXCEPT ![n] = Latest(f)]
      /\ inStep' = [inStep EXCEPT ![n] = well]
  BY <1>1
<1> HIDE DEF f, well
<1>4. /\ ~up[n] /\ up' = [up EXCEPT ![n] = TRUE] /\ marked' = [marked EXCEPT ![n] = FALSE]
      /\ UNCHANGED <<stored, paired, inbox, quiet, seconds>>
  BY DEF LoadFeed
<1>5. Latest(f) \in 0..MaxTime /\ (Items(f) # {} => Latest(f) > 0)
  BY <1>2, LatestFacts
<1>6. NodesInv'
  <2>1. StoredFollows'
    BY <1>2, <1>3, <1>4 DEF FeedInv, NodesInv, StoredFollows
  <2>2. \A m \in FeedNodes : Items(feed'[m]) # {} => feedDate'[m] > 0
    BY <1>3, <1>5 DEF FeedInv, NodesInv
  <2>3. feed' \in [FeedNodes -> Feeds] /\ feedDate' \in [FeedNodes -> 0..MaxTime]
    BY <1>2, <1>3, <1>5 DEF FeedInv, NodesInv
  <2>4. up' \in [FeedNodes -> BOOLEAN] /\ marked' \in [FeedNodes -> BOOLEAN] /\ inStep' \in [FeedNodes -> BOOLEAN]
    BY <1>2, <1>3, <1>4 DEF FeedInv, NodesInv
  <2>5. QED
    BY <1>4, <2>1, <2>2, <2>3, <2>4 DEF FeedInv, NodesInv
<1>7. ~paired' /\ paired' \in BOOLEAN /\ quiet' \in BOOLEAN
  BY <1>4 DEF FeedInv, LinkInv
<1>8. inbox' = [m \in FeedNodes |-> <<>>]
  BY <1>4 DEF FeedInv, LinkInv
<1>9. LinkInv'
  BY <1>7, <1>8, NoLink
<1>10. QED
  BY <1>6, <1>9 DEF FeedInv

LEMMA AddByHashInv ==
    ASSUME FeedInv, NEW n \in FeedNodes, NEW h \in Hashes, AddByHash(n, h)
    PROVE  FeedInv'
<1>1. PICK f \in WithItem(feed[n], h) : feed' = [feed EXCEPT ![n] = f]
  BY DEF AddByHash
<1>2. /\ feedDate' = [feedDate EXCEPT ![n] = seconds]
      /\ marked' = [marked EXCEPT ![n] = TRUE] /\ quiet' = FALSE
      /\ UNCHANGED <<up, stored, inStep, paired, inbox, seconds>>
  BY DEF AddByHash
<1>3. f \in Feeds
  BY <1>1, WithItemFacts DEF FeedInv, NodesInv
<1>4. seconds \in 0..MaxTime /\ seconds > 0
  BY FeedAssumption DEF FeedInv, NodesInv
<1>5. NodesInv'
  <2>1. StoredFollows'
    BY <1>1, <1>2 DEF FeedInv, NodesInv, StoredFollows
  <2>2. \A m \in FeedNodes : Items(feed'[m]) # {} => feedDate'[m] > 0
    BY <1>1, <1>2, <1>4 DEF FeedInv, NodesInv
  <2>3. feed' \in [FeedNodes -> Feeds] /\ feedDate' \in [FeedNodes -> 0..MaxTime]
    BY <1>1, <1>2, <1>3, <1>4 DEF FeedInv, NodesInv
  <2>4. marked' \in [FeedNodes -> BOOLEAN]
    BY <1>2 DEF FeedInv, NodesInv
  <2>5. QED
    BY <1>2, <2>1, <2>2, <2>3, <2>4 DEF FeedInv, NodesInv
<1>6. \A m \in FeedNodes : InboxFits(m)' = InboxFits(m)
  BY <1>2 DEF InboxFits, Fits, Asking
<1>7. LinkInv'
  BY <1>2, <1>6 DEF FeedInv, LinkInv
<1>8. QED
  BY <1>5, <1>7 DEF FeedInv

(* A node writes its table, or leaves it.                                   *)
LEMMA PersistNowInv ==
    ASSUME NodesInv, NEW n \in FeedNodes, PersistNow(n), UNCHANGED <<feed, feedDate, seconds>>,
           up' \in [FeedNodes -> BOOLEAN], \A m \in FeedNodes : up'[m] => up[m]
    PROVE  NodesInv'
<1>1. PICK w \in Rewritten(n) : stored' = [stored EXCEPT ![n] = w.table] /\ inStep' = [inStep EXCEPT ![n] = w.whole]
  BY DEF PersistNow
<1>2. marked' = [marked EXCEPT ![n] = FALSE]
  BY DEF PersistNow
<1>3. w.table \in Feeds /\ w.whole \in BOOLEAN /\ (w.whole => w.table = feed[n])
  BY RewrittenFacts
<1>4. StoredFollows'
  BY <1>1, <1>2, <1>3 DEF NodesInv, StoredFollows
<1>5. /\ marked' \in [FeedNodes -> BOOLEAN] /\ inStep' \in [FeedNodes -> BOOLEAN]
      /\ stored' \in [FeedNodes -> Feeds]
  BY <1>1, <1>2, <1>3 DEF NodesInv
<1>6. QED
  BY <1>4, <1>5 DEF NodesInv

LEMMA FlushInv ==
    ASSUME FeedInv, NEW n \in FeedNodes, Flush(n)
    PROVE  FeedInv'
<1>1. PersistNow(n) /\ UNCHANGED <<up, feed, feedDate, paired, inbox, quiet, seconds>>
  BY DEF Flush
<1>2. NodesInv'
  BY <1>1, PersistNowInv DEF FeedInv, NodesInv
<1>3. LinkInv'
  BY <1>1, LinkStands DEF FeedInv
<1>4. QED
  BY <1>2, <1>3 DEF FeedInv

LEMMA SaveFeedInv ==
    ASSUME FeedInv, NEW n \in FeedNodes, SaveFeed(n)
    PROVE  FeedInv'
<1>1. /\ up' = [up EXCEPT ![n] = FALSE] /\ Unpaired /\ UNCHANGED <<feed, feedDate, quiet, seconds>>
      /\ IF marked[n] THEN PersistNow(n) ELSE UNCHANGED <<stored, inStep, marked, failures>>
  BY DEF SaveFeed
<1>2. up' \in [FeedNodes -> BOOLEAN] /\ \A m \in FeedNodes : up'[m] => up[m]
  BY <1>1 DEF FeedInv, NodesInv
<1>3. NodesInv'
  <2>1. CASE marked[n]
    BY <1>1, <1>2, <2>1, PersistNowInv DEF FeedInv
  <2>2. CASE ~marked[n]
    BY <1>1, <1>2, <2>2 DEF FeedInv, NodesInv, StoredFollows
  <2>3. QED
    BY <2>1, <2>2
<1>4. LinkInv'
  BY <1>1, NoLink DEF FeedInv, LinkInv, Unpaired
<1>5. QED
  BY <1>3, <1>4 DEF FeedInv

LEMMA FeedKilledInv ==
    ASSUME FeedInv, NEW n \in FeedNodes, FeedKilled(n)
    PROVE  FeedInv'
<1>1. /\ up' = [up EXCEPT ![n] = FALSE] /\ marked' = [marked EXCEPT ![n] = FALSE] /\ Unpaired
      /\ UNCHANGED <<feed, feedDate, inStep, quiet, seconds>>
  BY DEF FeedKilled
<1>2. PICK t \in {stored[n]} \cup {w.table : w \in IF marked[n] THEN Rewritten(n) ELSE {}} :
        stored' = [stored EXCEPT ![n] = t]
  BY DEF FeedKilled
<1>3. t \in Feeds
  BY <1>2, RewrittenFacts DEF FeedInv, NodesInv
<1>4. StoredFollows'
  BY <1>1, <1>2 DEF FeedInv, NodesInv, StoredFollows
<1>5. /\ up' \in [FeedNodes -> BOOLEAN] /\ marked' \in [FeedNodes -> BOOLEAN] /\ stored' \in [FeedNodes -> Feeds]
  BY <1>1, <1>2, <1>3 DEF FeedInv, NodesInv
<1>6. NodesInv'
  BY <1>1, <1>4, <1>5 DEF FeedInv, NodesInv
<1>7. LinkInv'
  BY <1>1, NoLink DEF FeedInv, LinkInv, Unpaired
<1>8. QED
  BY <1>6, <1>7 DEF FeedInv

(* What is in an inbox, message by message.                                 *)
LEMMA InboxFacts ==
    ASSUME NEW own \in Seq(Messages), NEW other \in Seq(Messages), Fits(own, other)
    PROVE  /\ Len(own) \in Nat
           /\ own # <<>> <=> Len(own) > 0
           /\ \A i \in 1..Len(own) : own[i] \in Messages
           /\ \A i \in 1..Len(own) : Response(own[i]) \/ (i = 1 /\ Asking(own))
<1>1. Len(own) \in Nat /\ (own # <<>> <=> Len(own) > 0) /\ \A i \in 1..Len(own) : own[i] \in Messages
  BY ElementOfSeq, EmptySeq
<1>2. ASSUME NEW i \in 1..Len(own), ~Response(own[i]) PROVE i = 1 /\ Asking(own)
  <2>1. i = 1
    <3>1. i \notin 2..Len(own)
      BY <1>2 DEF Fits
    <3>2. QED
      BY <1>1, <3>1
  <2>2. own[1].kind = "feed"
    <3>1. own[1] \in Messages /\ own[1].kind # "feed_response"
      BY <1>1, <1>2, <2>1 DEF Response
    <3>2. QED
      BY <3>1 DEF Messages
  <2>3. QED
    BY <1>1, <2>1, <2>2 DEF Asking
<1>3. QED
  BY <1>1, <1>2

(* A node answers the request it has.                                       *)
LEMMA RequestFits ==
    ASSUME NEW own \in Seq(Messages), NEW other \in Seq(Messages), Fits(own, other), Fits(other, own),
           Asking(own), NEW m \in Messages, Response(m)
    PROVE  /\ Tail(own) \in Seq(Messages) /\ Append(other, m) \in Seq(Messages)
           /\ \A i \in 1..Len(Tail(own)) : i + 1 \in 1..Len(own) /\ Tail(own)[i] = own[i + 1] /\ Response(own[i + 1])
           /\ \A i \in 1..Len(own) : Response(own[i]) => i - 1 \in 1..Len(Tail(own)) /\ Tail(own)[i - 1] = own[i]
           /\ \A i \in 1..Len(Append(other, m)) : Append(other, m)[i] = m \/ (i \in 1..Len(other) /\ Append(other, m)[i] = other[i])
           /\ \A i \in 1..Len(other) : i \in 1..Len(Append(other, m)) /\ Append(other, m)[i] = other[i]
           /\ \E i \in 1..Len(Append(other, m)) : Append(other, m)[i] = m
           /\ ~Asking(Tail(own)) /\ (Asking(Append(other, m)) <=> Asking(other))
           /\ Fits(Tail(own), Append(other, m)) /\ Fits(Append(other, m), Tail(own))
<1> DEFINE t == Tail(own)
           a == Append(other, m)
<1>1. Len(own) \in Nat \ {0} /\ Len(other) \in Nat
  BY InboxFacts DEF Asking
<1>2. /\ t \in Seq(Messages) /\ Len(t) = Len(own) - 1
      /\ \A i \in 1..Len(t) : t[i] = own[i + 1]
  BY HeadTailProperties DEF Asking
<1>3. /\ a \in Seq(Messages) /\ a # <<>> /\ Len(a) = Len(other) + 1
      /\ \A i \in 1..Len(other) : a[i] = other[i]
      /\ a[Len(other) + 1] = m
  BY AppendProperties
<1> HIDE DEF t, a
<1>4. \A i \in 1..Len(t) : i + 1 \in 2..Len(own) /\ i + 1 \in 1..Len(own)
  BY <1>1, <1>2
<1>5. \A i \in 1..Len(t) : i + 1 \in 1..Len(own) /\ t[i] = own[i + 1] /\ Response(own[i + 1])
  BY <1>2, <1>4 DEF Fits
<1>6. \A i \in 1..Len(own) : Response(own[i]) => i - 1 \in 1..Len(t) /\ t[i - 1] = own[i]
  <2> SUFFICES ASSUME NEW i \in 1..Len(own), Response(own[i]) PROVE i - 1 \in 1..Len(t) /\ t[i - 1] = own[i]
    OBVIOUS
  <2>1. i # 1
    BY DEF Response, Asking
  <2>2. i - 1 \in 1..Len(t) /\ (i - 1) + 1 = i
    BY <1>1, <1>2, <2>1
  <2>3. QED
    BY <1>2, <2>2
<1>7. \A i \in 1..Len(a) : a[i] = m \/ (i \in 1..Len(other) /\ a[i] = other[i])
  <2> SUFFICES ASSUME NEW i \in 1..Len(a) PROVE a[i] = m \/ (i \in 1..Len(other) /\ a[i] = other[i])
    OBVIOUS
  <2>1. i = Len(other) + 1 \/ i \in 1..Len(other)
    BY <1>1, <1>3
  <2>2. QED
    BY <1>3, <2>1
<1>8. /\ \A i \in 1..Len(other) : i \in 1..Len(a) /\ a[i] = other[i]
      /\ Len(other) + 1 \in 1..Len(a)
  BY <1>1, <1>3
<1>9. ~Asking(t)
  <2>1. CASE t = <<>>
    BY <2>1 DEF Asking
  <2>2. CASE t # <<>>
    <3>1. 1 \in 1..Len(t)
      BY <1>2, <2>2, EmptySeq
    <3>2. QED
      BY <1>5, <3>1 DEF Asking, Response
  <2>3. QED
    BY <2>1, <2>2
<1>10. Asking(a) <=> Asking(other)
  <2>1. CASE Len(other) = 0
    <3>1. other = <<>> /\ a[1] = m
      BY <1>1, <1>3, <2>1, EmptySeq
    <3>2. QED
      BY <3>1 DEF Asking, Response
  <2>2. CASE Len(other) # 0
    <3>1. 1 \in 1..Len(other) /\ other # <<>>
      BY <1>1, <2>2, EmptySeq
    <3>2. QED
      BY <1>3, <3>1 DEF Asking
  <2>3. QED
    BY <2>1, <2>2
<1>11. Fits(t, a)
  <2>1. \A i \in 2..Len(t) : Response(t[i])
    BY <1>1, <1>2, <1>5
  <2>2. Len(own) <= 1 + (IF Asking(other) THEN 0 ELSE 1)
    BY DEF Fits
  <2>3. Len(t) <= (IF Asking(t) THEN 1 ELSE 0) + (IF Asking(a) THEN 0 ELSE 1)
    BY <1>1, <1>2, <1>9, <1>10, <2>2
  <2>4. QED
    BY <2>1, <2>3 DEF Fits
<1>12. Fits(a, t)
  <2>1. \A i \in 2..Len(a) : Response(a[i])
    <3> SUFFICES ASSUME NEW i \in 2..Len(a) PROVE Response(a[i])
      OBVIOUS
    <3>1. CASE i \in 1..Len(other)
      <4>1. i \in 2..Len(other)
        BY <1>1, <3>1
      <4>2. QED
        BY <1>3, <3>1, <4>1 DEF Fits
    <3>2. CASE i = Len(other) + 1
      BY <1>3, <3>2
    <3>3. QED
      BY <1>1, <1>3, <3>1, <3>2
  <2>2. Len(other) <= (IF Asking(other) THEN 1 ELSE 0) + 0
    BY DEF Fits
  <2>3. Len(a) <= (IF Asking(a) THEN 1 ELSE 0) + (IF Asking(t) THEN 0 ELSE 1)
    BY <1>1, <1>3, <1>9, <1>10, <2>2
  <2>4. QED
    BY <2>1, <2>3 DEF Fits
<1>13. QED
  BY <1>2, <1>3, <1>5, <1>6, <1>7, <1>8, <1>9, <1>10, <1>11, <1>12 DEF t, a

(* A node takes the response it has.                                        *)
LEMMA ResponseFits ==
    ASSUME NEW own \in Seq(Messages), NEW other \in Seq(Messages), Fits(own, other), Fits(other, own),
           own # <<>>, Response(own[1])
    PROVE  /\ Tail(own) \in Seq(Messages)
           /\ \A i \in 1..Len(Tail(own)) : i + 1 \in 1..Len(own) /\ Tail(own)[i] = own[i + 1]
           /\ ~Asking(own) /\ ~Asking(Tail(own))
           /\ Fits(Tail(own), other) /\ Fits(other, Tail(own))
<1> DEFINE t == Tail(own)
<1>1. Len(own) \in Nat \ {0} /\ ~Asking(own)
  BY InboxFacts DEF Asking, Response
<1>2. /\ t \in Seq(Messages) /\ Len(t) = Len(own) - 1
      /\ \A i \in 1..Len(t) : t[i] = own[i + 1]
  BY HeadTailProperties
<1> HIDE DEF t
<1>3. \A i \in 1..Len(t) : i + 1 \in 2..Len(own) /\ i + 1 \in 1..Len(own)
  BY <1>1, <1>2
<1>4. \A i \in 1..Len(t) : Response(t[i])
  BY <1>2, <1>3 DEF Fits
<1>5. ~Asking(t)
  <2>1. CASE t = <<>>
    BY <2>1 DEF Asking
  <2>2. CASE t # <<>>
    <3>1. 1 \in 1..Len(t)
      BY <1>2, <2>2, EmptySeq
    <3>2. QED
      BY <1>4, <3>1 DEF Asking, Response
  <2>3. QED
    BY <2>1, <2>2
<1>6. Fits(t, other)
  <2>1. Len(own) <= 0 + (IF Asking(other) THEN 0 ELSE 1)
    BY <1>1 DEF Fits
  <2>2. Len(t) <= (IF Asking(t) THEN 1 ELSE 0) + (IF Asking(other) THEN 0 ELSE 1)
    BY <1>1, <1>2, <1>5, <2>1
  <2>3. \A i \in 2..Len(t) : Response(t[i])
    BY <1>1, <1>2, <1>4
  <2>4. QED
    BY <2>2, <2>3 DEF Fits
<1>7. Fits(other, t)
  BY <1>1, <1>5 DEF Fits
<1>8. QED
  BY <1>1, <1>2, <1>3, <1>5, <1>6, <1>7 DEF t

(* The four messages, each as the leader or the other node takes it.        *)
LEMMA LeaderAnswers ==
    ASSUME NEW f, NEW d, NEW g, NEW e, NEW own \in Seq(Messages), NEW other \in Seq(Messages),
           Fits(own, other), Fits(other, own), Leading(f, d, g, e, own, other), Asking(own),
           NEW m \in Messages, Response(m), m.items = f, m.date = d
    PROVE  Leading(f, d, g, e, Tail(own), Append(other, m))
<1>1. \A i \in 1..Len(Tail(own)) : Response(Tail(own)[i]) => ~Beats(Tail(own)[i].items, Tail(own)[i].date, f, d)
  BY RequestFits DEF Leading
<1>2. \A i \in 1..Len(Append(other, m)) : Response(Append(other, m)[i]) => Append(other, m)[i].items = f /\ Append(other, m)[i].date = d
  BY RequestFits DEF Leading
<1>3. \E i \in 1..Len(Append(other, m)) : Response(Append(other, m)[i])
  BY RequestFits
<1>4. QED
  BY <1>1, <1>2, <1>3 DEF Leading

LEMMA OtherAnswers ==
    ASSUME NEW f, NEW d, NEW g, NEW e, NEW own \in Seq(Messages), NEW other \in Seq(Messages),
           Fits(own, other), Fits(other, own), Leading(f, d, g, e, own, other), Asking(other),
           NEW m \in Messages, Response(m), m.items = g, m.date = e
    PROVE  Leading(f, d, g, e, Append(own, m), Tail(other))
<1>1. \A i \in 1..Len(Append(own, m)) : Response(Append(own, m)[i]) => ~Beats(Append(own, m)[i].items, Append(own, m)[i].date, f, d)
  BY RequestFits DEF Leading
<1>2. \A i \in 1..Len(Tail(other)) : Response(Tail(other)[i]) => Tail(other)[i].items = f /\ Tail(other)[i].date = d
  BY RequestFits DEF Leading
<1>3. ASSUME NEW i \in 1..Len(other), Response(other[i]) PROVE \E j \in 1..Len(Tail(other)) : Response(Tail(other)[j])
  BY <1>3, RequestFits
<1>4. Asking(Append(own, m)) <=> Asking(own)
  BY RequestFits
<1>5. QED
  BY <1>1, <1>2, <1>3, <1>4 DEF Leading

LEMMA LeaderHears ==
    ASSUME NEW f, NEW d, NEW g, NEW e, NEW own \in Seq(Messages), NEW other \in Seq(Messages),
           Fits(own, other), Fits(other, own), Leading(f, d, g, e, own, other), own # <<>>, Response(own[1])
    PROVE  /\ ~Beats(own[1].items, own[1].date, f, d)
           /\ Leading(f, d, g, e, Tail(own), other)
<1>1. 1 \in 1..Len(own)
  BY InboxFacts
<1>2. ~Asking(own) /\ \A i \in 1..Len(Tail(own)) : i + 1 \in 1..Len(own) /\ Tail(own)[i] = own[i + 1]
  BY ResponseFits
<1>3. QED
  BY <1>1, <1>2 DEF Leading

LEMMA OtherHears ==
    ASSUME NEW f, NEW d \in Nat, NEW g, NEW e \in Nat, NEW own \in Seq(Messages), NEW other \in Seq(Messages),
           Fits(own, other), Fits(other, own), Leading(f, d, g, e, own, other), other # <<>>, Response(other[1])
    PROVE  /\ other[1].items = f /\ other[1].date = d
           /\ Leading(f, d, f, d, own, Tail(other))
           /\ ~Beats(f, d, g, e) => Leading(f, d, g, e, own, Tail(other))
<1>1. 1 \in 1..Len(other)
  BY InboxFacts
<1>2. \A i \in 1..Len(Tail(other)) : i + 1 \in 1..Len(other) /\ Tail(other)[i] = other[i + 1]
  BY ResponseFits
<1>3. Size(f) \in Nat /\ Size(g) \in Nat
  BY SizeFacts
<1>4. ~Beats(f, d, f, d)
  BY <1>3 DEF Beats
<1>5. ~Beats(g, e, f, d) /\ ~Beats(f, d, g, e) => Size(f) = Size(g) /\ d = e
  BY <1>3 DEF Beats
<1>6. QED
  BY <1>1, <1>2, <1>4, <1>5 DEF Leading

LEMMA BoxesFit ==
    ASSUME LinkInv, NEW n \in FeedNodes
    PROVE  /\ inbox[n] \in Seq(Messages) /\ inbox[OtherNode(n)] \in Seq(Messages)
           /\ Fits(inbox[n], inbox[OtherNode(n)]) /\ Fits(inbox[OtherNode(n)], inbox[n])
BY TwoNodes DEF LinkInv, InboxFits

LEMMA FeedConnectInv ==
    ASSUME FeedInv, FeedConnect
    PROVE  FeedInv'
<1>1. /\ \A n \in FeedNodes : up[n]
      /\ paired' = TRUE /\ quiet' = TRUE /\ inbox' = [n \in FeedNodes |-> <<FeedRequest>>]
      /\ UNCHANGED <<up, feed, feedDate, marked, stored, inStep, seconds>>
  BY DEF FeedConnect
<1>2. NodesInv'
  BY <1>1 DEF FeedInv, NodesInv, StoredFollows
<1>3. FeedRequest \in Messages /\ ~Response(FeedRequest) /\ Asking(<<FeedRequest>>) /\ Len(<<FeedRequest>>) = 1
  BY NoItemsIsAFeed, FeedAssumption DEF FeedRequest, Messages, Response, Asking
<1>4. \A n \in FeedNodes : inbox'[n] = <<FeedRequest>>
  BY <1>1
<1>5. inbox' \in [FeedNodes -> Seq(Messages)]
  BY <1>1, <1>3
<1>6. Fits(<<FeedRequest>>, <<FeedRequest>>)
  BY <1>3 DEF Fits
<1>7. \A n \in FeedNodes : InboxFits(n)'
  BY <1>4, <1>6, TwoNodes DEF InboxFits
<1>8. \E n \in FeedNodes : ~Beats(feed[OtherNode(n)], feedDate[OtherNode(n)], feed[n], feedDate[n])
  <2>1. PICK n : n \in FeedNodes
    BY FeedAssumption
  <2> DEFINE o == OtherNode(n)
  <2>2. o \in FeedNodes /\ OtherNode(o) = n
    BY <2>1, TwoNodes
  <2>3. /\ Size(feed[n]) \in Nat /\ Size(feed[o]) \in Nat /\ feedDate[n] \in Nat /\ feedDate[o] \in Nat
    BY <2>1, <2>2, SizeFacts, FeedAssumption DEF FeedInv, NodesInv
  <2>4. ~Beats(feed[o], feedDate[o], feed[n], feedDate[n]) \/ ~Beats(feed[n], feedDate[n], feed[o], feedDate[o])
    BY <2>3 DEF Beats
  <2>5. QED
    BY <2>1, <2>2, <2>4
<1>9. \E n \in FeedNodes : Leads(n)'
  <2>1. PICK n \in FeedNodes : ~Beats(feed[OtherNode(n)], feedDate[OtherNode(n)], feed[n], feedDate[n])
    BY <1>8
  <2>2. \A i \in 1..Len(<<FeedRequest>>) : ~Response(<<FeedRequest>>[i])
    BY <1>3
  <2>3. Leading(feed[n], feedDate[n], feed[OtherNode(n)], feedDate[OtherNode(n)], <<FeedRequest>>, <<FeedRequest>>)
    BY <1>3, <2>1, <2>2 DEF Leading
  <2>4. inbox'[n] = <<FeedRequest>> /\ inbox'[OtherNode(n)] = <<FeedRequest>>
    BY <1>4, TwoNodes
  <2>5. Leads(n)'
    BY <1>1, <2>3, <2>4 DEF Leads
  <2>6. QED
    BY <2>5
<1>10. LinkInv'
  BY <1>1, <1>5, <1>7, <1>9 DEF LinkInv
<1>11. QED
  BY <1>2, <1>10 DEF FeedInv

LEMMA HandleFeedRequestInv ==
    ASSUME FeedInv, NEW n \in FeedNodes, HandleFeedRequest(n)
    PROVE  FeedInv'
<1> DEFINE o == OtherNode(n)
           answer == FeedResponse(feed[n], feedDate[n])
<1>1. /\ inbox[n] # <<>> /\ Head(inbox[n]).kind = "feed"
      /\ inbox' = [inbox EXCEPT ![n] = Tail(@), ![o] = Append(@, answer)]
      /\ UNCHANGED <<up, feed, feedDate, marked, stored, inStep, paired, quiet, seconds>>
  BY DEF HandleFeedRequest
<1>2. o \in FeedNodes /\ o # n /\ OtherNode(o) = n /\ OtherNode(n) = o /\ \A m \in FeedNodes : m = n \/ m = o
  BY TwoNodes
<1>3. answer \in Messages /\ Response(answer) /\ answer.items = feed[n] /\ answer.date = feedDate[n]
  BY DEF FeedResponse, Messages, Response, FeedInv, NodesInv
<1> HIDE DEF o, answer
<1>4. inbox'[n] = Tail(inbox[n]) /\ inbox'[o] = Append(inbox[o], answer)
  BY <1>1, <1>2 DEF FeedInv, LinkInv
<1>5. /\ inbox[n] \in Seq(Messages) /\ inbox[o] \in Seq(Messages)
      /\ Fits(inbox[n], inbox[o]) /\ Fits(inbox[o], inbox[n])
  BY <1>2, BoxesFit DEF FeedInv
<1>6. Asking(inbox[n])
  BY <1>1, <1>5 DEF Asking
<1>7. Fits(inbox'[n], inbox'[o]) /\ Fits(inbox'[o], inbox'[n])
  BY <1>3, <1>4, <1>5, <1>6, RequestFits
<1>8. \A m \in FeedNodes : InboxFits(m)'
  BY <1>2, <1>7 DEF InboxFits
<1>9. inbox' \in [FeedNodes -> Seq(Messages)]
  <2>1. Tail(inbox[n]) \in Seq(Messages) /\ Append(inbox[o], answer) \in Seq(Messages)
    BY <1>3, <1>5, <1>6, RequestFits
  <2>2. QED
    BY <1>1, <1>2, <2>1 DEF FeedInv, LinkInv
<1>10. ASSUME paired, quiet PROVE \E m \in FeedNodes : Leads(m)'
  <2>1. PICK m \in FeedNodes : Leads(m)
    BY <1>10 DEF FeedInv, LinkInv
  <2>2. CASE m = n
    <3>1. Leading(feed[n], feedDate[n], feed[o], feedDate[o], inbox[n], inbox[o])
      BY <1>2, <2>1, <2>2 DEF Leads
    <3>2. Leading(feed[n], feedDate[n], feed[o], feedDate[o], inbox'[n], inbox'[o])
      BY <1>3, <1>4, <1>5, <1>6, <3>1, LeaderAnswers
    <3>3. Leads(n)'
      BY <1>1, <1>2, <3>2 DEF Leads
    <3>4. QED
      BY <3>3
  <2>3. CASE m = o
    <3>1. Leading(feed[o], feedDate[o], feed[n], feedDate[n], inbox[o], inbox[n])
      BY <1>2, <2>1, <2>3 DEF Leads
    <3>2. Leading(feed[o], feedDate[o], feed[n], feedDate[n], inbox'[o], inbox'[n])
      BY <1>3, <1>4, <1>5, <1>6, <3>1, OtherAnswers
    <3>3. Leads(o)'
      BY <1>1, <1>2, <3>2 DEF Leads
    <3>4. QED
      BY <1>2, <3>3
  <2>4. QED
    BY <1>2, <2>2, <2>3
<1>11. LinkInv'
  <2>1. paired
    BY <1>1 DEF FeedInv, LinkInv
  <2>2. QED
    BY <1>1, <1>8, <1>9, <1>10, <2>1 DEF FeedInv, LinkInv
<1>12. NodesInv'
  BY <1>1 DEF FeedInv, NodesInv, StoredFollows
<1>13. QED
  BY <1>11, <1>12 DEF FeedInv

LEMMA HandleFeedResponseInv ==
    ASSUME FeedInv, NEW n \in FeedNodes, HandleFeedResponse(n)
    PROVE  FeedInv'
<1> DEFINE o == OtherNode(n)
           r == Head(inbox[n])
<1>1. /\ inbox[n] # <<>> /\ r.kind = "feed_response"
      /\ inbox' = [inbox EXCEPT ![n] = Tail(@)]
      /\ UNCHANGED <<up, stored, inStep, paired, quiet, seconds>>
      /\ IF Replaces(n, r)
         THEN /\ feed' = [feed EXCEPT ![n] = r.items]
              /\ feedDate' = [feedDate EXCEPT ![n] = IF r.date > 0 THEN r.date ELSE seconds]
              /\ marked' = [marked EXCEPT ![n] = TRUE]
         ELSE UNCHANGED <<feed, feedDate, marked>>
  BY DEF HandleFeedResponse, MarkDirty
<1>2. o \in FeedNodes /\ o # n /\ OtherNode(o) = n /\ OtherNode(n) = o /\ \A m \in FeedNodes : m = n \/ m = o
  BY TwoNodes
<1>3. /\ inbox[n] \in Seq(Messages) /\ inbox[o] \in Seq(Messages)
      /\ Fits(inbox[n], inbox[o]) /\ Fits(inbox[o], inbox[n])
  BY <1>2, BoxesFit DEF FeedInv
<1>4. r = inbox[n][1] /\ r \in Messages
  BY <1>1, <1>3, HeadTailProperties
<1>5. Response(r) /\ r.items \in Feeds /\ r.date \in 0..MaxTime /\ (Items(r.items) # {} => r.date > 0)
  BY <1>1, <1>4 DEF Response, Messages
<1> HIDE DEF o, r
<1>6. Replaces(n, r) <=> Beats(r.items, r.date, feed[n], feedDate[n])
  BY DEF Replaces, Beats
<1>7. inbox'[n] = Tail(inbox[n]) /\ inbox'[o] = inbox[o]
  BY <1>1, <1>2 DEF FeedInv, LinkInv
<1>8. ASSUME Replaces(n, r)
      PROVE  r.date > 0 /\ feed' = [feed EXCEPT ![n] = r.items] /\ feedDate' = [feedDate EXCEPT ![n] = r.date]
  <2>1. Size(feed[n]) \in Nat /\ Size(r.items) \in Nat /\ feedDate[n] \in 0..MaxTime
    BY SizeFacts DEF FeedInv, NodesInv
  <2>2. r.date > 0
    <3>1. CASE Size(r.items) > Size(feed[n])
      BY <1>5, <2>1, <3>1, SizeFacts
    <3>2. CASE r.date > feedDate[n]
      BY <1>5, <2>1, <3>2, FeedAssumption
    <3>3. QED
      BY <1>6, <1>8, <3>1, <3>2 DEF Beats
  <2>3. QED
    BY <1>1, <1>8, <2>2
<1>9. NodesInv'
  <2>1. CASE Replaces(n, r)
    <3>1. /\ feed' = [feed EXCEPT ![n] = r.items] /\ feedDate' = [feedDate EXCEPT ![n] = r.date]
          /\ marked' = [marked EXCEPT ![n] = TRUE] /\ r.date > 0
      BY <1>1, <1>8, <2>1
    <3>2. feed' \in [FeedNodes -> Feeds] /\ feedDate' \in [FeedNodes -> 0..MaxTime] /\ marked' \in [FeedNodes -> BOOLEAN]
      BY <1>5, <3>1 DEF FeedInv, NodesInv
    <3>3. \A m \in FeedNodes : Items(feed'[m]) # {} => feedDate'[m] > 0
      BY <3>1 DEF FeedInv, NodesInv
    <3>4. StoredFollows'
      BY <1>1, <3>1 DEF FeedInv, NodesInv, StoredFollows
    <3>5. QED
      BY <1>1, <3>2, <3>3, <3>4 DEF FeedInv, NodesInv
  <2>2. CASE ~Replaces(n, r)
    BY <1>1, <2>2 DEF FeedInv, NodesInv, StoredFollows
  <2>3. QED
    BY <2>1, <2>2
<1>10. \A m \in FeedNodes : InboxFits(m)'
  <2>1. Fits(inbox'[n], inbox'[o]) /\ Fits(inbox'[o], inbox'[n])
    BY <1>1, <1>3, <1>4, <1>5, <1>7, ResponseFits
  <2>2. QED
    BY <1>2, <2>1 DEF InboxFits
<1>11. inbox' \in [FeedNodes -> Seq(Messages)]
  <2>1. Tail(inbox[n]) \in Seq(Messages)
    BY <1>1, <1>3, HeadTailProperties
  <2>2. QED
    BY <1>1, <2>1 DEF FeedInv, LinkInv
<1>12. ASSUME paired, quiet PROVE \E m \in FeedNodes : Leads(m)'
  <2>1. PICK m \in FeedNodes : Leads(m)
    BY <1>12 DEF FeedInv, LinkInv
  <2>2. feedDate[n] \in Nat /\ feedDate[o] \in Nat
    BY <1>2, FeedAssumption DEF FeedInv, NodesInv
  <2>3. CASE m = n
    <3>1. Leading(feed[n], feedDate[n], feed[o], feedDate[o], inbox[n], inbox[o])
      BY <1>2, <2>1, <2>3 DEF Leads
    <3>2. /\ ~Beats(r.items, r.date, feed[n], feedDate[n])
          /\ Leading(feed[n], feedDate[n], feed[o], feedDate[o], inbox'[n], inbox'[o])
      BY <1>1, <1>3, <1>4, <1>5, <1>7, <3>1, LeaderHears
    <3>3. UNCHANGED <<feed, feedDate>>
      BY <1>1, <1>6, <3>2
    <3>4. Leads(n)'
      BY <1>2, <3>2, <3>3 DEF Leads
    <3>5. QED
      BY <3>4
  <2>4. CASE m = o
    <3>1. Leading(feed[o], feedDate[o], feed[n], feedDate[n], inbox[o], inbox[n])
      BY <1>2, <2>1, <2>4 DEF Leads
    <3>2. /\ r.items = feed[o] /\ r.date = feedDate[o]
          /\ Leading(feed[o], feedDate[o], feed[o], feedDate[o], inbox'[o], inbox'[n])
          /\ ~Beats(feed[o], feedDate[o], feed[n], feedDate[n])
               => Leading(feed[o], feedDate[o], feed[n], feedDate[n], inbox'[o], inbox'[n])
      <4>1. inbox[n] # <<>> /\ Response(inbox[n][1])
        BY <1>1, <1>4, <1>5
      <4>2. /\ inbox[n][1].items = feed[o] /\ inbox[n][1].date = feedDate[o]
            /\ Leading(feed[o], feedDate[o], feed[o], feedDate[o], inbox[o], Tail(inbox[n]))
            /\ ~Beats(feed[o], feedDate[o], feed[n], feedDate[n])
                 => Leading(feed[o], feedDate[o], feed[n], feedDate[n], inbox[o], Tail(inbox[n]))
        BY <1>3, <2>2, <3>1, <4>1, OtherHears
      <4>3. QED
        BY <1>4, <1>7, <4>2
    <3>3. Leading(feed'[o], feedDate'[o], feed'[n], feedDate'[n], inbox'[o], inbox'[n])
      <4>1. CASE Replaces(n, r)
        <5>1. feed'[n] = feed[o] /\ feedDate'[n] = feedDate[o] /\ feed'[o] = feed[o] /\ feedDate'[o] = feedDate[o]
          BY <1>2, <1>8, <3>2, <4>1 DEF FeedInv, NodesInv
        <5>2. QED
          BY <3>2, <5>1
      <4>2. CASE ~Replaces(n, r)
        BY <1>1, <1>6, <3>2, <4>2
      <4>3. QED
        BY <4>1, <4>2
    <3>4. Leads(o)'
      BY <1>2, <3>3 DEF Leads
    <3>5. QED
      BY <1>2, <3>4
  <2>5. QED
    BY <1>2, <2>3, <2>4
<1>13. LinkInv'
  <2>1. paired
    BY <1>1 DEF FeedInv, LinkInv
  <2>2. QED
    BY <1>1, <1>10, <1>11, <1>12, <2>1 DEF FeedInv, LinkInv
<1>14. QED
  BY <1>9, <1>13 DEF FeedInv

LEMMA FeedNextInv ==
    ASSUME FeedInv, FeedNext
    PROVE  FeedInv'
<1>1. ASSUME NEW n \in FeedNodes, FeedStep(n) PROVE FeedInv'
  BY <1>1, LoadFeedInv, FlushInv, SaveFeedInv, FeedKilledInv, AddByHashInv, HandleFeedRequestInv, HandleFeedResponseInv
     DEF FeedStep
<1>2. QED
  BY <1>1, SecondPassesInv, FeedConnectInv, FeedDisconnectInv DEF FeedNext

LEMMA FeedStutter ==
    ASSUME FeedInv, UNCHANGED feedVars
    PROVE  FeedInv'
<1>1. UNCHANGED <<up, feed, feedDate, marked, stored, inStep, paired, inbox, quiet, seconds>>
  BY DEF feedVars
<1>2. LinkInv'
  BY <1>1, LinkStands DEF FeedInv
<1>3. NodesInv'
  BY <1>1 DEF FeedInv, NodesInv, StoredFollows
<1>4. QED
  BY <1>2, <1>3 DEF FeedInv

LEMMA FeedInvMeans == FeedInv => FeedTypeOK /\ FeedsMeet /\ StoredFollows
<1> SUFFICES ASSUME FeedInv PROVE FeedTypeOK /\ FeedsMeet /\ StoredFollows
  OBVIOUS
<1>1. FeedTypeOK
  <2>1. feed \in [FeedNodes -> [Hashes -> 0..MaxTime]] /\ stored \in [FeedNodes -> [Hashes -> 0..MaxTime]]
    BY DEF FeedInv, NodesInv, Feeds
  <2>2. \A n \in FeedNodes : Size(feed[n]) <= MaxSize /\ Size(stored[n]) <= MaxSize
    BY DEF FeedInv, NodesInv, Feeds
  <2>3. \A n \in FeedNodes : Len(inbox[n]) <= 2
    <3> SUFFICES ASSUME NEW n \in FeedNodes PROVE Len(inbox[n]) <= 2
      OBVIOUS
    <3>1. Len(inbox[n]) <= (IF Asking(inbox[n]) THEN 1 ELSE 0) + (IF Asking(inbox[OtherNode(n)]) THEN 0 ELSE 1)
      BY DEF FeedInv, LinkInv, InboxFits, Fits
    <3>2. Len(inbox[n]) \in Nat
      BY BoxesFit DEF FeedInv
    <3>3. QED
      BY <3>1, <3>2
  <2>4. \A n \in FeedNodes : ~paired => inbox[n] = <<>>
    BY DEF FeedInv, LinkInv
  <2>5. QED
    BY <2>1, <2>2, <2>3, <2>4 DEF FeedTypeOK, FeedInv, NodesInv
<1>2. FeedsMeet
  <2> SUFFICES ASSUME paired, quiet, \A n \in FeedNodes : inbox[n] = <<>>, NEW n \in FeedNodes, NEW o \in FeedNodes
               PROVE  \/ feed[n] = feed[o]
                      \/ n # o /\ Size(feed[n]) = Size(feed[o]) /\ feedDate[n] = feedDate[o]
    BY DEF FeedsMeet
  <2>1. PICK m \in FeedNodes : Leads(m)
    BY DEF FeedInv, LinkInv
  <2> DEFINE k == OtherNode(m)
  <2>2. k \in FeedNodes /\ \A j \in FeedNodes : j = m \/ j = k
    BY TwoNodes
  <2>3. inbox[m] = <<>> /\ inbox[k] = <<>> /\ Len(inbox[k]) = 0
    BY <2>2
  <2>4. Size(feed[m]) = Size(feed[k]) /\ feedDate[m] = feedDate[k]
    BY <2>1, <2>3 DEF Leads, Leading, Asking
  <2>5. QED
    BY <2>2, <2>4
<1>3. QED
  BY <1>1, <1>2 DEF FeedInv, NodesInv

-----------------------------------------------------------------------------
(* The updater *)
(* A caller that still listens was not answered.  A download that is on its *)
(* way has a directory to go to, and what is ready lies in it.  Whoever is  *)
(* neither answered nor excused listens to every signal, and a check runs   *)
(* that will give one, or an open dialog holds one up.                      *)
Dialogs ==
    [kind : Signals \cup {"ready"}, held : SUBSET Callers, button : BOOLEAN, wired : BOOLEAN, closing : BOOLEAN]
Held(c, stack) == \E i \in DOMAIN stack : stack[i].kind \in Signals /\ c \in stack[i].held
Expecting(c) == listening[c] # {} /\ c \notin unheard

CallersInv ==
    /\ listening \in [Callers -> SUBSET Signals] /\ answers \in [Callers -> 0..1]
    /\ \A c \in Callers : listening[c] # {} => answers[c] = 0
StagedInv ==
    /\ state \in States /\ info \in BOOLEAN /\ staged \in Payloads /\ install \in {"no", "cut", "whole"}
    /\ dir \in 0..MaxDownloads /\ fetched \in 0..MaxDownloads /\ downloads \in Nat
    /\ Alive => /\ downloads > 0 => dir # 0
                /\ state = "ReadyToInstall" => dir # 0 /\ staged # "nothing"
HeardInv ==
    /\ checks \in Nat /\ frames \in Seq(Dialogs) /\ unheard \subseteq Callers
    /\ stray \in BOOLEAN /\ crashed \in BOOLEAN
    /\ state = "CheckingForUpdates" => checks > 0
    /\ Alive => \A c \in Callers : Expecting(c) => listening[c] = Signals /\ (checks > 0 \/ Held(c, frames))

UpdatesInv == CallersInv /\ StagedInv /\ HeardInv

LEMMA UpdatesInitInv == UpdatesInit => UpdatesInv
<1> SUFFICES ASSUME UpdatesInit PROVE UpdatesInv
  OBVIOUS
<1>1. CallersInv
  BY DEF UpdatesInit, CallersInv
<1>2. StagedInv
  <2>1. /\ state = "Idle" /\ info = FALSE /\ staged = "nothing" /\ install = "no"
        /\ downloads = 0 /\ fetched = 0 /\ dir = 0
    BY DEF UpdatesInit
  <2>2. 0 \in 0..MaxDownloads
    BY UpdatesAssumption
  <2>3. info \in BOOLEAN /\ staged \in Payloads
    BY <2>1 DEF Payloads
  <2>4. state \in States /\ state # "ReadyToInstall"
    BY <2>1 DEF States
  <2>5. QED
    BY <2>1, <2>2, <2>3, <2>4 DEF StagedInv
<1>3. HeardInv
  <2>1. /\ checks = 0 /\ frames = <<>> /\ unheard = {} /\ stray = FALSE /\ crashed = FALSE /\ state = "Idle"
        /\ \A c \in Callers : listening[c] = {}
    BY DEF UpdatesInit
  <2>2. stray \in BOOLEAN /\ crashed \in BOOLEAN
    BY <2>1
  <2>3. frames \in Seq(Dialogs)
    BY <2>1, EmptySeq
  <2>4. QED
    BY <2>1, <2>2, <2>3 DEF HeardInv, Expecting
<1>4. QED
  BY <1>1, <1>2, <1>3 DEF UpdatesInv

(* Dialogs that only look different hold up the same callers.               *)
LEMMA DialogMoves ==
    ASSUME NEW f \in Dialogs, NEW b
    PROVE  /\ [f EXCEPT !.button = TRUE] \in Dialogs
           /\ [f EXCEPT !.button = FALSE, !.wired = TRUE] \in Dialogs
           /\ [f EXCEPT !.closing = @ \/ f.kind = b] \in Dialogs
<1>1. [f EXCEPT !.button = TRUE] \in Dialogs
  BY DEF Dialogs
<1>2. [f EXCEPT !.button = FALSE, !.wired = TRUE] \in Dialogs
  BY DEF Dialogs
<1>3. \A v \in BOOLEAN : [f EXCEPT !.closing = v] \in Dialogs
  BY DEF Dialogs
<1>4. (f.closing \/ f.kind = b) \in BOOLEAN
  OBVIOUS
<1>5. [f EXCEPT !.closing = @ \/ f.kind = b] \in Dialogs
  BY <1>3, <1>4
<1>6. QED
  BY <1>1, <1>2, <1>5

LEMMA NewStack ==
    ASSUME NEW n \in Nat, NEW g, g = [i \in 1..n |-> g[i]], \A i \in 1..n : g[i] \in Dialogs
    PROVE  g \in Seq(Dialogs) /\ Len(g) = n
<1>1. g \in [1..n -> Dialogs]
  OBVIOUS
<1>2. g \in Seq(Dialogs)
  BY <1>1, SeqDef
<1>3. QED
  BY <1>1, <1>2, LenProperties

LEMMA StackKept ==
    ASSUME NEW stack \in Seq(Dialogs), NEW g,
           g = [i \in DOMAIN stack |-> [stack[i] EXCEPT !.button = TRUE]]
    PROVE  g \in Seq(Dialogs)
<1>1. Len(stack) \in Nat /\ DOMAIN stack = 1..Len(stack) /\ \A i \in DOMAIN stack : stack[i] \in Dialogs
  BY LenProperties, ElementOfSeq
<1>2. \A i \in 1..Len(stack) : g[i] \in Dialogs
  BY <1>1, DialogMoves
<1>3. QED
  BY <1>1, <1>2, NewStack

LEMMA PressedKept ==
    ASSUME frames \in Seq(Dialogs), frames # <<>>
    PROVE  /\ Pressed \in Seq(Dialogs)
           /\ \A c : Held(c, frames) => Held(c, Pressed)
<1> DEFINE n == Len(frames)
           g == Pressed
<1>1. n \in Nat /\ n # 0 /\ DOMAIN frames = 1..n /\ \A i \in 1..n : frames[i] \in Dialogs
  BY LenProperties, ElementOfSeq, EmptySeq
<1>2. g = [i \in 1..n |-> IF i = n THEN [frames[n] EXCEPT !.button = FALSE, !.wired = TRUE] ELSE frames[i]]
  BY <1>1 DEF Pressed
<1> HIDE DEF g
<1>3. \A i \in 1..n : g[i] \in Dialogs
  BY <1>1, <1>2, DialogMoves
<1>4. \A i \in 1..n : g[i].kind = frames[i].kind /\ g[i].held = frames[i].held
  BY <1>1, <1>2 DEF Dialogs
<1>5. g \in Seq(Dialogs) /\ DOMAIN g = 1..n
  BY <1>1, <1>2, <1>3, NewStack
<1>6. \A c : Held(c, frames) => Held(c, g)
  BY <1>1, <1>4, <1>5 DEF Held
<1>7. QED
  BY <1>5, <1>6 DEF g

LEMMA AcceptedKept ==
    ASSUME frames \in Seq(Dialogs), frames # <<>>
    PROVE  /\ Accepted \in Seq(Dialogs)
           /\ \A c : Held(c, frames) /\ Top.kind \notin Signals => Held(c, Accepted)
<1> DEFINE n == Len(frames) - 1
           g == Accepted
<1>1. n \in Nat /\ DOMAIN frames = 1..(n + 1) /\ Len(frames) = n + 1
  BY LenProperties, EmptySeq
<1>2. \A i \in 1..n : frames[i] \in Dialogs
  BY <1>1, ElementOfSeq
<1>3. g = [i \in 1..n |-> [frames[i] EXCEPT !.closing = @ \/ frames[i].kind = "available"]]
  BY DEF Accepted
<1> HIDE DEF n, g
<1>4. \A i \in 1..n : g[i] \in Dialogs
  BY <1>2, <1>3, DialogMoves
<1>5. \A i \in 1..n : g[i].kind = frames[i].kind /\ g[i].held = frames[i].held
  BY <1>2, <1>3 DEF Dialogs
<1>6. g \in Seq(Dialogs) /\ DOMAIN g = 1..n
  BY <1>1, <1>3, <1>4, NewStack
<1>7. ASSUME NEW c, Held(c, frames), Top.kind \notin Signals PROVE Held(c, g)
  <2>1. PICK i \in DOMAIN frames : frames[i].kind \in Signals /\ c \in frames[i].held
    BY <1>7 DEF Held
  <2>2. i \in 1..n
    BY <1>1, <1>7, <2>1 DEF Top
  <2>3. QED
    BY <1>5, <1>6, <2>1, <2>2 DEF Held
<1>8. QED
  BY <1>6, <1>7 DEF g

LEMMA BelowKept ==
    ASSUME frames \in Seq(Dialogs), frames # <<>>
    PROVE  /\ Below \in Seq(Dialogs)
           /\ \A c : Held(c, frames) => Held(c, Below) \/ (Top.kind \in Signals /\ c \in Top.held)
<1> DEFINE n == Len(frames) - 1
           g == Below
<1>1. n \in Nat /\ DOMAIN frames = 1..(n + 1) /\ Len(frames) = n + 1
  BY LenProperties, EmptySeq
<1>2. \A i \in 1..n : frames[i] \in Dialogs
  BY <1>1, ElementOfSeq
<1>3. g = [i \in 1..n |-> frames[i]]
  BY <1>1 DEF Below
<1> HIDE DEF n, g
<1>4. g \in Seq(Dialogs) /\ DOMAIN g = 1..n
  BY <1>1, <1>2, <1>3, NewStack
<1>5. ASSUME NEW c, Held(c, frames) PROVE Held(c, g) \/ (Top.kind \in Signals /\ c \in Top.held)
  <2>1. PICK i \in DOMAIN frames : frames[i].kind \in Signals /\ c \in frames[i].held
    BY <1>5 DEF Held
  <2>2. CASE i \in 1..n
    BY <1>3, <1>4, <2>1, <2>2 DEF Held
  <2>3. CASE i = n + 1
    BY <1>1, <2>1, <2>3 DEF Top
  <2>4. QED
    BY <1>1, <2>1, <2>2, <2>3
<1>6. QED
  BY <1>4, <1>5 DEF g

LEMMA Opened ==
    ASSUME frames \in Seq(Dialogs), NEW kind \in Signals \cup {"ready"}, NEW held \in SUBSET Callers,
           frames' = Append(frames, Frame(kind, held))
    PROVE  /\ frames' \in Seq(Dialogs)
           /\ \A c : Held(c, frames) \/ (kind \in Signals /\ c \in held) => Held(c, frames')
<1> DEFINE f == Frame(kind, held)
           n == Len(frames)
<1>1. f \in Dialogs /\ f.kind = kind /\ f.held = held
  BY DEF Dialogs, Frame
<1> HIDE DEF f
<1>2. frames' = Append(frames, f)
  BY DEF f
<1>3. /\ frames' \in Seq(Dialogs) /\ n \in Nat /\ DOMAIN frames = 1..n /\ DOMAIN frames' = 1..(n + 1)
      /\ frames'[n + 1] = f /\ \A i \in 1..n : frames'[i] = frames[i]
  BY <1>1, <1>2, AppendProperties, LenProperties
<1>4. ASSUME NEW c, Held(c, frames) PROVE Held(c, frames')
  <2>1. PICK i \in DOMAIN frames : frames[i].kind \in Signals /\ c \in frames[i].held
    BY <1>4 DEF Held
  <2>2. i \in DOMAIN frames' /\ frames'[i] = frames[i]
    BY <1>3, <2>1
  <2>3. QED
    BY <2>1, <2>2 DEF Held
<1>5. ASSUME NEW c, kind \in Signals, c \in held PROVE Held(c, frames')
  <2>1. n + 1 \in DOMAIN frames'
    BY <1>3
  <2>2. QED
    BY <1>1, <1>3, <1>5, <2>1 DEF Held
<1>6. QED
  BY <1>3, <1>4, <1>5

(* Whoever is answered was listening.                                       *)
LEMMA AnswerInv ==
    ASSUME CallersInv, NEW callers, \A c \in Callers : c \in callers => listening[c] # {}, Answer(callers)
    PROVE  CallersInv'
BY DEF CallersInv, Answer

LEMMA SetErrorInv ==
    ASSUME CallersInv, NEW stack, SetError(stack)
    PROVE  CallersInv' /\ state' = "Error"
<1>1. Answer(Hearing("error")) /\ state' = "Error"
  BY DEF SetError
<1>2. \A c \in Callers : c \in Hearing("error") => listening[c] # {}
  BY DEF Hearing
<1>3. QED
  BY <1>1, <1>2, AnswerInv

LEMMA EmitInv ==
    ASSUME CallersInv, NEW signal, NEW opens, Emit(signal, opens)
    PROVE  CallersInv'
<1>1. CASE opens
  BY <1>1 DEF Emit, CallersInv
<1>2. CASE ~opens
  <2>1. Answer(Hearing(signal))
    BY <1>2 DEF Emit
  <2>2. \A c \in Callers : c \in Hearing(signal) => listening[c] # {}
    BY DEF Hearing
  <2>3. QED
    BY <2>1, <2>2, AnswerInv
<1>3. QED
  BY <1>1, <1>2

LEMMA CheckForUpdatesInv ==
    ASSUME StagedInv, Alive, CheckForUpdates, UNCHANGED <<downloads, fetched, dir, staged, install>>
    PROVE  StagedInv'
<1>1. CASE state \in {"CheckingForUpdates", "Downloading"}
  BY <1>1 DEF CheckForUpdates, StagedInv, Alive
<1>2. CASE state \notin {"CheckingForUpdates", "Downloading"}
  BY <1>2 DEF CheckForUpdates, StagedInv, Alive, States
<1>3. QED
  BY <1>1, <1>2

LEMMA DownloadUpdateInv ==
    ASSUME UpdatesInv, DownloadUpdate
    PROVE  CallersInv' /\ StagedInv'
<1>1. Alive /\ UNCHANGED <<info, install>>
  BY DEF DownloadUpdate
<1>2. CASE ~info /\ SetError(Pressed) /\ UNCHANGED <<downloads, fetched, dir, staged>>
  <2>1. CallersInv' /\ state' = "Error"
    BY <1>2, SetErrorInv DEF UpdatesInv
  <2>2. QED
    BY <1>1, <1>2, <2>1 DEF UpdatesInv, StagedInv, Alive, States
<1>3. CASE UNCHANGED <<state, downloads, fetched, dir, staged, listening, answers>>
  BY <1>1, <1>3 DEF UpdatesInv, StagedInv, CallersInv, Alive
<1>4. CASE /\ fetched < MaxDownloads /\ fetched' = fetched + 1 /\ dir' = fetched' /\ staged' = "nothing"
           /\ \/ /\ state' = "Downloading" /\ downloads' = downloads + 1
                 /\ UNCHANGED <<listening, answers>>
              \/ SetError(Pressed) /\ UNCHANGED downloads
  <2>1. CallersInv' /\ state' \in {"Downloading", "Error"} /\ downloads' \in {downloads, downloads + 1}
    BY <1>4, SetErrorInv DEF UpdatesInv, CallersInv
  <2>2. dir' \in 1..MaxDownloads /\ fetched' \in 0..MaxDownloads
    BY <1>4, UpdatesAssumption DEF UpdatesInv, StagedInv
  <2>3. downloads' \in Nat
    BY <2>1 DEF UpdatesInv, StagedInv
  <2>4. StagedInv'
    <3>1. dir' # 0 /\ dir' \in 0..MaxDownloads
      BY <2>2
    <3>2. staged' \in Payloads /\ info' \in BOOLEAN /\ install' \in {"no", "cut", "whole"}
      BY <1>1, <1>4 DEF UpdatesInv, StagedInv, Payloads
    <3>3. state' \in States /\ state' # "ReadyToInstall"
      BY <2>1 DEF States
    <3>4. QED
      BY <2>2, <2>3, <3>1, <3>2, <3>3 DEF StagedInv
  <2>5. QED
    BY <2>1, <2>4
<1>5. QED
  BY <1>2, <1>3, <1>4 DEF DownloadUpdate

LEMMA OnDownloadFinishedInv ==
    ASSUME UpdatesInv, OnDownloadFinished
    PROVE  CallersInv' /\ StagedInv'
<1>1. /\ Alive /\ downloads > 0 /\ downloads' = downloads - 1 /\ UNCHANGED <<info, fetched, dir, install>>
  BY DEF OnDownloadFinished
<1>2. downloads' \in Nat /\ dir # 0
  BY <1>1 DEF UpdatesInv, StagedInv
<1>3. CASE SetError(frames) /\ staged' \in {staged, "cut", "nothing"}
  <2>1. CallersInv' /\ state' = "Error"
    BY <1>3, SetErrorInv DEF UpdatesInv
  <2>2. QED
    BY <1>1, <1>2, <1>3, <2>1 DEF UpdatesInv, StagedInv, Alive, States, Payloads
<1>4. CASE state' = "ReadyToInstall" /\ staged' \in {"cut", "whole"} /\ UNCHANGED <<listening, answers>>
  BY <1>1, <1>2, <1>4 DEF UpdatesInv, StagedInv, CallersInv, Alive, States, Payloads
<1>5. QED
  BY <1>3, <1>4 DEF OnDownloadFinished

LEMMA ExecuteUpdateScriptInv ==
    ASSUME UpdatesInv, ExecuteUpdateScript
    PROVE  CallersInv' /\ StagedInv'
<1>1. Alive /\ UNCHANGED <<info, downloads, fetched, staged>>
  BY DEF ExecuteUpdateScript
<1>2. CASE /\ IsReady /\ state' = "Installing"
           /\ install' = IF dir # 0 THEN staged ELSE "nothing"
           /\ dir' = 0 /\ UNCHANGED <<listening, answers>>
  <2>1. install' \in {"cut", "whole"}
    BY <1>1, <1>2 DEF UpdatesInv, StagedInv, IsReady, Payloads
  <2>2. QED
    BY <1>1, <1>2, <2>1, UpdatesAssumption DEF UpdatesInv, StagedInv, CallersInv, Alive, States
<1>3. CASE SetError(Accepted) /\ UNCHANGED <<dir, install>>
  <2>1. CallersInv' /\ state' = "Error"
    BY <1>3, SetErrorInv DEF UpdatesInv
  <2>2. QED
    BY <1>1, <1>3, <2>1 DEF UpdatesInv, StagedInv, Alive, States
<1>4. QED
  BY <1>2, <1>3 DEF ExecuteUpdateScript

LEMMA AnswersNextInv ==
    ASSUME UpdatesInv, UpdatesNext
    PROVE  CallersInv' /\ StagedInv'
<1>1. ASSUME NEW c \in Callers, UpdateCheck(c) PROVE CallersInv' /\ StagedInv'
  <2>1. CallersInv'
    BY <1>1 DEF UpdateCheck, UpdatesInv, CallersInv
  <2>2. StagedInv'
    BY <1>1, CheckForUpdatesInv DEF UpdateCheck, UpdatesInv
  <2>3. QED
    BY <2>1, <2>2
<1>2. CASE MenuCheck
  <2>1. CallersInv'
    BY <1>2 DEF MenuCheck, UpdatesInv, CallersInv
  <2>2. StagedInv'
    BY <1>2, CheckForUpdatesInv DEF MenuCheck, UpdatesInv
  <2>3. QED
    BY <2>1, <2>2
<1>3. CASE OnCheckReplyFinished
  <2>1. /\ Alive /\ UNCHANGED <<downloads, fetched, dir, staged, install>>
        /\ info' \in BOOLEAN /\ state' \in {"Error", "Idle", "UpdateAvailable"}
    BY <1>3 DEF OnCheckReplyFinished, SetError, UpdatesInv, StagedInv
  <2>2. CallersInv'
    BY <1>3, SetErrorInv, EmitInv DEF OnCheckReplyFinished, UpdatesInv
  <2>3. QED
    BY <2>1, <2>2 DEF UpdatesInv, StagedInv, Alive, States
<1>4. CASE DownloadUpdate
  BY <1>4, DownloadUpdateInv
<1>5. CASE OnDownloadFinished
  BY <1>5, OnDownloadFinishedInv
<1>6. CASE CloseDialog
  <2>1. \A c \in Callers : c \in StillWaiting(Top) => listening[c] # {}
    BY DEF StillWaiting
  <2>2. CallersInv'
    BY <1>6, <2>1, AnswerInv DEF CloseDialog, UpdatesInv
  <2>3. StagedInv'
    BY <1>6 DEF CloseDialog, UpdatesInv, StagedInv, Alive
  <2>4. QED
    BY <2>2, <2>3
<1>7. CASE Declined
  BY <1>7 DEF Declined, UpdatesInv, StagedInv, CallersInv, Alive
<1>8. CASE ExecuteUpdateScript
  BY <1>8, ExecuteUpdateScriptInv
<1>9. QED
  BY <1>1, <1>2, <1>3, <1>4, <1>5, <1>6, <1>7, <1>8 DEF UpdatesNext

(* Who is to be answered: the steps one by one.                             *)
LEMMA LabelledIsBoolean ==
    ASSUME HeardInv, NEW changes, Labelled(changes)
    PROVE  crashed' \in BOOLEAN
BY DEF HeardInv, Labelled

(* An error is heard by everyone who listens to all signals.                *)
LEMMA ErrorHeard ==
    ASSUME HeardInv, Alive, NEW stack \in Seq(Dialogs), SetError(stack),
           checks' \in Nat, stray' \in BOOLEAN, crashed' \in BOOLEAN, UNCHANGED unheard
    PROVE  HeardInv'
<1>1. /\ state' = "Error" /\ Answer(Hearing("error"))
      /\ frames' = [i \in DOMAIN stack |-> [stack[i] EXCEPT !.button = TRUE]]
  BY DEF SetError
<1>2. frames' \in Seq(Dialogs)
  BY <1>1, StackKept
<1>3. ASSUME NEW c \in Callers, Expecting(c)' PROVE FALSE
  <2>1. c \notin Hearing("error") /\ listening[c] # {} /\ c \notin unheard
    BY <1>1, <1>3 DEF Answer, Expecting
  <2>2. listening[c] = Signals
    BY <2>1 DEF HeardInv, Expecting
  <2>3. QED
    BY <2>1, <2>2 DEF Hearing, Signals
<1>4. QED
  BY <1>1, <1>2, <1>3 DEF HeardInv

(* A signal is heard, or held up by the dialog it opens.                    *)
LEMMA EmitHeard ==
    ASSUME HeardInv, Alive, NEW signal \in Signals, NEW opens, Emit(signal, opens),
           checks' \in Nat, state' # "CheckingForUpdates", UNCHANGED <<unheard, stray, crashed>>
    PROVE  HeardInv'
<1>1. \A c \in Callers : Expecting(c) => c \in Hearing(signal)
  BY DEF HeardInv, Hearing
<1>2. CASE opens
  <2>1. frames' = Append(frames, Frame(signal, Hearing(signal))) /\ UNCHANGED listening
    BY <1>2 DEF Emit
  <2>2. Hearing(signal) \in SUBSET Callers /\ signal \in Signals \cup {"ready"}
    BY DEF Hearing
  <2>3. /\ frames' \in Seq(Dialogs)
        /\ \A c : c \in Hearing(signal) => Held(c, frames')
    BY <2>1, <2>2, Opened DEF HeardInv
  <2>4. \A c \in Callers : Expecting(c)' => Expecting(c) /\ listening'[c] = listening[c]
    BY <2>1 DEF Expecting
  <2>5. \A c \in Callers : Expecting(c)' => listening'[c] = Signals /\ Held(c, frames')
    BY <1>1, <2>3, <2>4 DEF HeardInv
  <2>6. QED
    BY <2>3, <2>5 DEF HeardInv
<1>3. CASE ~opens
  <2>1. Answer(Hearing(signal)) /\ UNCHANGED frames
    BY <1>3 DEF Emit
  <2>2. \A c \in Callers : ~Expecting(c)'
    BY <1>1, <2>1 DEF Answer, Expecting
  <2>3. QED
    BY <2>1, <2>2 DEF HeardInv
<1>4. QED
  BY <1>2, <1>3

(* The dialogs change, and nobody's signal with them.                       *)
LEMMA DialogsStand ==
    ASSUME HeardInv, Alive, frames' \in Seq(Dialogs), \A c : Held(c, frames) => Held(c, frames'),
           UNCHANGED <<checks, listening, unheard>>, stray' \in BOOLEAN, crashed' \in BOOLEAN,
           state' # "CheckingForUpdates" \/ state' = state
    PROVE  HeardInv'
<1>1. \A c \in Callers : Expecting(c)' => Expecting(c)
  BY DEF Expecting
<1>2. \A c \in Callers : Expecting(c)' => listening'[c] = Signals /\ (checks' > 0 \/ Held(c, frames'))
  BY <1>1 DEF HeardInv
<1>3. QED
  BY <1>2 DEF HeardInv

LEMMA ChecksHeard ==
    ASSUME UpdatesInv, NEW c \in Callers, UpdateCheck(c)
    PROVE  HeardInv'
<1>1. /\ Alive /\ listening' = [listening EXCEPT ![c] = Signals]
      /\ unheard' = unheard \cup LeftToDownload({c}) /\ CheckForUpdates
      /\ UNCHANGED <<frames, stray, crashed>>
  BY DEF UpdateCheck
<1>2. /\ checks' \in Nat /\ unheard' \subseteq Callers /\ unheard \subseteq unheard'
      /\ state' = "CheckingForUpdates" => checks' > 0
  BY <1>1 DEF UpdatesInv, HeardInv, CheckForUpdates, LeftToDownload
<1>3. CASE state = "Downloading"
  <2>1. c \in unheard' /\ checks' = checks
    BY <1>1, <1>3 DEF LeftToDownload, CheckForUpdates
  <2>2. \A d \in Callers : Expecting(d)' => d # c /\ Expecting(d) /\ listening'[d] = listening[d]
    BY <1>1, <1>2, <2>1 DEF Expecting, UpdatesInv, CallersInv
  <2>3. \A d \in Callers : Expecting(d)' => listening'[d] = Signals /\ (checks' > 0 \/ Held(d, frames'))
    BY <1>1, <2>1, <2>2 DEF UpdatesInv, HeardInv
  <2>4. QED
    BY <1>1, <1>2, <2>3 DEF UpdatesInv, HeardInv
<1>4. CASE state # "Downloading"
  <2>1. checks' > 0
    BY <1>1, <1>4 DEF UpdatesInv, HeardInv, CheckForUpdates
  <2>2. \A d \in Callers : Expecting(d)' => listening'[d] = Signals
    <3>1. \A d \in Callers : d # c /\ Expecting(d)' => Expecting(d) /\ listening'[d] = listening[d]
      BY <1>1, <1>2 DEF Expecting, UpdatesInv, CallersInv
    <3>2. listening'[c] = Signals
      BY <1>1 DEF UpdatesInv, CallersInv
    <3>3. QED
      BY <1>1, <3>1, <3>2 DEF UpdatesInv, HeardInv
  <2>3. QED
    BY <1>1, <1>2, <2>1, <2>2 DEF UpdatesInv, HeardInv
<1>5. QED
  BY <1>3, <1>4

LEMMA MenuHeard ==
    ASSUME UpdatesInv, MenuCheck
    PROVE  HeardInv'
<1>1. /\ Alive /\ listening' = [c \in Callers |-> listening[c] \ {"none"}]
      /\ unheard' = unheard \cup Hearing("none") /\ CheckForUpdates
      /\ UNCHANGED <<frames, stray, crashed>>
  BY DEF MenuCheck
<1>2. /\ checks' \in Nat /\ unheard' \subseteq Callers
      /\ state' = "CheckingForUpdates" => checks' > 0
  BY <1>1 DEF UpdatesInv, HeardInv, CheckForUpdates, Hearing
<1>3. ASSUME NEW c \in Callers, Expecting(c)' PROVE FALSE
  <2>1. listening[c] # {} /\ c \notin unheard /\ c \notin Hearing("none")
    BY <1>1, <1>3 DEF Expecting
  <2>2. listening[c] = Signals
    BY <1>1, <2>1 DEF UpdatesInv, HeardInv, Expecting
  <2>3. QED
    BY <2>1, <2>2 DEF Hearing, Signals
<1>4. QED
  BY <1>1, <1>2, <1>3 DEF UpdatesInv, HeardInv

LEMMA ReplyHeard ==
    ASSUME UpdatesInv, OnCheckReplyFinished
    PROVE  HeardInv'
<1>1. /\ Alive /\ checks' \in Nat /\ UNCHANGED <<unheard, stray>>
      /\ HeardInv /\ frames \in Seq(Dialogs) /\ stray' \in BOOLEAN
  BY DEF OnCheckReplyFinished, UpdatesInv, HeardInv
<1>2. CASE SetError(frames) /\ Labelled(state # "Error")
  BY <1>1, <1>2, LabelledIsBoolean, ErrorHeard
<1>3. CASE state' = "Idle" /\ Emit("none", menuWaits) /\ UNCHANGED crashed
  BY <1>1, <1>3, EmitHeard DEF Signals
<1>4. CASE state' = "UpdateAvailable" /\ Emit("available", HasWindow) /\ UNCHANGED crashed
  BY <1>1, <1>4, EmitHeard DEF Signals
<1>5. QED
  BY <1>2, <1>3, <1>4 DEF OnCheckReplyFinished

LEMMA DownloadHeard ==
    ASSUME UpdatesInv, DownloadUpdate
    PROVE  HeardInv'
<1>1. /\ Alive /\ frames # <<>> /\ UNCHANGED <<checks, unheard, stray>> /\ HeardInv
      /\ frames \in Seq(Dialogs) /\ stray' \in BOOLEAN /\ checks' \in Nat
  BY DEF DownloadUpdate, UpdatesInv, HeardInv
<1>2. Pressed \in Seq(Dialogs) /\ \A c : Held(c, frames) => Held(c, Pressed)
  BY <1>1, PressedKept
<1>3. CASE SetError(Pressed) /\ Labelled(state # "Error")
  BY <1>1, <1>2, <1>3, LabelledIsBoolean, ErrorHeard
<1>4. CASE frames' = Pressed /\ UNCHANGED <<state, listening, crashed>>
  <2>1. crashed' \in BOOLEAN
    BY <1>1, <1>4 DEF HeardInv
  <2>2. QED
    BY <1>1, <1>2, <1>4, <2>1, DialogsStand
<1>5. CASE Labelled(TRUE) /\ state' = "Downloading" /\ frames' = Pressed /\ UNCHANGED listening
  BY <1>1, <1>2, <1>5, LabelledIsBoolean, DialogsStand
<1>6. CASE Labelled(TRUE) /\ SetError(Pressed)
  BY <1>1, <1>2, <1>6, LabelledIsBoolean, ErrorHeard
<1>7. QED
  BY <1>3, <1>4, <1>5, <1>6 DEF DownloadUpdate

LEMMA FinishHeard ==
    ASSUME UpdatesInv, OnDownloadFinished
    PROVE  HeardInv'
<1>1. /\ Alive /\ UNCHANGED <<checks, unheard, stray>> /\ HeardInv /\ Labelled(TRUE)
      /\ frames \in Seq(Dialogs) /\ stray' \in BOOLEAN /\ checks' \in Nat
  BY DEF OnDownloadFinished, UpdatesInv, HeardInv
<1>2. crashed' \in BOOLEAN
  BY <1>1, LabelledIsBoolean
<1>3. CASE SetError(frames)
  BY <1>1, <1>2, <1>3, ErrorHeard
<1>4. CASE /\ state' = "ReadyToInstall" /\ UNCHANGED listening
           /\ frames' = IF HasWindow THEN Append(frames, Frame("ready", {})) ELSE frames
  <2>1. frames' \in Seq(Dialogs) /\ \A c : Held(c, frames) => Held(c, frames')
    <3>1. CASE HasWindow
      BY <1>1, <1>4, <3>1, Opened
    <3>2. CASE ~HasWindow
      BY <1>1, <1>4, <3>2
    <3>3. QED
      BY <3>1, <3>2
  <2>2. QED
    BY <1>1, <1>2, <1>4, <2>1, DialogsStand
<1>5. QED
  BY <1>3, <1>4 DEF OnDownloadFinished

(* Whoever the closed dialog held up hears at last.                         *)
LEMMA CloseHeard ==
    ASSUME UpdatesInv, CloseDialog
    PROVE  HeardInv'
<1>1. /\ Alive /\ frames # <<>> /\ frames' = Below /\ Answer(StillWaiting(Top))
      /\ stray' = (stray \/ Top.wired) /\ UNCHANGED <<state, checks, unheard, crashed>>
      /\ HeardInv /\ frames \in Seq(Dialogs)
  BY DEF CloseDialog, UpdatesInv, HeardInv
<1>2. /\ Below \in Seq(Dialogs)
      /\ \A c : Held(c, frames) => Held(c, Below) \/ (Top.kind \in Signals /\ c \in Top.held)
  BY <1>1, BelowKept
<1>3. stray' \in BOOLEAN
  BY <1>1
<1>4. ASSUME NEW c \in Callers, Expecting(c)'
      PROVE  listening'[c] = Signals /\ (checks' > 0 \/ Held(c, frames'))
  <2>1. c \notin StillWaiting(Top) /\ listening'[c] = listening[c] /\ Expecting(c)
    BY <1>1, <1>4 DEF Answer, Expecting
  <2>2. listening[c] = Signals /\ (checks > 0 \/ Held(c, frames))
    BY <1>1, <2>1 DEF HeardInv
  <2>3. ~(Top.kind \in Signals /\ c \in Top.held)
    BY <2>1, <2>2 DEF StillWaiting
  <2>4. QED
    BY <1>1, <1>2, <2>1, <2>2, <2>3
<1>5. QED
  BY <1>1, <1>2, <1>3, <1>4 DEF HeardInv

LEMMA AskedHeard ==
    ASSUME UpdatesInv, Declined \/ ExecuteUpdateScript
    PROVE  HeardInv'
<1>1. /\ Alive /\ frames # <<>> /\ Top.kind = "ready" /\ UNCHANGED <<checks, unheard, stray>> /\ HeardInv
      /\ frames \in Seq(Dialogs) /\ stray' \in BOOLEAN /\ checks' \in Nat
  BY DEF Declined, ExecuteUpdateScript, UpdatesInv, HeardInv
<1>2. Accepted \in Seq(Dialogs) /\ \A c : Held(c, frames) => Held(c, Accepted)
  BY <1>1, AcceptedKept DEF Signals
<1>3. CASE Declined
  <2>1. frames' = Accepted /\ UNCHANGED <<state, listening, crashed>> /\ crashed' \in BOOLEAN
    BY <1>1, <1>3 DEF Declined, HeardInv
  <2>2. QED
    BY <1>1, <1>2, <2>1, DialogsStand
<1>4. CASE SetError(Accepted) /\ Labelled(state # "Error")
  BY <1>1, <1>2, <1>4, LabelledIsBoolean, ErrorHeard
<1>5. CASE ExecuteUpdateScript /\ state' = "Installing" /\ frames' = <<>> /\ UNCHANGED crashed
  <2>1. install' # "no"
    BY <1>1, <1>5, ExecuteUpdateScriptInv DEF ExecuteUpdateScript, SetError, UpdatesInv, StagedInv, Payloads
  <2>2. frames' \in Seq(Dialogs) /\ crashed' \in BOOLEAN /\ ~Alive'
    BY <1>1, <1>5, <2>1 DEF HeardInv, Alive
  <2>3. QED
    BY <1>1, <1>5, <2>2 DEF HeardInv
<1>6. QED
  BY <1>3, <1>4, <1>5 DEF ExecuteUpdateScript

LEMMA UpdatesNextInv ==
    ASSUME UpdatesInv, UpdatesNext
    PROVE  UpdatesInv'
<1>1. CallersInv' /\ StagedInv'
  BY AnswersNextInv
<1>2. HeardInv'
  BY ChecksHeard, MenuHeard, ReplyHeard, DownloadHeard, FinishHeard, CloseHeard, AskedHeard DEF UpdatesNext
<1>3. QED
  BY <1>1, <1>2 DEF UpdatesInv

LEMMA UpdatesStutter ==
    ASSUME UpdatesInv, UNCHANGED updateVars
    PROVE  UpdatesInv'
BY DEF updateVars, UpdatesInv, StagedInv, CallersInv, HeardInv, Expecting, Alive

LEMMA UpdatesInvMeans == UpdatesInv => UpdatesTypeOK /\ InstallsWhatIsStaged /\ CheckAnsweredOnce
<1> SUFFICES ASSUME UpdatesInv PROVE UpdatesTypeOK /\ InstallsWhatIsStaged /\ CheckAnsweredOnce
  OBVIOUS
<1>1. UpdatesTypeOK
  BY DEF UpdatesInv, StagedInv, CallersInv, HeardInv, UpdatesTypeOK, Payloads
<1>2. InstallsWhatIsStaged
  BY DEF UpdatesInv, StagedInv, InstallsWhatIsStaged
<1>3. \A c \in Callers : answers[c] <= 1
  BY DEF UpdatesInv, CallersInv
<1>4. ASSUME NEW c \in Callers, Alive, checks = 0, frames = <<>>, c \notin unheard PROVE listening[c] = {}
  <2>1. ~Held(c, frames)
    BY <1>4 DEF Held
  <2>2. QED
    BY <1>4, <2>1 DEF UpdatesInv, HeardInv, Expecting
<1>5. QED
  BY <1>1, <1>2, <1>3, <1>4 DEF CheckAnsweredOnce

-----------------------------------------------------------------------------
(* The API *)
Asked == [socket : Sockets, client : Nat, torrent : Torrents, search : BOOLEAN, stage : Stages,
          id : Nat, answers : 0..1, fate : Fates]

(* What is known of one request: it has its fate once it is done, and only  *)
(* torrent.get, which is no search, waits for peers.                        *)
Sound(r) ==
    /\ r.stage = "done" <=> r.answers = 1
    /\ r.stage = "done" <=> r.fate # "none"
    /\ r.stage = "peer" => ~r.search

Http(rs) == {i \in DOMAIN rs : ~Web(rs[i].socket)}
Unserved(rs) == {i \in Http(rs) : rs[i].fate \in {"none", "dropped"}}
Waited(rs) == {rs[i].id : i \in {j \in Http(rs) : rs[j].stage # "done"}}

RestInv ==
    /\ socket \in [Sockets -> {"free", "open", "closing"}] /\ clients \in [Sockets -> Nat]
    /\ requests \in Seq(Asked)
    /\ \A i \in DOMAIN requests : Sound(requests[i])
    /\ total \in Nat /\ success \in Nat /\ error \in Nat /\ durations \in Nat /\ searches \in Nat
    /\ total = success + error + Cardinality(Unserved(requests))
    /\ durations <= success + error /\ searches <= durations
    /\ startTimes \subseteq Waited(requests)

LEMMA RestInvMeans == RestInv => RestTypeOK /\ MetricsAddUp
<1> SUFFICES ASSUME RestInv PROVE RestTypeOK /\ MetricsAddUp
  OBVIOUS
<1>1. \A i \in DOMAIN requests : requests[i] \in Asked
  BY ElementOfSeq, LenProperties DEF RestInv
<1>2. RestTypeOK
  <2> SUFFICES ASSUME NEW i \in DOMAIN requests
               PROVE  /\ requests[i].stage \in Stages /\ requests[i].fate \in Fates
                      /\ requests[i].answers \in 0..1
                      /\ requests[i].stage = "done" <=> requests[i].answers = 1
    BY DEF RestTypeOK, RestInv, Requests
  <2>1. requests[i] \in Asked /\ Sound(requests[i])
    BY <1>1 DEF RestInv
  <2>2. QED
    BY <2>1 DEF Asked, Sound
<1>3. Unserved(requests) = {i \in {j \in Requests : ~Web(requests[j].socket)} : requests[i].fate \in {"none", "dropped"}}
  BY DEF Unserved, Http, Requests
<1>4. Waited(requests) = {requests[i].id : i \in {j \in Requests : ~Web(requests[j].socket)} \cap Pending}
  <2>1. {j \in Http(requests) : requests[j].stage # "done"} = {j \in Requests : ~Web(requests[j].socket)} \cap Pending
    BY DEF Http, Requests, Pending
  <2>2. QED
    BY <2>1 DEF Waited
<1>5. MetricsAddUp
  BY <1>3, <1>4 DEF MetricsAddUp, RestInv
<1>6. QED
  BY <1>2, <1>5

LEMMA RequestsAreFinite ==
    ASSUME NEW rs \in Seq(Asked)
    PROVE  /\ IsFiniteSet(Unserved(rs)) /\ Cardinality(Unserved(rs)) \in Nat
           /\ DOMAIN rs = 1..Len(rs) /\ Len(rs) \in Nat /\ IsFiniteSet(DOMAIN rs)
           /\ \A i \in DOMAIN rs : rs[i] \in Asked
<1>1. DOMAIN rs = 1..Len(rs) /\ Len(rs) \in Nat
  BY LenProperties
<1>2. IsFiniteSet(DOMAIN rs)
  BY <1>1, FS_Interval
<1>3. Unserved(rs) \in SUBSET DOMAIN rs
  BY DEF Unserved, Http
<1>4. IsFiniteSet(Unserved(rs))
  BY <1>2, <1>3, FS_Subset
<1>5. \A i \in DOMAIN rs : rs[i] \in Asked
  BY <1>1, ElementOfSeq
<1>6. QED
  BY <1>1, <1>2, <1>4, <1>5, FS_CardinalityType

LEMMA RestInitInv == RestInit => RestInv
<1> SUFFICES ASSUME RestInit PROVE RestInv
  OBVIOUS
<1>1. requests = <<>> /\ requests \in Seq(Asked) /\ DOMAIN requests = {}
  <2>1. requests = <<>>
    BY DEF RestInit
  <2>2. <<>> \in Seq(Asked) /\ Len(<<>>) = 0
    BY EmptySeq
  <2>3. DOMAIN requests = 1..0
    BY <2>1, <2>2, LenProperties
  <2>4. QED
    BY <2>1, <2>2, <2>3
<1>2. Unserved(requests) = {}
  BY <1>1 DEF Unserved, Http
<1>3. Cardinality(Unserved(requests)) = 0
  BY <1>2, FS_EmptySet
<1>4. \A i \in DOMAIN requests : Sound(requests[i])
  BY <1>1
<1> HIDE DEF Unserved
<1>5. QED
  BY <1>1, <1>3, <1>4 DEF RestInit, RestInv

(* A set has no more images than elements.                                  *)
LEMMA NoMoreIds ==
    ASSUME NEW rs, NEW S, IsFiniteSet(S)
    PROVE  /\ IsFiniteSet({rs[i].id : i \in S})
           /\ Cardinality({rs[i].id : i \in S}) <= Cardinality(S)
           /\ Cardinality({rs[i].id : i \in S}) \in Nat
<1> DEFINE T == {rs[i].id : i \in S}
           f == [i \in S |-> rs[i].id]
<1>1. f \in Surjection(S, T)
  BY DEF Surjection
<1> HIDE DEF f, T
<1>2. IsFiniteSet(T) /\ Cardinality(T) <= Cardinality(S)
  BY <1>1, FS_Surjection
<1>3. QED
  BY <1>2, FS_CardinalityType DEF T

(* What an answer to one caller or to several does to the counters.         *)
LEMMA RespondInv ==
    ASSUME RestInv, NEW set, set \subseteq Pending, NEW ok \in BOOLEAN, Respond(set, ok),
           \/ \E i : set = {i}
           \/ \A i \in set : requests[i].stage = "peer"
    PROVE  RestInv'
<1> DEFINE http == {i \in set : ~Web(requests[i].socket)}
<1>1. PICK gone \in SUBSET set :
         /\ requests' = [i \in Requests |->
              IF i \notin set THEN requests[i]
              ELSE [requests[i] EXCEPT
                      !.stage = "done", !.answers = @ + 1,
                      !.fate = IF i \in gone THEN "dropped"
                               ELSE IF requests[i].client = clients[requests[i].socket] THEN "answered"
                               ELSE "misdelivered"]]
         /\ LET served == http \ gone
                timed == {i \in served : requests[i].id \in startTimes}
            IN  /\ success' = IF ok THEN success + Cardinality(served) ELSE success
                /\ error' = IF ok THEN error ELSE error + Cardinality(served)
                /\ durations' = durations + Cardinality({requests[i].id : i \in timed})
                /\ searches' = searches + Cardinality({i \in timed : requests[i].search})
                /\ startTimes' = startTimes \ (Forgotten(FALSE, {requests[i].id : i \in served})
                                               \cup Forgotten(TRUE, {requests[i].id : i \in http \cap gone}))
                /\ socket' = [s \in Sockets |->
                     IF \E i \in served : requests[i].socket = s THEN "closing" ELSE socket[s]]
  BY DEF Respond
<1> DEFINE served == http \ gone
           timed == {i \in served : requests[i].id \in startTimes}
           ids == {requests[i].id : i \in timed}
           searching == {i \in timed : requests[i].search}
<1>2. UNCHANGED <<clients, total>>
  BY DEF Respond
<1>3. /\ success' = IF ok THEN success + Cardinality(served) ELSE success
      /\ error' = IF ok THEN error ELSE error + Cardinality(served)
      /\ durations' = durations + Cardinality(ids)
      /\ searches' = searches + Cardinality(searching)
      /\ startTimes' = startTimes \ ({requests[i].id : i \in served} \cup {requests[i].id : i \in http \cap gone})
  BY <1>1 DEF Forgotten
<1>4. socket' \in [Sockets -> {"free", "open", "closing"}]
  <2>1. socket' = [s \in Sockets |-> IF \E i \in served : requests[i].socket = s THEN "closing" ELSE socket[s]]
    BY <1>1
  <2>2. QED
    BY <2>1 DEF RestInv
<1> DEFINE fate(i) == IF i \in gone THEN "dropped"
                      ELSE IF requests[i].client = clients[requests[i].socket] THEN "answered"
                      ELSE "misdelivered"
           after(i) == [requests[i] EXCEPT !.stage = "done", !.answers = @ + 1, !.fate = fate(i)]
<1>5. requests' = [i \in DOMAIN requests |-> IF i \notin set THEN requests[i] ELSE after(i)]
  BY <1>1 DEF Requests
<1>6. /\ requests \in Seq(Asked) /\ DOMAIN requests = 1..Len(requests) /\ Len(requests) \in Nat
      /\ IsFiniteSet(DOMAIN requests) /\ \A i \in DOMAIN requests : requests[i] \in Asked
  BY RequestsAreFinite DEF RestInv
<1>7. /\ set \subseteq DOMAIN requests
      /\ \A i \in set : /\ requests[i] \in Asked /\ requests[i].stage # "done"
                        /\ requests[i].answers = 0 /\ requests[i].fate = "none"
  <2>1. set \subseteq DOMAIN requests /\ \A i \in set : requests[i].stage # "done"
    BY DEF Pending, Requests
  <2>2. \A i \in set : Sound(requests[i]) /\ requests[i] \in Asked
    BY <1>6, <2>1 DEF RestInv
  <2>3. \A i \in set : requests[i].answers \in 0..1
    BY <2>2 DEF Asked
  <2>4. QED
    BY <2>1, <2>2, <2>3 DEF Sound
<1>8. \A i \in set : /\ after(i) \in Asked /\ after(i).stage = "done" /\ after(i).answers = 1
                     /\ after(i).fate = fate(i) /\ after(i).socket = requests[i].socket /\ after(i).id = requests[i].id
  <2> SUFFICES ASSUME NEW i \in set
               PROVE  /\ after(i) \in Asked /\ after(i).stage = "done" /\ after(i).answers = 1
                      /\ after(i).fate = fate(i) /\ after(i).socket = requests[i].socket /\ after(i).id = requests[i].id
    OBVIOUS
  <2>1. fate(i) \in Fates \ {"none"}
    BY DEF Fates
  <2> DEFINE r == requests[i]
             f == fate(i)
             u == after(i)
  <2>2. /\ r \in Asked /\ r.answers = 0 /\ f \in Fates \ {"none"}
        /\ u = [r EXCEPT !.stage = "done", !.answers = @ + 1, !.fate = f]
    BY <1>7, <2>1
  <2> HIDE DEF r, f, u
  <2>3. r.answers + 1 = 1
    BY <2>2
  <2>4. "done" \in Stages /\ 1 \in 0..1 /\ f \in Fates
    BY <2>2 DEF Stages
  <2>5. u = [r EXCEPT !.stage = "done", !.answers = 1, !.fate = f]
    BY <2>2, <2>3
  <2>6. u \in Asked
    BY <2>2, <2>4, <2>5 DEF Asked
  <2>7. /\ u.stage = "done" /\ u.answers = 1 /\ u.fate = f
        /\ u.socket = r.socket /\ u.id = r.id
    BY <2>2, <2>5 DEF Asked
  <2>8. QED
    BY <2>6, <2>7 DEF r, f, u
<1>9. \A i \in set : fate(i) \in {"dropped", "answered", "misdelivered"} /\ (fate(i) = "dropped" <=> i \in gone)
  OBVIOUS
<1> HIDE DEF fate, after
<1>10. /\ DOMAIN requests' = DOMAIN requests
       /\ \A i \in DOMAIN requests : requests'[i] = IF i \notin set THEN requests[i] ELSE after(i)
  BY <1>5
<1>11. requests' \in Seq(Asked)
  <2>1. \A i \in 1..Len(requests) : requests'[i] \in Asked
    BY <1>6, <1>7, <1>8, <1>10
  <2>2. requests' \in [1..Len(requests) -> Asked]
    BY <1>5, <1>6, <1>10, <2>1
  <2>3. QED
    BY <1>6, <2>2, SeqDef
<1>12. \A i \in DOMAIN requests' : Sound(requests'[i])
  <2> SUFFICES ASSUME NEW i \in DOMAIN requests PROVE Sound(requests'[i])
    BY <1>10
  <2>1. CASE i \notin set
    BY <1>10, <2>1 DEF RestInv
  <2>2. CASE i \in set
    BY <1>8, <1>9, <1>10, <2>2 DEF Sound
  <2>3. QED
    BY <2>1, <2>2
<1>13. Http(requests') = Http(requests) /\ http \subseteq Http(requests) /\ http = set \cap Http(requests)
  BY <1>7, <1>8, <1>10 DEF Http
<1>14. Unserved(requests') = Unserved(requests) \ served /\ served \subseteq Unserved(requests)
  <2>1. served \subseteq Unserved(requests)
    BY <1>7, <1>13 DEF Unserved
  <2>2. ASSUME NEW i \in Http(requests)
        PROVE  requests'[i].fate \in {"none", "dropped"} <=> requests[i].fate \in {"none", "dropped"} /\ i \notin served
    <3>1. CASE i \notin set
      BY <1>10, <2>2, <3>1 DEF Http
    <3>2. CASE i \in set
      <4>1. requests'[i].fate = fate(i) /\ requests[i].fate = "none" /\ (i \in served <=> i \notin gone)
        BY <1>7, <1>8, <1>10, <1>13, <3>2 DEF Http
      <4>2. QED
        BY <1>9, <3>2, <4>1
    <3>3. QED
      BY <3>1, <3>2
  <2>3. QED
    BY <1>13, <2>1, <2>2 DEF Unserved
<1>15. /\ IsFiniteSet(Unserved(requests)) /\ Cardinality(Unserved(requests)) \in Nat
       /\ IsFiniteSet(served) /\ Cardinality(served) \in Nat
       /\ Cardinality(Unserved(requests')) = Cardinality(Unserved(requests)) - Cardinality(served)
  <2>1. IsFiniteSet(Unserved(requests)) /\ Cardinality(Unserved(requests)) \in Nat
    BY <1>6, RequestsAreFinite
  <2>2. served \in SUBSET Unserved(requests) /\ Unserved(requests) \cap served = served
    BY <1>14
  <2>3. IsFiniteSet(served)
    BY <2>1, <2>2, FS_Subset
  <2> HIDE DEF served
  <2>4. Cardinality(Unserved(requests) \ served) = Cardinality(Unserved(requests)) - Cardinality(served)
    BY <2>1, <2>2, FS_Difference
  <2>5. QED
    BY <1>14, <2>1, <2>3, <2>4, FS_CardinalityType
<1>16. timed \in SUBSET served /\ IsFiniteSet(timed) /\ Cardinality(timed) <= Cardinality(served) /\ Cardinality(timed) \in Nat
  <2>1. timed \in SUBSET served
    OBVIOUS
  <2> HIDE DEF served, timed
  <2>2. QED
    BY <1>15, <2>1, FS_Subset, FS_CardinalityType
<1>17. IsFiniteSet(ids) /\ Cardinality(ids) \in Nat /\ Cardinality(ids) <= Cardinality(timed)
  <2> HIDE DEF timed
  <2>1. QED
    BY <1>16, NoMoreIds
<1>18. Cardinality(searching) \in Nat /\ Cardinality(searching) <= Cardinality(ids)
  <2>1. CASE searching = {}
    <3> HIDE DEF searching, ids
    <3>1. Cardinality(searching) = 0
      BY <2>1, FS_EmptySet
    <3>2. QED
      BY <1>17, <3>1
  <2>2. CASE searching # {}
    <3>1. PICK i \in searching : TRUE
      BY <2>2
    <3>2. i \in set /\ requests[i].search /\ i \in timed
      OBVIOUS
    <3>3. Sound(requests[i])
      BY <1>7, <3>2 DEF RestInv
    <3>4. requests[i].stage # "peer"
      BY <3>2, <3>3 DEF Sound
    <3>5. set = {i}
      BY <3>2, <3>4
    <3>6. searching = {i} /\ ids = {requests[i].id}
      <4>1. timed = {i}
        BY <3>2, <3>5
      <4>2. QED
        BY <3>1, <4>1
    <3> HIDE DEF searching, ids
    <3>7. Cardinality(searching) = 1 /\ Cardinality(ids) = 1
      BY <3>6, FS_Singleton
    <3>8. QED
      BY <3>7
  <2>3. QED
    BY <2>1, <2>2
<1>19. startTimes' \subseteq Waited(requests')
  <2> SUFFICES ASSUME NEW x \in startTimes' PROVE x \in Waited(requests')
    OBVIOUS
  <2>1. x \in startTimes
    BY <1>3
  <2>2. PICK i \in Http(requests) : requests[i].stage # "done" /\ x = requests[i].id
    BY <2>1 DEF RestInv, Waited
  <2>3. i \notin http
    <3>1. SUFFICES ASSUME i \in http PROVE FALSE
      OBVIOUS
    <3>2. i \in served \/ i \in http \cap gone
      BY <3>1
    <3>3. QED
      BY <1>3, <2>2, <3>2
  <2>4. i \notin set
    BY <1>13, <2>3
  <2>5. requests'[i] = requests[i]
    BY <1>10, <2>4 DEF Http
  <2>6. QED
    BY <1>13, <2>2, <2>5 DEF Waited
<1>20. /\ clients \in [Sockets -> Nat]
       /\ total \in Nat /\ success \in Nat /\ error \in Nat /\ durations \in Nat /\ searches \in Nat
       /\ total = success + error + Cardinality(Unserved(requests))
       /\ durations <= success + error /\ searches <= durations
  BY DEF RestInv
<1> HIDE DEF served, timed, ids, searching, http
<1>21. success' \in Nat /\ error' \in Nat /\ success' + error' = success + error + Cardinality(served)
  <2>1. CASE ok
    BY <1>3, <1>15, <1>20, <2>1
  <2>2. CASE ~ok
    BY <1>3, <1>15, <1>20, <2>2
  <2>3. QED
    BY <2>1, <2>2
<1>22. durations' \in Nat /\ searches' \in Nat /\ durations' <= success' + error' /\ searches' <= durations'
  BY <1>3, <1>15, <1>16, <1>17, <1>18, <1>20, <1>21
<1>23. total' \in Nat /\ total' = success' + error' + Cardinality(Unserved(requests'))
  BY <1>2, <1>15, <1>20, <1>21
<1>24. QED
  BY <1>2, <1>4, <1>11, <1>12, <1>19, <1>20, <1>21, <1>22, <1>23 DEF RestInv

(* Every answer's way is known, and none that waits for peers is a search's. *)
LEMMA WaysAreKnown ==
    ASSUME NEW c \in Shapes
    PROVE  /\ c.search \in BOOLEAN /\ c.way \in {"well", "badly", "peer", "dht", "votes"}
           /\ c.way = "peer" => ~c.search
<1>1. PICK m \in Methods : c \in {[search |-> m \in SearchMethods, way |-> w] : w \in m[2]}
  BY DEF Shapes
<1>2. PICK w \in m[2] : c = [search |-> m \in SearchMethods, way |-> w]
  BY <1>1
<1>3. c.way = w /\ c.search = (m \in SearchMethods)
  BY <1>2
<1>4. m \in SearchMethods => w \in {"well", "badly", "dht"}
  BY DEF SearchMethods, Well, Checked
<1>5. m \in TorrentMethods => w \in {"well", "badly", "peer", "dht"}
  BY DEF TorrentMethods, Well, Checked
<1>6. m \in DatabaseMethods => w \in {"well", "badly"}
  BY DEF DatabaseMethods, Well, Checked
<1>7. m \in DownloadMethods => w \in {"well", "badly"}
  BY DEF DownloadMethods, Well, Checked
<1>8. m \in VoteMethods \cup Unknown => w \in {"badly", "votes"}
  BY DEF VoteMethods, Unknown
<1>9. m \in StateMethods => w \in {"well", "badly"}
  BY DEF StateMethods, Well, Checked
<1>10. w \in {"well", "badly", "peer", "dht", "votes"}
  BY <1>4, <1>5, <1>6, <1>7, <1>8, <1>9 DEF Methods
<1>11. CASE m \in SearchMethods
  <2>1. c.way # "peer" /\ c.search = TRUE
    BY <1>3, <1>4, <1>11
  <2>2. QED
    BY <1>3, <1>10, <2>1
<1>12. CASE m \notin SearchMethods
  <2>1. ~c.search
    BY <1>3, <1>12
  <2>2. c.search \in BOOLEAN
    <3>1. (m \in SearchMethods) \in BOOLEAN
      OBVIOUS
    <3>2. c \in [search : BOOLEAN, way : {w}]
      BY <1>2, <3>1
    <3>3. QED
      BY <3>2
  <2>3. QED
    BY <1>3, <1>10, <2>1, <2>2
<1>13. QED
  BY <1>11, <1>12

(* A request more.                                                          *)
LEMMA OneMore ==
    ASSUME NEW rs \in Seq(Asked), NEW r \in Asked
    PROVE  /\ Append(rs, r) \in Seq(Asked)
           /\ Http(Append(rs, r)) = Http(rs) \cup (IF Web(r.socket) THEN {} ELSE {Len(rs) + 1})
           /\ Cardinality(Unserved(Append(rs, r))) =
                Cardinality(Unserved(rs)) + (IF ~Web(r.socket) /\ r.fate \in {"none", "dropped"} THEN 1 ELSE 0)
           /\ Waited(rs) \subseteq Waited(Append(rs, r))
           /\ ~Web(r.socket) /\ r.stage # "done" => r.id \in Waited(Append(rs, r))
           /\ (\A i \in DOMAIN rs : Sound(rs[i])) /\ Sound(r) => \A i \in DOMAIN Append(rs, r) : Sound(Append(rs, r)[i])
<1> DEFINE n == Len(rs) + 1
           more == Append(rs, r)
<1>1. /\ DOMAIN rs = 1..Len(rs) /\ Len(rs) \in Nat /\ IsFiniteSet(Unserved(rs)) /\ Cardinality(Unserved(rs)) \in Nat
  BY RequestsAreFinite
<1>2. more \in Seq(Asked) /\ Len(more) = n /\ more[n] = r /\ \A i \in 1..Len(rs) : more[i] = rs[i]
  BY AppendProperties
<1>3. DOMAIN more = 1..n
  BY <1>2, LenProperties
<1>4. n \notin DOMAIN rs /\ DOMAIN more = DOMAIN rs \cup {n}
  BY <1>1, <1>3
<1> HIDE DEF n, more
<1>5. \A i \in DOMAIN rs : more[i] = rs[i]
  BY <1>1, <1>2
<1>6. Http(more) = Http(rs) \cup (IF Web(r.socket) THEN {} ELSE {n})
  BY <1>2, <1>4, <1>5 DEF Http
<1>7. Unserved(more) = Unserved(rs) \cup (IF ~Web(r.socket) /\ r.fate \in {"none", "dropped"} THEN {n} ELSE {})
  BY <1>2, <1>4, <1>5, <1>6 DEF Unserved, Http
<1>8. n \notin Unserved(rs)
  BY <1>4 DEF Unserved, Http
<1>9. Cardinality(Unserved(more)) = Cardinality(Unserved(rs)) + (IF ~Web(r.socket) /\ r.fate \in {"none", "dropped"} THEN 1 ELSE 0)
  <2>1. CASE ~Web(r.socket) /\ r.fate \in {"none", "dropped"}
    <3>1. Unserved(more) = Unserved(rs) \cup {n}
      BY <1>7, <2>1
    <3>2. Cardinality(Unserved(more)) = Cardinality(Unserved(rs)) + 1
      BY <1>1, <1>8, <3>1, FS_AddElement
    <3>3. QED
      BY <2>1, <3>2
  <2>2. CASE ~(~Web(r.socket) /\ r.fate \in {"none", "dropped"})
    <3>1. Unserved(more) = Unserved(rs)
      BY <1>7, <2>2
    <3>2. QED
      BY <1>1, <2>2, <3>1
  <2>3. QED
    BY <2>1, <2>2
<1>10. Waited(rs) \subseteq Waited(more)
  BY <1>5, <1>6 DEF Waited, Http
<1>11. ~Web(r.socket) /\ r.stage # "done" => r.id \in Waited(more)
  BY <1>2, <1>6 DEF Waited
<1>12. (\A i \in DOMAIN rs : Sound(rs[i])) /\ Sound(r) => \A i \in DOMAIN more : Sound(more[i])
  BY <1>2, <1>4, <1>5
<1>13. QED
  BY <1>2, <1>6, <1>9, <1>10, <1>11, <1>12 DEF n, more

LEMMA IdsAreNumbers ==
    ASSUME RestInv, NEW id \in Ids
    PROVE  id \in Nat
<1>1. requests \in Seq(Asked) /\ Len(requests) \in Nat
  BY LenProperties DEF RestInv
<1>2. CASE id = Len(requests) + 1
  BY <1>1, <1>2
<1>3. CASE id # Len(requests) + 1
  <2>1. requests # <<>> /\ id = requests[Len(requests)].id
    BY <1>3 DEF Ids
  <2>2. Len(requests) \in 1..Len(requests)
    BY <1>1, <2>1, EmptySeq
  <2>3. requests[Len(requests)] \in Asked
    BY <1>1, <2>2, ElementOfSeq
  <2>4. QED
    BY <2>1, <2>3 DEF Asked
<1>4. QED
  BY <1>2, <1>3

LEMMA CallNowInv ==
    ASSUME RestInv, NEW s \in Sockets, NEW t \in Torrents, CallNow(s, t)
    PROVE  RestInv'
<1>1. PICK id \in Ids, c \in AtOnce :
         /\ requests' = Append(requests, [NewRequest(s, t, c, "done", id) EXCEPT !.answers = 1, !.fate = "answered"])
         /\ IF Web(s) THEN UNCHANGED <<socket, startTimes, total, success, error, durations, searches>>
            ELSE /\ total' = total + 1 /\ durations' = durations + 1
                 /\ searches' = IF c.search THEN searches + 1 ELSE searches
                 /\ success' = IF c.way = "well" THEN success + 1 ELSE success
                 /\ error' = IF c.way = "well" THEN error ELSE error + 1
                 /\ startTimes' = startTimes \ {id}
                 /\ socket' = [socket EXCEPT ![s] = "closing"]
  BY DEF CallNow
<1>2. UNCHANGED clients
  BY DEF CallNow
<1> DEFINE q == NewRequest(s, t, c, "done", id)
           r == [q EXCEPT !.answers = 1, !.fate = "answered"]
<1>3. requests' = Append(requests, r)
  BY <1>1
<1>4. c \in Shapes /\ c.search \in BOOLEAN /\ clients[s] \in Nat /\ id \in Nat
  BY WaysAreKnown, IdsAreNumbers DEF AtOnce, RestInv
<1>5. r \in Asked /\ r.socket = s /\ r.stage = "done" /\ r.answers = 1 /\ r.fate = "answered"
  <2>1. q \in Asked
    BY <1>4 DEF Asked, Stages, Fates, NewRequest
  <2>2. q.socket = s /\ q.stage = "done"
    BY DEF NewRequest
  <2>3. 1 \in 0..1 /\ "answered" \in Fates
    BY DEF Fates
  <2> HIDE DEF q
  <2>4. QED
    BY <2>1, <2>2, <2>3 DEF Asked
<1> HIDE DEF q, r
<1>6. Sound(r)
  BY <1>5 DEF Sound
<1> HIDE DEF r
<1>7. /\ requests \in Seq(Asked) /\ \A i \in DOMAIN requests : Sound(requests[i])
      /\ Cardinality(Unserved(requests)) \in Nat
  BY RequestsAreFinite DEF RestInv
<1>8. /\ requests' \in Seq(Asked) /\ \A i \in DOMAIN requests' : Sound(requests'[i])
      /\ Cardinality(Unserved(requests')) = Cardinality(Unserved(requests))
      /\ Waited(requests) \subseteq Waited(requests')
  <2>1. requests' \in Seq(Asked) /\ \A i \in DOMAIN requests' : Sound(requests'[i])
    BY <1>3, <1>5, <1>6, <1>7, OneMore
  <2>2. Waited(requests) \subseteq Waited(requests')
    BY <1>3, <1>5, <1>7, OneMore
  <2>3. Cardinality(Unserved(requests')) = Cardinality(Unserved(requests)) + 0
    BY <1>3, <1>5, <1>6, <1>7, OneMore
  <2>4. QED
    BY <1>7, <2>1, <2>2, <2>3
<1>9. startTimes' \subseteq Waited(requests')
  BY <1>1, <1>8 DEF RestInv
<1>10. socket' \in [Sockets -> {"free", "open", "closing"}] /\ clients' \in [Sockets -> Nat]
  BY <1>1, <1>2 DEF RestInv
<1>11. /\ total' \in Nat /\ success' \in Nat /\ error' \in Nat /\ durations' \in Nat /\ searches' \in Nat
       /\ total' = success' + error' + Cardinality(Unserved(requests'))
       /\ durations' <= success' + error' /\ searches' <= durations'
  <2>1. /\ total \in Nat /\ success \in Nat /\ error \in Nat /\ durations \in Nat /\ searches \in Nat
        /\ total = success + error + Cardinality(Unserved(requests))
        /\ durations <= success + error /\ searches <= durations
    BY DEF RestInv
  <2>2. CASE Web(s)
    BY <1>1, <1>8, <2>1, <2>2
  <2>3. CASE ~Web(s)
    <3>1. total' = total + 1 /\ durations' = durations + 1
      BY <1>1, <2>3
    <3>2. searches' \in {searches, searches + 1}
      BY <1>1, <2>3
    <3>3. \/ success' = success + 1 /\ error' = error
          \/ success' = success /\ error' = error + 1
      BY <1>1, <2>3
    <3>4. QED
      BY <1>7, <1>8, <2>1, <3>1, <3>2, <3>3
  <2>4. QED
    BY <2>2, <2>3
<1>12. QED
  BY <1>8, <1>9, <1>10, <1>11 DEF RestInv

LEMMA CallLaterInv ==
    ASSUME RestInv, NEW s \in Sockets, NEW t \in Torrents, NEW c \in Shapes \ AtOnce, CallLater(s, t, c)
    PROVE  RestInv'
<1>1. PICK id \in Ids :
         /\ requests' = Append(requests, NewRequest(s, t, c, c.way, id))
         /\ startTimes' = IF Web(s) THEN startTimes ELSE startTimes \cup {id}
  BY DEF CallLater
<1>2. UNCHANGED <<socket, clients, success, error, durations, searches>> /\ total' = IF Web(s) THEN total ELSE total + 1
  BY DEF CallLater
<1> DEFINE r == NewRequest(s, t, c, c.way, id)
<1>3. c.search \in BOOLEAN /\ clients[s] \in Nat /\ id \in Nat /\ c.way \in {"peer", "dht", "votes"} /\ (c.way = "peer" => ~c.search)
  <2>1. c.search \in BOOLEAN /\ c.way \in {"well", "badly", "peer", "dht", "votes"} /\ (c.way = "peer" => ~c.search)
    BY WaysAreKnown
  <2>2. c.way \notin {"well", "badly"}
    BY DEF AtOnce, Checked
  <2>3. QED
    BY <2>1, <2>2, IdsAreNumbers DEF RestInv
<1>4. r \in Asked
  BY <1>3 DEF Asked, Stages, Fates, NewRequest
<1>5. /\ r.socket = s /\ r.fate = "none" /\ r.stage = c.way /\ r.answers = 0 /\ r.search = c.search /\ r.id = id
  BY DEF NewRequest
<1> HIDE DEF r
<1>6. Sound(r) /\ r.stage # "done"
  BY <1>3, <1>5 DEF Sound
<1>7. /\ requests \in Seq(Asked) /\ \A i \in DOMAIN requests : Sound(requests[i])
      /\ Cardinality(Unserved(requests)) \in Nat
  BY RequestsAreFinite DEF RestInv
<1>8. requests' = Append(requests, r)
  BY <1>1 DEF r
<1>9. requests' \in Seq(Asked) /\ \A i \in DOMAIN requests' : Sound(requests'[i])
  BY <1>4, <1>6, <1>7, <1>8, OneMore
<1>10. Cardinality(Unserved(requests')) = Cardinality(Unserved(requests)) + (IF ~Web(s) THEN 1 ELSE 0)
  BY <1>4, <1>5, <1>7, <1>8, OneMore
<1>11. startTimes' \subseteq Waited(requests')
  <2>1. Waited(requests) \subseteq Waited(requests')
    BY <1>4, <1>7, <1>8, OneMore
  <2>2. ~Web(s) => id \in Waited(requests')
    BY <1>4, <1>5, <1>6, <1>7, <1>8, OneMore
  <2>3. QED
    BY <1>1, <2>1, <2>2 DEF RestInv
<1>12. /\ total' \in Nat /\ success' \in Nat /\ error' \in Nat /\ durations' \in Nat /\ searches' \in Nat
       /\ total' = success' + error' + Cardinality(Unserved(requests'))
       /\ durations' <= success' + error' /\ searches' <= durations'
  BY <1>2, <1>7, <1>10 DEF RestInv
<1>13. QED
  BY <1>2, <1>9, <1>11, <1>12 DEF RestInv

(* A lookup goes on in the DHT: nothing is counted.                         *)
LEMMA GoesOnInv ==
    ASSUME RestInv, NEW i \in Pending, requests' = [requests EXCEPT ![i].stage = "dht"],
           UNCHANGED <<serverUp, wsUp, socket, clients, halves, startTimes, total, success, error, durations, searches>>
    PROVE  RestInv'
<1>1. /\ requests \in Seq(Asked) /\ DOMAIN requests = 1..Len(requests) /\ Len(requests) \in Nat
      /\ \A j \in DOMAIN requests : requests[j] \in Asked /\ Sound(requests[j])
  BY RequestsAreFinite DEF RestInv
<1>2. i \in DOMAIN requests /\ requests[i].stage # "done"
  BY DEF Pending, Requests
<1> DEFINE r == requests[i]
           u == [r EXCEPT !.stage = "dht"]
<1>3. DOMAIN requests' = DOMAIN requests /\ \A j \in DOMAIN requests : requests'[j] = IF j = i THEN u ELSE requests[j]
  BY <1>2
<1>4. r \in Asked /\ Sound(r) /\ r.stage # "done"
  BY <1>1, <1>2
<1> HIDE DEF r
<1>5. u \in Asked
  BY <1>4 DEF Asked, Stages
<1>6. u.stage = "dht" /\ u.answers = r.answers /\ u.fate = r.fate /\ u.socket = r.socket /\ u.id = r.id
  BY <1>4 DEF Asked
<1> HIDE DEF u
<1>7. Sound(u)
  BY <1>4, <1>6 DEF Sound
<1>8. requests' \in Seq(Asked)
  <2>1. requests' \in [1..Len(requests) -> Asked]
    BY <1>1, <1>3, <1>5
  <2>2. QED
    BY <1>1, <2>1, SeqDef
<1>9. \A j \in DOMAIN requests' : Sound(requests'[j])
  BY <1>1, <1>3, <1>7
<1>10. Http(requests') = Http(requests)
  BY <1>3, <1>6 DEF Http, r
<1>11. Unserved(requests') = Unserved(requests)
  BY <1>3, <1>6, <1>10 DEF Unserved, Http, r
<1>12. Waited(requests') = Waited(requests)
  <2>1. {j \in Http(requests') : requests'[j].stage # "done"} = {j \in Http(requests) : requests[j].stage # "done"}
    BY <1>3, <1>4, <1>6, <1>10 DEF Http, r
  <2>2. \A j \in DOMAIN requests : requests'[j].id = requests[j].id
    BY <1>3, <1>6 DEF r
  <2>3. QED
    BY <2>1, <2>2 DEF Waited, Http
<1>13. QED
  BY <1>8, <1>9, <1>11, <1>12 DEF RestInv

LEMMA RestNextInv ==
    ASSUME RestInv, RestNext
    PROVE  RestInv'
<1>1. ASSUME NEW s \in Sockets,
             \/ NewConnection(s) \/ Disconnected(s) \/ HalfRequest(s) \/ PlainRequest(s)
      PROVE  RestInv'
  <2>1. UNCHANGED <<requests, startTimes, total, success, error, durations, searches>>
    BY <1>1 DEF NewConnection, Disconnected, HalfRequest, PlainRequest
  <2>2. socket' \in [Sockets -> {"free", "open", "closing"}] /\ clients' \in [Sockets -> Nat]
    <3>1. CASE NewConnection(s)
      BY <3>1 DEF NewConnection, RestInv
    <3>2. CASE Disconnected(s)
      BY <3>2 DEF Disconnected, RestInv
    <3>3. CASE HalfRequest(s)
      BY <3>3 DEF HalfRequest, RestInv
    <3>4. CASE PlainRequest(s)
      BY <3>4 DEF PlainRequest, RestInv
    <3>5. QED
      BY <1>1, <3>1, <3>2, <3>3, <3>4
  <2>3. QED
    BY <2>1, <2>2 DEF RestInv
<1>2. CASE StartServer
  BY <1>2 DEF StartServer, RestInv
<1>3. ASSUME NEW s \in Sockets, NEW t \in Torrents, Call(s, t) PROVE RestInv'
  BY <1>3, CallNowInv, CallLaterInv DEF Call
<1>4. ASSUME NEW t \in Torrents, RemoteTorrentReceived(t) PROVE RestInv'
  <2>1. AskingPeers(t) \subseteq Pending /\ \A i \in AskingPeers(t) : requests[i].stage = "peer"
    BY DEF AskingPeers
  <2>2. Respond(AskingPeers(t), TRUE)
    BY <1>4 DEF RemoteTorrentReceived
  <2>3. QED
    BY <2>1, <2>2, RespondInv
<1>5. ASSUME NEW i \in Pending, NEW ok \in BOOLEAN, Respond({i}, ok) PROVE RestInv'
  <2>1. {i} \subseteq Pending /\ \E j : {i} = {j}
    OBVIOUS
  <2>2. QED
    BY <1>5, <2>1, RespondInv
<1>6. ASSUME NEW i \in 1..MaxRequests, PeerTimeout(i) PROVE RestInv'
  BY <1>5, <1>6, GoesOnInv DEF PeerTimeout
<1>7. ASSUME NEW i \in 1..MaxRequests, MetadataFetched(i) \/ VotesAnswered(i) PROVE RestInv'
  BY <1>5, <1>7 DEF MetadataFetched, VotesAnswered
<1>8. QED
  BY <1>1, <1>2, <1>3, <1>4, <1>6, <1>7 DEF RestNext

LEMMA RestStutter ==
    ASSUME RestInv, UNCHANGED restVars
    PROVE  RestInv'
BY DEF restVars, RestInv

-----------------------------------------------------------------------------
(* The cleanup *)
Sweeps == [on : BOOLEAN, dry : BOOLEAN, after : {0} \cup RowIds, scanned : Nat, matched : Nat]

CleanupInv == CleanupTypeOK /\ sweep \in Sweeps /\ SweepSkipsNothing

LEMMA RowIdFacts ==
    /\ RowIds \subseteq Nat \ {0} /\ IsFiniteSet(RowIds) /\ Batch \in Nat
    /\ \E m \in Nat : \A r \in RowIds : r <= m
<1>1. PICK m \in RowIds \cup {0} : RowIds \subseteq 1..m
  BY CleanupAssumption
<1>2. m \in Nat
  BY <1>1
<1>3. IsFiniteSet(1..m)
  BY <1>2, FS_Interval
<1>4. IsFiniteSet(RowIds)
  BY <1>1, <1>3, FS_Subset
<1>5. QED
  BY <1>1, <1>2, <1>4, CleanupAssumption

LEMMA CleanupInitInv == CleanupInit => CleanupInv
<1> SUFFICES ASSUME CleanupInit PROVE CleanupInv
  OBVIOUS
<1>1. sweep = NoSweep /\ index \subseteq RowIds /\ late = {} /\ kept = {}
  BY DEF CleanupInit
<1>2. NoSweep \in Sweeps /\ NoSweep.on = FALSE /\ NoSweep.after = 0 /\ NoSweep.scanned = 0 /\ NoSweep.matched = 0
  BY DEF NoSweep, Sweeps
<1>3. QED
  BY <1>1, <1>2 DEF CleanupInv, CleanupTypeOK, SweepSkipsNothing

(* A page has every row of the index between the page before it and its     *)
(* own last one.                                                            *)
LEMMA PageFacts ==
    ASSUME NEW some, some \subseteq RowIds
    PROVE  /\ PageAfterId(some) \subseteq some
           /\ \A r \in some, p \in PageAfterId(some) : r <= p => r \in PageAfterId(some)
<1> SUFFICES ASSUME NEW r \in some, NEW p \in PageAfterId(some), r <= p
             PROVE  r \in PageAfterId(some)
  BY DEF PageAfterId
<1> DEFINE Upto(x) == {o \in some : o <= x}
<1>1. p \in some /\ Cardinality(Upto(p)) <= Batch
  BY DEF PageAfterId
<1>2. Upto(r) \subseteq Upto(p)
  <2> SUFFICES ASSUME NEW o \in some, o <= r PROVE o <= p
    OBVIOUS
  <2>1. o \in Nat /\ r \in Nat /\ p \in Nat
    BY <1>1, RowIdFacts
  <2>2. QED
    BY <2>1
<1>3. IsFiniteSet(Upto(p)) /\ IsFiniteSet(Upto(r))
  <2>1. Upto(p) \in SUBSET RowIds /\ Upto(r) \in SUBSET RowIds
    OBVIOUS
  <2>2. QED
    BY <2>1, FS_Subset, RowIdFacts
<1>4. Cardinality(Upto(r)) <= Cardinality(Upto(p)) /\ Cardinality(Upto(r)) \in Nat /\ Cardinality(Upto(p)) \in Nat
  BY <1>2, <1>3, FS_Subset, FS_CardinalityType
<1>5. Cardinality(Upto(r)) <= Batch
  BY <1>1, <1>4, RowIdFacts
<1>6. QED
  BY <1>5 DEF PageAfterId

LEMMA SweepMoves ==
    ASSUME NEW w \in Sweeps, NEW a \in RowIds, NEW s \in Nat, NEW m \in Nat,
           NEW v, v = [w EXCEPT !.after = a, !.scanned = s, !.matched = m]
    PROVE  v \in Sweeps /\ v.on = w.on /\ v.after = a /\ v.scanned = s /\ v.matched = m
BY DEF Sweeps

LEMMA CleanPageInv ==
    ASSUME CleanupInv, CleanPage
    PROVE  CleanupInv'
<1> DEFINE ahead == {r \in index : r > sweep.after}
           page == PageAfterId(ahead)
           wrong == page \cap Rejected
<1>1. /\ sweep.on /\ page # {} /\ UNCHANGED late
      /\ sweep' = [sweep EXCEPT !.after = Max(page), !.scanned = @ + Cardinality(page),
                                !.matched = @ + Cardinality(wrong)]
  BY DEF CleanPage
<1>2. PICK failed \in IF sweep.dry THEN {wrong} ELSE SUBSET wrong :
        index' = index \ (wrong \ failed) /\ kept' = kept \cup failed
  BY DEF CleanPage
<1>3. index \subseteq RowIds /\ ahead \subseteq RowIds /\ page \subseteq ahead
  BY PageFacts DEF CleanupInv, CleanupTypeOK
<1>4. page \in SUBSET RowIds /\ failed \subseteq wrong
  BY <1>2, <1>3
<1>5. IsFiniteSet(page) /\ Cardinality(page) \in Nat
  BY <1>4, FS_Subset, FS_CardinalityType, RowIdFacts
<1>6. Cardinality(wrong) \in Nat /\ Cardinality(wrong) <= Cardinality(page)
  <2>1. wrong \in SUBSET page
    OBVIOUS
  <2>2. QED
    BY <1>5, <2>1, FS_Subset, FS_CardinalityType
<1>7. Max(page) \in page /\ \A y \in page : y <= Max(page)
  <2>1. page \in SUBSET Nat
    BY <1>4, RowIdFacts
  <2>2. PICK m \in Nat : \A x \in page : x <= m
    BY <1>4, RowIdFacts
  <2>3. QED
    BY <1>1, <2>1, <2>2, MaxIsGreatest
<1> HIDE DEF wrong, page, ahead
<1>8. /\ sweep \in Sweeps /\ sweep.matched \in Nat /\ sweep.scanned \in Nat /\ sweep.matched <= sweep.scanned
  BY DEF CleanupInv, CleanupTypeOK, Sweeps
<1>9. /\ sweep' \in Sweeps /\ sweep'.on = sweep.on /\ sweep'.after = Max(page)
      /\ sweep'.scanned = sweep.scanned + Cardinality(page) /\ sweep'.matched = sweep.matched + Cardinality(wrong)
  <2> DEFINE s == sweep.scanned + Cardinality(page)
             m == sweep.matched + Cardinality(wrong)
             a == Max(page)
  <2>1. s \in Nat /\ m \in Nat
    BY <1>5, <1>6, <1>8
  <2>2. sweep' = [sweep EXCEPT !.after = a, !.scanned = s, !.matched = m]
    BY <1>1
  <2>3. a \in RowIds
    BY <1>4, <1>7
  <2>4. sweep \in Sweeps
    BY <1>8
  <2> HIDE DEF s, m, a
  <2>5. sweep' \in Sweeps
    BY <2>1, <2>2, <2>3, <2>4 DEF Sweeps
  <2>6. sweep'.on = sweep.on /\ sweep'.after = a /\ sweep'.scanned = s /\ sweep'.matched = m
    BY <2>2, <2>4 DEF Sweeps
  <2>7. QED
    BY <2>5, <2>6 DEF s, m, a
<1>10. CleanupTypeOK'
  <2>1. sweep'.matched <= sweep'.scanned
    BY <1>5, <1>6, <1>8, <1>9
  <2>2. wrong \subseteq RowIds
    BY <1>4 DEF wrong
  <2>3. QED
    BY <1>1, <1>2, <1>4, <1>7, <1>9, <2>1, <2>2 DEF CleanupInv, CleanupTypeOK
<1>11. SweepSkipsNothing'
  <2> SUFFICES ASSUME NEW r \in index', r \in Rejected, r <= Max(page) PROVE r \in late' \cup kept'
    BY <1>9 DEF SweepSkipsNothing
  <2>1. r \in index
    BY <1>2
  <2>2. CASE r <= sweep.after
    BY <1>1, <1>2, <2>1, <2>2 DEF CleanupInv, SweepSkipsNothing
  <2>3. CASE ~(r <= sweep.after)
    <3>1. r \in Nat /\ sweep.after \in Nat
      <4>1. \A x \in {0} \cup RowIds : x \in Nat
        BY RowIdFacts
      <4>2. r \in RowIds /\ sweep.after \in {0} \cup RowIds
        BY <1>3, <2>1 DEF CleanupInv, CleanupTypeOK
      <4>3. QED
        BY <4>1, <4>2
    <3>2. r \in ahead
      BY <2>1, <2>3, <3>1 DEF ahead
    <3>3. r \in page
      BY <1>3, <1>7, <3>2, PageFacts DEF page
    <3>4. r \in wrong
      BY <3>3 DEF wrong
    <3>5. r \in failed
      BY <1>2, <3>4
    <3>6. QED
      BY <1>2, <3>5
  <2>4. QED
    BY <2>2, <2>3
<1>12. QED
  BY <1>9, <1>10, <1>11 DEF CleanupInv

LEMMA CleanupNextInv ==
    ASSUME CleanupInv, CleanupNext
    PROVE  CleanupInv'
<1>1. ASSUME NEW dry \in BOOLEAN, StartCleanup(dry) PROVE CleanupInv'
  <2>1. late' = {} /\ kept' = {} /\ index' = index /\ sweep' = [NoSweep EXCEPT !.on = TRUE, !.dry = dry]
    BY <1>1 DEF StartCleanup
  <2>2. sweep' \in Sweeps /\ sweep'.after = 0 /\ sweep'.matched = 0 /\ sweep'.scanned = 0
    BY <2>1 DEF NoSweep, Sweeps
  <2>3. SweepSkipsNothing'
    <3> SUFFICES ASSUME NEW r \in index', r <= 0 PROVE FALSE
      BY <2>2 DEF SweepSkipsNothing
    <3>1. r \in Nat \ {0}
      BY <2>1, RowIdFacts DEF CleanupInv, CleanupTypeOK
    <3>2. QED
      BY <3>1
  <2>4. CleanupTypeOK'
    BY <2>1, <2>2 DEF CleanupInv, CleanupTypeOK
  <2>5. QED
    BY <2>2, <2>3, <2>4 DEF CleanupInv
<1>2. CASE CleanPage
  BY <1>2, CleanPageInv
<1>3. CASE EndCleanup
  <2>1. UNCHANGED <<index, late, kept>> /\ sweep' = [sweep EXCEPT !.on = FALSE]
    BY <1>3 DEF EndCleanup
  <2>2. /\ sweep' \in Sweeps /\ sweep'.on = FALSE /\ sweep'.after = sweep.after
        /\ sweep'.matched = sweep.matched /\ sweep'.scanned = sweep.scanned
    BY <2>1 DEF CleanupInv, Sweeps
  <2>3. QED
    BY <2>1, <2>2 DEF CleanupInv, CleanupTypeOK, SweepSkipsNothing
<1>4. ASSUME NEW r \in RowIds, WorkerInserts(r) PROVE CleanupInv'
  <2>1. /\ index' = index \cup {r} /\ late' = (IF r <= sweep.after THEN late \cup {r} ELSE late)
        /\ kept' = kept \ {r} /\ sweep' = sweep
    BY <1>4 DEF WorkerInserts
  <2>2. CleanupTypeOK' /\ sweep' \in Sweeps
    BY <2>1 DEF CleanupInv, CleanupTypeOK
  <2>3. SweepSkipsNothing'
    BY <2>1 DEF CleanupInv, SweepSkipsNothing
  <2>4. QED
    BY <2>2, <2>3 DEF CleanupInv
<1>5. QED
  BY <1>1, <1>2, <1>3, <1>4 DEF CleanupNext

LEMMA CleanupStutter ==
    ASSUME CleanupInv, UNCHANGED cleanupVars
    PROVE  CleanupInv'
BY DEF cleanupVars, CleanupInv, CleanupTypeOK, SweepSkipsNothing

-----------------------------------------------------------------------------
(* A search in the window *)
ARow == [torrent : Listed, remote : BOOLEAN, byFile : BOOLEAN]
Shown(rs) == {rs[i].torrent : i \in DOMAIN rs}
OneRowEach(rs) == \A i, j \in DOMAIN rs : i # j => rs[i].torrent # rs[j].torrent
Truthful(rs, have) == \A i \in DOMAIN rs : rs[i].remote <=> rs[i].torrent \notin have

Question == [kind : {"search", "torrent"}, torrents : SUBSET Listed]
AHit == [kind : {"torrent", "torrents", "files"}, torrent : Listed]

SearchInv ==
    /\ query \subseteq Listed /\ found \subseteq Shown(rows) /\ ours \subseteq Listed
    /\ rows \in Seq(ARow) /\ OneRowEach(rows) /\ Truthful(rows, found)
    /\ asked \in Seq(Question) /\ Len(asked) <= MaxAsked /\ hits \in Seq(AHit)
    /\ opened \subseteq Listed /\ paneFiles \subseteq opened

LEMMA RowsAreKnown ==
    ASSUME NEW rs \in Seq(ARow)
    PROVE  /\ DOMAIN rs = 1..Len(rs) /\ Len(rs) \in Nat
           /\ \A i \in DOMAIN rs : rs[i] \in ARow
           /\ Shown(rs) \subseteq Listed
<1>1. DOMAIN rs = 1..Len(rs) /\ Len(rs) \in Nat
  BY LenProperties
<1>2. \A i \in DOMAIN rs : rs[i] \in ARow
  BY <1>1, ElementOfSeq
<1>3. \A i \in DOMAIN rs : rs[i].torrent \in Listed
  BY <1>2 DEF ARow
<1>4. QED
  BY <1>1, <1>2, <1>3 DEF Shown

LEMMA SearchInvMeans == SearchInv => SearchTypeOK /\ RowsAreTruthful /\ FilesAreOfTheOpened
<1> SUFFICES ASSUME SearchInv PROVE SearchTypeOK /\ RowsAreTruthful /\ FilesAreOfTheOpened
  OBVIOUS
<1>1. Shown(rows) \subseteq Listed /\ \A i \in DOMAIN rows : rows[i] \in ARow
  BY RowsAreKnown DEF SearchInv
<1>2. SearchTypeOK
  BY <1>1 DEF SearchInv, SearchTypeOK, ARow
<1>3. RowsAreTruthful
  BY DEF SearchInv, RowsAreTruthful, OneRowEach, Truthful
<1>4. QED
  BY <1>2, <1>3 DEF SearchInv, FilesAreOfTheOpened

LEMMA SearchInitInv == SearchInit => SearchInv
<1> SUFFICES ASSUME SearchInit PROVE SearchInv
  OBVIOUS
<1>1. rows = <<>> /\ asked = <<>> /\ hits = <<>> /\ found = {} /\ opened = {} /\ paneFiles = {} /\ query = {} /\ ours \subseteq Listed
  BY DEF SearchInit, NoTorrents
<1>2. rows \in Seq(ARow) /\ Len(rows) = 0 /\ asked \in Seq(Question) /\ Len(asked) = 0 /\ hits \in Seq(AHit)
  BY <1>1, EmptySeq
<1>3. DOMAIN rows = {}
  BY <1>2, LenProperties
<1>4. OneRowEach(rows) /\ Truthful(rows, found)
  BY <1>3 DEF OneRowEach, Truthful
<1>5. QED
  BY <1>1, <1>2, <1>4, SearchAssumption DEF SearchInv

(* A row that is met again: a file's match stays one, and ours wins.        *)
LEMMA RowMetAgain ==
    ASSUME NEW r \in ARow, NEW remote \in BOOLEAN, NEW byFile \in BOOLEAN
    PROVE  /\ LocalWins([r EXCEPT !.byFile = @ \/ byFile], remote) \in ARow
           /\ LocalWins([r EXCEPT !.byFile = @ \/ byFile], remote).torrent = r.torrent
           /\ LocalWins([r EXCEPT !.byFile = @ \/ byFile], remote).remote <=> r.remote /\ remote
<1> DEFINE b == r.byFile \/ byFile
           v == [r EXCEPT !.byFile = b]
<1>1. b \in BOOLEAN
  OBVIOUS
<1> HIDE DEF b
<1>2. v \in ARow /\ v.torrent = r.torrent
  BY <1>1 DEF ARow
<1>3. v.remote = r.remote
  BY DEF ARow
<1> HIDE DEF v
<1> DEFINE u == [v EXCEPT !.remote = FALSE]
<1>4. u \in ARow /\ u.torrent = v.torrent /\ u.remote = FALSE
  BY <1>2 DEF ARow
<1> HIDE DEF u
<1>5. LocalWins(v, remote) = IF v.remote /\ ~remote THEN u ELSE v
  BY DEF LocalWins, u
<1>6. LocalWins(v, remote) \in ARow /\ LocalWins(v, remote).torrent = r.torrent
  BY <1>2, <1>4, <1>5
<1>7. LocalWins(v, remote).remote <=> r.remote /\ remote
  <2>1. CASE v.remote /\ ~remote
    BY <1>4, <1>5, <2>1
  <2>2. CASE ~(v.remote /\ ~remote)
    BY <1>3, <1>5, <2>2
  <2>3. QED
    BY <2>1, <2>2
<1>8. QED
  BY <1>6, <1>7 DEF v, b

(* The rows ms of rs, to which a source gave t.                             *)
MergedAs(ms, rs, t, remote) ==
    \A i \in DOMAIN ms :
      \/ \E j \in DOMAIN rs : /\ ms[i].torrent = rs[j].torrent
                              /\ ms[i].remote <=> rs[j].remote /\ (rs[j].torrent = t => remote)
      \/ t \notin Shown(rs) /\ ms[i].torrent = t /\ (ms[i].remote <=> remote)

LEMMA MergedRows ==
    ASSUME NEW rs \in Seq(ARow), NEW t \in Listed, NEW remote \in BOOLEAN, NEW byFile \in BOOLEAN, OneRowEach(rs),
           NEW ms, ms = Merged(rs, t, remote, byFile)
    PROVE  /\ ms \in Seq(ARow) /\ OneRowEach(ms) /\ Shown(ms) = Shown(rs) \cup {t}
           /\ MergedAs(ms, rs, t, remote)
<1>1. DOMAIN rs = 1..Len(rs) /\ Len(rs) \in Nat /\ \A i \in DOMAIN rs : rs[i] \in ARow
  BY RowsAreKnown
<1>2. CASE \E i \in DOMAIN rs : rs[i].torrent = t
  <2> DEFINE again(i) == LocalWins([rs[i] EXCEPT !.byFile = @ \/ byFile], remote)
             one(i) == IF rs[i].torrent # t THEN rs[i] ELSE again(i)
  <2>1. ms = [i \in DOMAIN rs |-> one(i)]
    BY <1>2 DEF Merged
  <2>2. \A i \in DOMAIN rs : /\ again(i) \in ARow /\ again(i).torrent = rs[i].torrent
                             /\ again(i).remote <=> rs[i].remote /\ remote
    BY <1>1, RowMetAgain
  <2> HIDE DEF again
  <2>3. \A i \in DOMAIN rs : /\ one(i) \in ARow /\ one(i).torrent = rs[i].torrent
                             /\ one(i).remote <=> rs[i].remote /\ (rs[i].torrent = t => remote)
    BY <1>1, <2>2
  <2> HIDE DEF one
  <2>4. DOMAIN ms = DOMAIN rs /\ \A i \in DOMAIN rs : ms[i] = one(i)
    BY <2>1
  <2>5. ms \in Seq(ARow)
    <3>1. ms \in [1..Len(rs) -> ARow]
      BY <1>1, <2>1, <2>3
    <3>2. QED
      BY <1>1, <3>1, SeqDef
  <2>6. OneRowEach(ms)
    BY <2>3, <2>4 DEF OneRowEach
  <2>7. Shown(ms) = Shown(rs) /\ t \in Shown(rs)
    BY <1>2, <2>3, <2>4 DEF Shown
  <2>8. MergedAs(ms, rs, t, remote)
    <3>1. \A i \in DOMAIN ms : /\ ms[i].torrent = rs[i].torrent
                               /\ ms[i].remote <=> rs[i].remote /\ (rs[i].torrent = t => remote)
      BY <2>3, <2>4
    <3>2. QED
      BY <2>4, <3>1 DEF MergedAs
  <2>9. QED
    BY <2>4, <2>5, <2>6, <2>7, <2>8
<1>3. CASE ~(\E i \in DOMAIN rs : rs[i].torrent = t)
  <2> DEFINE r == Row(t, remote, byFile)
             n == Len(rs) + 1
  <2>1. ms = Append(rs, r)
    BY <1>3 DEF Merged
  <2>2. r \in ARow
    BY DEF Row, ARow
  <2>3. r.torrent = t /\ (r.remote <=> remote)
    BY DEF Row
  <2> HIDE DEF r
  <2>4. ms \in Seq(ARow) /\ Len(ms) = n /\ ms[n] = r /\ \A i \in 1..Len(rs) : ms[i] = rs[i]
    BY <2>1, <2>2, AppendProperties
  <2>5. DOMAIN ms = DOMAIN rs \cup {n} /\ n \notin DOMAIN rs
    <3>1. DOMAIN ms = 1..n
      BY <2>4, LenProperties
    <3>2. QED
      BY <1>1, <3>1
  <2> HIDE DEF n
  <2>6. \A i \in DOMAIN rs : ms[i] = rs[i] /\ rs[i].torrent # t
    BY <1>1, <1>3, <2>4
  <2>7. OneRowEach(ms)
    BY <2>3, <2>4, <2>5, <2>6 DEF OneRowEach
  <2>8. Shown(ms) = Shown(rs) \cup {t} /\ t \notin Shown(rs)
    BY <2>3, <2>4, <2>5, <2>6 DEF Shown
  <2>9. MergedAs(ms, rs, t, remote)
    BY <2>3, <2>4, <2>5, <2>6, <2>8 DEF MergedAs
  <2>10. QED
    BY <2>4, <2>7, <2>8, <2>9
<1>4. QED
  BY <1>2, <1>3

(* What our own index gives is shown once each, as ours.                    *)
LEMMA LocalRows ==
    ASSUME NEW named \in SUBSET Listed, NEW inFiles \in SUBSET Listed
    PROVE  /\ Local(named, inFiles) \in Seq(ARow) /\ OneRowEach(Local(named, inFiles))
           /\ Shown(Local(named, inFiles)) = named \cup inFiles
           /\ \A i \in DOMAIN Local(named, inFiles) : ~Local(named, inFiles)[i].remote
<1> DEFINE more == inFiles \ named
           a == SetToSeq(named)
           b == SetToSeq(more)
           shown == a \o b
           rs == Local(named, inFiles)
<1>1. IsFiniteSet(named) /\ IsFiniteSet(more)
  <2>1. more \in SUBSET Listed
    OBVIOUS
  <2>2. QED
    BY <2>1, SearchAssumption, FS_Subset
<1>2. /\ a \in Seq(named) /\ Len(a) \in Nat
      /\ \A i, j \in 1..Len(a) : a[i] = a[j] => i = j
      /\ \A x \in named : \E i \in 1..Len(a) : a[i] = x
  BY <1>1, SeqOfSet
<1>3. /\ b \in Seq(more) /\ Len(b) \in Nat
      /\ \A i, j \in 1..Len(b) : b[i] = b[j] => i = j
      /\ \A x \in more : \E i \in 1..Len(b) : b[i] = x
  <2> HIDE DEF more
  <2>1. QED
    BY <1>1, SeqOfSet
<1>4. (\A i \in 1..Len(a) : a[i] \in named) /\ (\A i \in 1..Len(b) : b[i] \in more)
  <2> HIDE DEF a, b, more
  <2>1. QED
    BY <1>2, <1>3, ElementOfSeq
<1>5. a \in Seq(Listed) /\ b \in Seq(Listed)
  <2>1. more \subseteq Listed
    OBVIOUS
  <2> HIDE DEF a, b, more
  <2>2. QED
    BY <1>2, <1>3, <2>1, SeqMonotonic
<1>6. rs = [i \in DOMAIN shown |-> Row(shown[i], FALSE, shown[i] \in inFiles)]
  BY DEF Local
<1> HIDE DEF a, b, rs
<1>7. /\ shown \in Seq(Listed) /\ Len(shown) = Len(a) + Len(b)
      /\ \A i \in 1..Len(a) + Len(b) : shown[i] = IF i <= Len(a) THEN a[i] ELSE b[i - Len(a)]
  BY <1>5, ConcatProperties
<1>8. DOMAIN shown = 1..Len(a) + Len(b)
  BY <1>7, LenProperties
<1> HIDE DEF shown
<1> DEFINE n == Len(a) + Len(b)
<1>9. \A i \in 1..n : \/ i \in 1..Len(a) /\ shown[i] = a[i] /\ shown[i] \in named
                      \/ i - Len(a) \in 1..Len(b) /\ ~(i <= Len(a)) /\ shown[i] = b[i - Len(a)] /\ shown[i] \in more
  <2> SUFFICES ASSUME NEW i \in 1..n
               PROVE  \/ i \in 1..Len(a) /\ shown[i] = a[i] /\ shown[i] \in named
                      \/ i - Len(a) \in 1..Len(b) /\ ~(i <= Len(a)) /\ shown[i] = b[i - Len(a)] /\ shown[i] \in more
    OBVIOUS
  <2>1. CASE i <= Len(a)
    BY <1>2, <1>3, <1>4, <1>7, <2>1
  <2>2. CASE ~(i <= Len(a))
    <3>1. i - Len(a) \in 1..Len(b)
      BY <1>2, <1>3, <2>2
    <3>2. QED
      BY <1>4, <1>7, <2>2, <3>1
  <2>3. QED
    BY <2>1, <2>2
<1>10. \A i, j \in 1..n : shown[i] = shown[j] => i = j
  <2> SUFFICES ASSUME NEW i \in 1..n, NEW j \in 1..n, shown[i] = shown[j] PROVE i = j
    OBVIOUS
  <2>1. CASE shown[i] \in named
    <3>1. i \in 1..Len(a) /\ j \in 1..Len(a) /\ a[i] = a[j]
      BY <1>9, <2>1
    <3>2. QED
      BY <1>2, <3>1
  <2>2. CASE shown[i] \notin named
    <3>1. i - Len(a) \in 1..Len(b) /\ j - Len(a) \in 1..Len(b) /\ b[i - Len(a)] = b[j - Len(a)]
      BY <1>9, <2>2
    <3>2. i - Len(a) = j - Len(a)
      BY <1>3, <3>1
    <3>3. QED
      BY <1>2, <3>2
  <2>3. QED
    BY <2>1, <2>2
<1>11. {shown[i] : i \in 1..n} = named \cup inFiles
  <2>1. ASSUME NEW i \in 1..n PROVE shown[i] \in named \cup inFiles
    BY <1>9
  <2>2. ASSUME NEW x \in named PROVE \E i \in 1..n : shown[i] = x
    <3>1. PICK i \in 1..Len(a) : a[i] = x
      BY <1>2
    <3>2. i \in 1..n /\ i <= Len(a)
      BY <1>2, <1>3
    <3>3. QED
      BY <1>7, <3>1, <3>2
  <2>3. ASSUME NEW x \in more PROVE \E i \in 1..n : shown[i] = x
    <3>1. PICK i \in 1..Len(b) : b[i] = x
      BY <1>3
    <3>2. i + Len(a) \in 1..n /\ ~(i + Len(a) <= Len(a)) /\ (i + Len(a)) - Len(a) = i
      BY <1>2, <1>3
    <3>3. QED
      BY <1>7, <3>1, <3>2
  <2>4. QED
    BY <2>1, <2>2, <2>3
<1> HIDE DEF n
<1>12. DOMAIN rs = 1..n /\ \A i \in 1..n : rs[i] = Row(shown[i], FALSE, shown[i] \in inFiles)
  BY <1>6, <1>8 DEF n
<1>13. \A i \in 1..n : shown[i] \in Listed
  BY <1>11
<1>14. ASSUME NEW i \in 1..n PROVE rs[i] \in ARow /\ rs[i].torrent = shown[i] /\ ~rs[i].remote
  <2>1. rs[i] = [torrent |-> shown[i], remote |-> FALSE, byFile |-> shown[i] \in inFiles]
    BY <1>12 DEF Row
  <2>2. (shown[i] \in inFiles) \in BOOLEAN
    OBVIOUS
  <2>3. rs[i] \in ARow
    BY <1>13, <2>1, <2>2 DEF ARow
  <2>4. QED
    BY <2>1, <2>3
<1>15. rs \in Seq(ARow)
  <2>1. rs \in [1..n -> ARow]
    BY <1>6, <1>8, <1>12, <1>14 DEF n
  <2>2. n \in Nat
    BY <1>2, <1>3 DEF n
  <2>3. QED
    BY <2>1, <2>2, SeqDef
<1>16. OneRowEach(rs)
  BY <1>10, <1>12, <1>14 DEF OneRowEach
<1>17. Shown(rs) = named \cup inFiles
  BY <1>11, <1>12, <1>14 DEF Shown
<1>18. QED
  BY <1>12, <1>14, <1>15, <1>16, <1>17 DEF rs

LEMMA PerformSearchInv ==
    ASSUME SearchInv, NEW q \in SUBSET Listed, PerformSearch(q)
    PROVE  SearchInv'
<1>1. /\ Len(asked) < MaxAsked /\ query' = q
      /\ asked' \in {asked, Append(asked, [kind |-> "search", torrents |-> q])}
      /\ UNCHANGED <<ours, hits, opened, paneFiles>>
  BY DEF PerformSearch
<1>2. PICK named \in SUBSET (q \cap ours), inFiles \in SUBSET (q \cap ours) :
        rows' = Local(named, inFiles) /\ found' = named \cup inFiles
  BY DEF PerformSearch
<1>3. named \in SUBSET Listed /\ inFiles \in SUBSET Listed
  OBVIOUS
<1>4. /\ rows' \in Seq(ARow) /\ OneRowEach(rows') /\ Shown(rows') = found'
      /\ \A i \in DOMAIN rows' : ~rows'[i].remote
  BY <1>2, <1>3, LocalRows
<1>5. Truthful(rows', found')
  BY <1>4 DEF Truthful, Shown
<1>6. asked' \in Seq(Question) /\ Len(asked') <= MaxAsked
  <2>1. asked \in Seq(Question) /\ Len(asked) \in Nat /\ Len(asked) <= MaxAsked /\ MaxAsked \in Nat
    BY LenProperties, SearchAssumption DEF SearchInv
  <2> DEFINE m == [kind |-> "search", torrents |-> q]
  <2>2. m \in Question
    BY DEF Question
  <2> HIDE DEF m
  <2>3. Append(asked, m) \in Seq(Question) /\ Len(Append(asked, m)) = Len(asked) + 1
    BY <2>1, <2>2, AppendProperties
  <2>4. asked' = asked \/ asked' = Append(asked, m)
    BY <1>1 DEF m
  <2>5. QED
    BY <1>1, <2>1, <2>3, <2>4
<1>7. QED
  BY <1>1, <1>4, <1>5, <1>6 DEF SearchInv

LEMMA SelectRowInv ==
    ASSUME SearchInv, NEW i, SelectRow(i)
    PROVE  SearchInv'
<1>1. /\ i \in DOMAIN rows /\ opened' = {rows[i].torrent} /\ paneFiles' = opened' \cap ours
      /\ UNCHANGED <<query, rows, found, ours, hits>>
  BY DEF SelectRow
<1>2. opened' \subseteq Listed
  <2>1. rows[i] \in ARow
    BY <1>1, RowsAreKnown DEF SearchInv
  <2>2. QED
    BY <1>1, <2>1 DEF ARow
<1>3. asked' \in Seq(Question) /\ Len(asked') <= MaxAsked
  <2>1. asked \in Seq(Question) /\ Len(asked) \in Nat /\ Len(asked) <= MaxAsked /\ MaxAsked \in Nat
    BY LenProperties, SearchAssumption DEF SearchInv
  <2> DEFINE m == [kind |-> "torrent", torrents |-> opened']
  <2>2. m \in Question
    BY <1>2 DEF Question
  <2>3. asked' = asked \/ (Len(asked) < MaxAsked /\ asked' = Append(asked, m))
    BY DEF SelectRow
  <2> HIDE DEF m
  <2>4. Append(asked, m) \in Seq(Question) /\ Len(Append(asked, m)) = Len(asked) + 1
    BY <2>1, <2>2, AppendProperties
  <2>5. QED
    BY <2>1, <2>3, <2>4
<1>4. QED
  BY <1>1, <1>2, <1>3 DEF SearchInv

(* A peer's answer, as messages.                                            *)
LEMMA EachIsAHit ==
    ASSUME NEW kind \in {"torrent", "torrents", "files"}, NEW set \in SUBSET Listed
    PROVE  Each(kind, set) \in Seq(AHit)
<1> DEFINE s == SetToSeq(set)
<1>1. s \in Seq(set)
  BY SearchAssumption, FS_Subset, SeqOfSet
<1>2. Each(kind, set) = [i \in DOMAIN s |-> Hit(kind, s[i])]
  BY DEF Each
<1> HIDE DEF s
<1>3. DOMAIN s = 1..Len(s) /\ Len(s) \in Nat /\ \A i \in 1..Len(s) : s[i] \in Listed
  BY <1>1, LenProperties, ElementOfSeq
<1>4. \A i \in 1..Len(s) : Hit(kind, s[i]) \in AHit
  BY <1>3 DEF Hit, AHit
<1>5. Each(kind, set) \in [1..Len(s) -> AHit]
  BY <1>2, <1>3, <1>4
<1>6. QED
  BY <1>3, <1>5, SeqDef

LEMMA PeerAnswersInv ==
    ASSUME SearchInv, PeerAnswers
    PROVE  SearchInv'
<1> DEFINE has == Head(asked).torrents \cap PeerHas
<1>1. /\ asked # <<>> /\ asked' = Tail(asked)
      /\ UNCHANGED <<query, rows, found, ours, opened, paneFiles>>
  BY DEF PeerAnswers
<1>2. asked \in Seq(Question) /\ Len(asked) \in Nat /\ Len(asked) <= MaxAsked /\ hits \in Seq(AHit) /\ MaxAsked \in Nat
  BY LenProperties, SearchAssumption DEF SearchInv
<1>3. Head(asked) \in Question /\ asked' \in Seq(Question) /\ Len(asked') = Len(asked) - 1
  BY <1>1, <1>2, HeadTailProperties
<1>4. has \in SUBSET Listed
  BY <1>3 DEF Question
<1>5. \/ hits' = hits \o Each("torrent", has)
      \/ \E named, inFiles \in SUBSET has : hits' = hits \o Each("torrents", named) \o Each("files", inFiles)
  BY DEF PeerAnswers
<1> HIDE DEF has
<1>6. hits' \in Seq(AHit)
  <2>1. CASE hits' = hits \o Each("torrent", has)
    BY <1>2, <1>4, <2>1, EachIsAHit, ConcatProperties
  <2>2. ASSUME NEW named \in SUBSET has, NEW inFiles \in SUBSET has,
               hits' = hits \o Each("torrents", named) \o Each("files", inFiles)
        PROVE  hits' \in Seq(AHit)
    <3>1. Each("torrents", named) \in Seq(AHit) /\ Each("files", inFiles) \in Seq(AHit)
      BY <1>4, EachIsAHit
    <3>2. hits \o Each("torrents", named) \in Seq(AHit)
      BY <1>2, <3>1, ConcatProperties
    <3>3. QED
      BY <2>2, <3>1, <3>2, ConcatProperties
  <2>3. QED
    BY <1>5, <2>1, <2>2
<1>7. Len(asked') <= MaxAsked
  BY <1>2, <1>3
<1>8. QED
  BY <1>1, <1>3, <1>6, <1>7 DEF SearchInv

LEMMA HandleHitInv ==
    ASSUME SearchInv, HandleHit
    PROVE  SearchInv'
<1> DEFINE t == Head(hits).torrent
           byFile == Head(hits).kind = "files"
<1>1. /\ hits # <<>> /\ hits' = Tail(hits) /\ UNCHANGED <<query, found, ours, asked, opened, paneFiles>>
      /\ rows' = IF query = NoTorrents THEN rows ELSE Merged(rows, t, TRUE, byFile)
  BY DEF HandleHit
<1>2. hits' \in Seq(AHit) /\ Head(hits) \in AHit
  BY <1>1, HeadTailProperties DEF SearchInv
<1>3. t \in Listed /\ byFile \in BOOLEAN
  BY <1>2 DEF AHit
<1> HIDE DEF t, byFile
<1>4. CASE query = NoTorrents
  BY <1>1, <1>2, <1>4 DEF SearchInv
<1>5. CASE query # NoTorrents
  <2>1. rows \in Seq(ARow) /\ OneRowEach(rows) /\ found \subseteq Shown(rows) /\ Truthful(rows, found)
    BY DEF SearchInv
  <2>2. rows' = Merged(rows, t, TRUE, byFile)
    BY <1>1, <1>5
  <2>3. /\ rows' \in Seq(ARow) /\ OneRowEach(rows') /\ Shown(rows') = Shown(rows) \cup {t}
        /\ MergedAs(rows', rows, t, TRUE)
    BY <1>3, <2>1, <2>2, MergedRows
  <2>4. Truthful(rows', found)
    BY <2>1, <2>3 DEF Truthful, MergedAs
  <2>5. QED
    BY <1>1, <1>2, <2>1, <2>3, <2>4 DEF SearchInv
<1>6. QED
  BY <1>4, <1>5

LEMMA HandleTorrentInv ==
    ASSUME SearchInv, HandleTorrent
    PROVE  SearchInv'
<1> DEFINE t == Head(hits).torrent
<1>1. /\ hits # <<>> /\ hits' = Tail(hits) /\ UNCHANGED <<query, rows, found, asked, opened>>
      /\ paneFiles' \in {paneFiles, FilesShown(t)} /\ ours' \in {ours, ours \cup {t}}
  BY DEF HandleTorrent
<1>2. hits' \in Seq(AHit) /\ Head(hits) \in AHit
  BY <1>1, HeadTailProperties DEF SearchInv
<1>3. t \in Listed
  BY <1>2 DEF AHit
<1> HIDE DEF t
<1>4. paneFiles' \subseteq opened
  BY <1>1 DEF FilesShown, SearchInv
<1>5. QED
  BY <1>1, <1>2, <1>3, <1>4 DEF SearchInv

LEMMA LookupEndsInv ==
    ASSUME SearchInv, NEW q \in SUBSET Listed, LookupEnds(q)
    PROVE  SearchInv'
<1>1. UNCHANGED <<query, asked, hits, opened, paneFiles>>
  BY DEF LookupEnds
<1>2. CASE UNCHANGED <<rows, found, ours>>
  BY <1>1, <1>2 DEF SearchInv
<1>3. ASSUME NEW t \in q, ours' \in {ours, ours \cup {t}},
             IF query = q THEN rows' = Merged(rows, t, FALSE, FALSE) /\ found' = found \cup {t}
             ELSE UNCHANGED <<rows, found>>
      PROVE  SearchInv'
  <2>1. ours' \subseteq Listed /\ t \in Listed
    BY <1>3 DEF SearchInv
  <2>2. CASE query # q
    BY <1>1, <1>3, <2>1, <2>2 DEF SearchInv
  <2>3. CASE query = q
    <3>1. rows \in Seq(ARow) /\ OneRowEach(rows) /\ found \subseteq Shown(rows) /\ Truthful(rows, found)
      BY DEF SearchInv
    <3>2. rows' = Merged(rows, t, FALSE, FALSE) /\ found' = found \cup {t}
      BY <1>3, <2>3
    <3>3. /\ rows' \in Seq(ARow) /\ OneRowEach(rows') /\ Shown(rows') = Shown(rows) \cup {t}
          /\ MergedAs(rows', rows, t, FALSE)
      BY <2>1, <3>1, <3>2, MergedRows
    <3>4. Truthful(rows', found')
      BY <3>1, <3>2, <3>3 DEF Truthful, MergedAs
    <3>5. QED
      BY <1>1, <2>1, <3>1, <3>2, <3>3, <3>4 DEF SearchInv
  <2>4. QED
    BY <2>2, <2>3
<1>4. QED
  BY <1>2, <1>3 DEF LookupEnds

LEMMA SearchNextInv ==
    ASSUME SearchInv, SearchNext
    PROVE  SearchInv'
<1>1. ASSUME NEW q \in {Listed} \cup {{t} : t \in Listed}, PerformSearch(q) \/ LookupEnds(q)
      PROVE  SearchInv'
  <2>1. q \in SUBSET Listed
    OBVIOUS
  <2>2. QED
    BY <1>1, <2>1, PerformSearchInv, LookupEndsInv
<1>2. ASSUME NEW i \in 1..Cardinality(Listed), SelectRow(i) PROVE SearchInv'
  BY <1>2, SelectRowInv
<1>3. CASE ClosePanel
  BY <1>3 DEF ClosePanel, SearchInv
<1>4. CASE PeerGone
  <2>1. asked' \in Seq(Question) /\ Len(asked') = 0 /\ hits' \in Seq(AHit)
    BY <1>4, EmptySeq DEF PeerGone
  <2>2. QED
    BY <1>4, <2>1, SearchAssumption DEF PeerGone, SearchInv
<1>5. QED
  BY <1>1, <1>2, <1>3, <1>4, PeerAnswersInv, HandleHitInv, HandleTorrentInv DEF SearchNext

LEMMA SearchStutter ==
    ASSUME SearchInv, UNCHANGED searchVars
    PROVE  SearchInv'
BY DEF searchVars, SearchInv

-----------------------------------------------------------------------------
(* A torrent's details *)
(* What is said of a torrent's transfer.                                    *)
Progress == {"none", "running", "done"}

PanelInv == PanelTypeOK /\ transfers \in [PanelTorrents -> Progress] /\ PanelIsOfOneTorrent

LEMMA PanelInitInv == PanelInit => PanelInv
BY DEF PanelInit, PanelInv, PanelTypeOK, PanelIsOfOneTorrent, Progress

LEMMA SetTorrentInv ==
    ASSUME PanelInv, NEW t \in PanelTorrents, SetTorrent(t)
    PROVE  PanelInv'
<1>1. /\ current' = t /\ counts' = t /\ rating' = t /\ UNCHANGED <<scraped, transfers, unpolled>>
      /\ button' = CASE transfers[t] = "none" -> "download"
                     [] transfers[t] = "running" -> "progress"
                     [] transfers[t] = "done" -> "completed"
  BY DEF SetTorrent
<1>2. transfers[t] \in {"none", "running", "done"} /\ transfers \in [PanelTorrents -> Progress]
  BY DEF PanelInv, Progress
<1>3. /\ button' \in {"download", "progress", "completed"}
      /\ button' = "download" => transfers[t] = "none"
      /\ button' = "completed" => transfers[t] = "done"
  <2>1. CASE transfers[t] = "none"
    BY <1>1, <2>1
  <2>2. CASE transfers[t] = "running"
    BY <1>1, <2>2
  <2>3. CASE transfers[t] = "done"
    BY <1>1, <2>3
  <2>4. QED
    BY <1>2, <2>1, <2>2, <2>3
<1>4. CASE DisplayInfo(t) /\ spinner' = FALSE /\ UNCHANGED scrapes
  <2>1. /\ infoShown' = t /\ images' \subseteq PanelTorrents
        /\ poster' = Nobody \/ (poster' = "loading" /\ t \in images')
    BY <1>4 DEF DisplayInfo, PanelInv, PanelTypeOK
  <2>2. PanelTypeOK'
    BY <1>1, <1>3, <1>4, <2>1 DEF PanelInv, PanelTypeOK
  <2>3. PanelIsOfOneTorrent'
    BY <1>1, <1>3, <1>4, <2>1, PanelAssumption DEF PanelIsOfOneTorrent
  <2>4. QED
    BY <1>1, <1>2, <2>2, <2>3 DEF PanelInv
<1>5. CASE /\ infoShown' = Nobody /\ poster' = Nobody /\ UNCHANGED images
           /\ spinner' \in BOOLEAN
           /\ scrapes' = IF spinner' THEN scrapes \cup {t} ELSE scrapes
  <2>1. PanelTypeOK'
    BY <1>1, <1>3, <1>5 DEF PanelInv, PanelTypeOK
  <2>2. PanelIsOfOneTorrent'
    BY <1>1, <1>3, <1>5, PanelAssumption DEF PanelIsOfOneTorrent
  <2>3. QED
    BY <1>1, <1>2, <2>1, <2>2 DEF PanelInv
<1>6. QED
  BY <1>4, <1>5 DEF SetTorrent

(* The image of another torrent goes nowhere.                               *)
LEMMA ImageArrivesInv ==
    ASSUME PanelInv, NEW t \in PanelTorrents, ImageArrives(t)
    PROVE  PanelInv'
<1>1. /\ images' \in {images, images \ {t}}
      /\ UNCHANGED <<current, counts, rating, infoShown, spinner, scraped, scrapes, button, transfers, unpolled>>
  BY DEF ImageArrives
<1>2. IF current = t THEN poster' \in {t, Nobody} ELSE poster' = poster
  BY DEF ImageArrives, StillShown
<1>3. PanelTypeOK'
  BY <1>1, <1>2 DEF PanelInv, PanelTypeOK
<1>4. PanelIsOfOneTorrent'
  BY <1>1, <1>2, PanelAssumption DEF PanelInv, PanelIsOfOneTorrent
<1>5. QED
  BY <1>1, <1>3, <1>4 DEF PanelInv

LEMMA TorrentUpdatedInv ==
    ASSUME PanelInv, NEW t \in PanelTorrents, NEW set, TorrentUpdated(t, set)
    PROVE  PanelInv'
<1>1. UNCHANGED <<current, rating, scrapes, button, transfers, unpolled>>
  BY DEF TorrentUpdated
<1>2. CASE current = t /\ t \in set
  <2>1. counts' = t /\ DisplayInfo(t) /\ spinner' = FALSE
    BY <1>2 DEF TorrentUpdated
  <2>2. /\ infoShown' = t /\ images' \subseteq PanelTorrents
        /\ poster' = Nobody \/ (poster' = "loading" /\ t \in images')
    BY <2>1 DEF DisplayInfo, PanelInv, PanelTypeOK
  <2>3. PanelTypeOK'
    BY <1>1, <2>1, <2>2 DEF PanelInv, PanelTypeOK
  <2>4. PanelIsOfOneTorrent'
    BY <1>1, <1>2, <2>1, <2>2, PanelAssumption DEF PanelInv, PanelIsOfOneTorrent
  <2>5. QED
    BY <1>1, <2>3, <2>4 DEF PanelInv
<1>3. CASE ~(current = t /\ t \in set)
  <2>1. UNCHANGED <<infoShown, poster, images, spinner>> /\ counts' = IF current = t THEN t ELSE counts
    BY <1>3 DEF TorrentUpdated
  <2>2. PanelTypeOK'
    BY <1>1, <2>1 DEF PanelInv, PanelTypeOK
  <2>3. PanelIsOfOneTorrent'
    BY <1>1, <2>1 DEF PanelInv, PanelIsOfOneTorrent
  <2>4. QED
    BY <1>1, <2>2, <2>3 DEF PanelInv
<1>4. QED
  BY <1>2, <1>3

(* The indicator stops with the scrape of the torrent shown.                *)
LEMMA InfoCheckedInv ==
    ASSUME PanelInv, NEW t \in PanelTorrents, InfoChecked(t)
    PROVE  PanelInv'
<1>1. /\ scrapes' = scrapes \ {t} /\ spinner' = IF current = t THEN FALSE ELSE spinner
      /\ UNCHANGED <<current, counts, rating, infoShown, poster, images, scraped, button, transfers, unpolled>>
  BY DEF InfoChecked
<1>2. PanelTypeOK'
  BY <1>1 DEF PanelInv, PanelTypeOK
<1>3. PanelIsOfOneTorrent'
  BY <1>1 DEF PanelInv, PanelIsOfOneTorrent
<1>4. QED
  BY <1>1, <1>2, <1>3 DEF PanelInv

LEMMA VotesUpdatedInv ==
    ASSUME PanelInv, NEW t \in PanelTorrents, VotesUpdated(t)
    PROVE  PanelInv'
<1>1. /\ rating' = IF current = t THEN t ELSE rating
      /\ UNCHANGED <<current, counts, infoShown, poster, images, spinner, scraped, scrapes, button, transfers, unpolled>>
  BY DEF VotesUpdated
<1>2. PanelTypeOK'
  BY <1>1 DEF PanelInv, PanelTypeOK
<1>3. PanelIsOfOneTorrent'
  BY <1>1 DEF PanelInv, PanelIsOfOneTorrent
<1>4. QED
  BY <1>1, <1>2, <1>3 DEF PanelInv

(* The button mirrors a transfer that is t's, and no other.                 *)
LEMMA TransferMirrored ==
    ASSUME PanelInv, NEW t \in PanelTorrents, NEW said \in Progress, NEW shown \in {"download", "progress", "completed"},
           transfers' = [transfers EXCEPT ![t] = said], Mirrored(t, shown),
           shown = "download" => said = "none", shown = "completed" => said = "done",
           unpolled' \in {unpolled, unpolled \ {t}}, RestOfPanel
    PROVE  PanelInv'
<1>1. /\ transfers' \in [PanelTorrents -> Progress] /\ transfers'[t] = said
      /\ \A u \in PanelTorrents : u # t => transfers'[u] = transfers[u]
  BY DEF PanelInv
<1>2. /\ button' = IF current = t THEN shown ELSE button
      /\ UNCHANGED <<current, counts, rating, infoShown, poster, images, spinner, scraped, scrapes>>
  BY DEF Mirrored, RestOfPanel
<1>3. PanelTypeOK'
  BY <1>2 DEF PanelInv, PanelTypeOK
<1>4. current # Nobody => current \in PanelTorrents
  BY DEF PanelInv, PanelTypeOK
<1>5. PanelIsOfOneTorrent'
  BY <1>1, <1>2, <1>4 DEF PanelInv, PanelIsOfOneTorrent
<1>6. QED
  BY <1>1, <1>3, <1>5 DEF PanelInv

(* The window does not hear of it, so the button stays as it is.            *)
LEMMA StartedElsewhereInv ==
    ASSUME PanelInv, NEW t \in PanelTorrents, StartedElsewhere(t)
    PROVE  PanelInv'
<1>1. /\ transfers[t] = "none" /\ transfers' = [transfers EXCEPT ![t] = "running"]
      /\ unpolled' = unpolled \cup {t}
      /\ UNCHANGED <<button, current, counts, rating, infoShown, poster, images, spinner, scraped, scrapes>>
  BY DEF StartedElsewhere, RestOfPanel
<1>2. /\ transfers' \in [PanelTorrents -> Progress] /\ transfers'[t] = "running"
      /\ \A u \in PanelTorrents : u # t => transfers'[u] = transfers[u]
  BY <1>1 DEF PanelInv, Progress
<1>3. PanelTypeOK'
  BY <1>1 DEF PanelInv, PanelTypeOK
<1>4. current # Nobody => current \in PanelTorrents
  BY DEF PanelInv, PanelTypeOK
<1>5. PanelIsOfOneTorrent'
  BY <1>1, <1>2, <1>4 DEF PanelInv, PanelIsOfOneTorrent
<1>6. QED
  BY <1>2, <1>3, <1>5 DEF PanelInv

LEMMA TransferMovesInv ==
    ASSUME PanelInv, NEW t \in PanelTorrents,
           DownloadRequested(t) \/ ProgressUpdated(t) \/ DownloadCompleted(t) \/ TorrentRemoved(t)
    PROVE  PanelInv'
<1>1. CASE DownloadRequested(t)
  BY <1>1, TransferMirrored DEF DownloadRequested, Progress
<1>2. CASE ProgressUpdated(t)
  <2>1. transfers' = [transfers EXCEPT ![t] = transfers[t]] /\ transfers[t] \in Progress
    BY <1>2 DEF ProgressUpdated, PanelInv
  <2>2. QED
    BY <1>2, <2>1, TransferMirrored DEF ProgressUpdated
<1>3. CASE DownloadCompleted(t)
  BY <1>3, TransferMirrored DEF DownloadCompleted, Progress
<1>4. CASE TorrentRemoved(t)
  BY <1>4, TransferMirrored DEF TorrentRemoved, Progress
<1>5. QED
  BY <1>1, <1>2, <1>3, <1>4

LEMMA PanelNextInv ==
    ASSUME PanelInv, PanelNext
    PROVE  PanelInv'
<1>1. PICK t \in PanelTorrents :
        \/ SetTorrent(t) \/ ImageArrives(t)
        \/ CountsScraped(t) \/ InfoScraped(t) \/ InfoChecked(t)
        \/ VotesUpdated(t)
        \/ StartedElsewhere(t) \/ DownloadRequested(t) \/ ProgressUpdated(t)
        \/ DownloadCompleted(t) \/ TorrentRemoved(t)
  BY DEF PanelNext
<1>2. CASE CountsScraped(t)
  BY <1>2, TorrentUpdatedInv DEF CountsScraped
<1>3. CASE InfoScraped(t)
  BY <1>3, TorrentUpdatedInv DEF InfoScraped
<1>4. QED
  BY <1>1, <1>2, <1>3, SetTorrentInv, ImageArrivesInv, InfoCheckedInv, VotesUpdatedInv,
     StartedElsewhereInv, TransferMovesInv

LEMMA PanelStutter ==
    ASSUME PanelInv, UNCHANGED panelVars
    PROVE  PanelInv'
BY DEF panelVars, PanelInv, PanelTypeOK, PanelIsOfOneTorrent

-----------------------------------------------------------------------------
(* The news *)
Once(s) == \A i, j \in 1..Len(s) : s[i] = s[j] => i = j
In(s) == {s[i] : i \in 1..Len(s)}

(* The list and the queue, each with the index beside it.                   *)
ActivityInv ==
    /\ waiting \in Seq(News) /\ list \in Seq(News) /\ Len(waiting) <= MaxQueue /\ Len(list) <= MaxDisplay
    /\ displayed = In(list) /\ waitingByHash = In(waiting)
    /\ Once(list) /\ Once(waiting) /\ In(list) \cap In(waiting) = {}
    /\ ~ticking => waiting = <<>>

LEMMA ActivityInvMeans == ActivityInv => ActivityTypeOK /\ NewsAddsUp
<1> SUFFICES ASSUME ActivityInv PROVE ActivityTypeOK /\ NewsAddsUp
  OBVIOUS
<1>1. /\ waiting \in Seq(News) /\ DOMAIN waiting = 1..Len(waiting) /\ Len(waiting) \in Nat
      /\ list \in Seq(News) /\ DOMAIN list = 1..Len(list) /\ Len(list) \in Nat
  BY LenProperties DEF ActivityInv
<1>2. In(list) = ToSet(list) /\ In(waiting) = ToSet(waiting)
  BY <1>1 DEF In, ToSet
<1>3. In(list) \subseteq News /\ In(waiting) \subseteq News
  BY <1>1, ElementOfSeq DEF In
<1> DEFINE all == list \o waiting
<1>4. /\ all \in Seq(News) /\ Len(all) = Len(list) + Len(waiting)
      /\ \A i \in 1..Len(list) + Len(waiting) : all[i] = IF i <= Len(list) THEN list[i] ELSE waiting[i - Len(list)]
  BY <1>1, ConcatProperties
<1>5. DOMAIN all = 1..Len(list) + Len(waiting)
  BY <1>4, LenProperties
<1> HIDE DEF all
<1>6. ASSUME NEW i \in DOMAIN all, NEW j \in DOMAIN all, all[i] = all[j] PROVE i = j
  <2>1. CASE i <= Len(list) /\ j <= Len(list)
    BY <1>1, <1>4, <1>5, <1>6, <2>1 DEF ActivityInv, Once
  <2>2. CASE ~(i <= Len(list)) /\ ~(j <= Len(list))
    <3>1. i - Len(list) \in 1..Len(waiting) /\ j - Len(list) \in 1..Len(waiting)
      BY <1>1, <1>5, <2>2
    <3>2. waiting[i - Len(list)] = waiting[j - Len(list)]
      BY <1>4, <1>5, <1>6, <2>2
    <3>3. i - Len(list) = j - Len(list)
      BY <3>1, <3>2 DEF ActivityInv, Once
    <3>4. QED
      BY <1>1, <1>5, <3>3
  <2>3. ASSUME NEW a \in DOMAIN all, NEW b \in DOMAIN all, a <= Len(list), ~(b <= Len(list)) PROVE all[a] # all[b]
    <3>1. a \in 1..Len(list) /\ b - Len(list) \in 1..Len(waiting)
      BY <1>1, <1>5, <2>3
    <3>2. all[a] \in In(list)
      BY <1>4, <1>5, <2>3, <3>1 DEF In
    <3>3. all[b] \in In(waiting)
      BY <1>4, <1>5, <2>3, <3>1 DEF In
    <3>4. QED
      BY <3>2, <3>3 DEF ActivityInv
  <2>4. QED
    BY <1>6, <2>1, <2>2, <2>3
<1>7. IsInjective(list \o waiting)
  BY <1>6 DEF IsInjective, all
<1>8. QED
  BY <1>2, <1>3, <1>7 DEF ActivityTypeOK, NewsAddsUp, ActivityInv

LEMMA ActivityInitInv == ActivityInit => ActivityInv
<1> SUFFICES ASSUME ActivityInit PROVE ActivityInv
  OBVIOUS
<1>1. waiting = <<>> /\ list = <<>> /\ waitingByHash = {} /\ displayed = {}
  BY DEF ActivityInit
<1>2. waiting \in Seq(News) /\ list \in Seq(News) /\ Len(waiting) = 0 /\ Len(list) = 0
  BY <1>1, EmptySeq
<1>3. In(waiting) = {} /\ In(list) = {} /\ Once(list) /\ Once(waiting)
  BY <1>2 DEF In, Once
<1>4. QED
  BY <1>1, <1>2, <1>3, ActivityAssumption DEF ActivityInv

LEMMA LoadRecentInv ==
    ASSUME ActivityInv, LoadRecent
    PROVE  ActivityInv'
<1>1. PICK recent \in SUBSET News :
         /\ list' = SubSeq(SetToSeq(recent), 1, IF Len(SetToSeq(recent)) < MaxDisplay THEN Len(SetToSeq(recent)) ELSE MaxDisplay)
         /\ displayed' = ToSet(list')
  BY DEF LoadRecent
<1>2. ticking' = TRUE /\ UNCHANGED <<waiting, waitingByHash>> /\ waiting = <<>>
  BY DEF LoadRecent, ActivityInv
<1> DEFINE shown == SetToSeq(recent)
           n == IF Len(shown) < MaxDisplay THEN Len(shown) ELSE MaxDisplay
<1>3. /\ shown \in Seq(recent) /\ Len(shown) \in Nat
      /\ \A i, j \in 1..Len(shown) : shown[i] = shown[j] => i = j
  <2>1. IsFiniteSet(recent)
    BY ActivityAssumption, FS_Subset
  <2>2. QED
    BY <2>1, SeqOfSet
<1>4. list' = SubSeq(shown, 1, n)
  BY <1>1
<1> HIDE DEF shown
<1>5. n \in Nat /\ n <= Len(shown) /\ n <= MaxDisplay
  BY <1>3, ActivityAssumption
<1> HIDE DEF n
<1>6. \A i \in 1..n : i \in 1..Len(shown) /\ shown[i] \in News
  <2>1. \A i \in 1..n : i \in 1..Len(shown)
    BY <1>3, <1>5
  <2>2. QED
    BY <1>3, <2>1, ElementOfSeq
<1>7. list' \in Seq(News) /\ Len(list') = n /\ \A i \in 1..n : list'[i] = shown[i]
  <2>1. /\ list' \in Seq(News) /\ Len(list') = (IF 1 <= n THEN n - 1 + 1 ELSE 0)
        /\ \A i \in 1..n - 1 + 1 : list'[i] = shown[1 + i - 1]
    BY <1>4, <1>5, <1>6, SubSeqProperties
  <2>2. n - 1 + 1 = n /\ \A i \in 1..n : 1 + i - 1 = i
    BY <1>5
  <2>3. QED
    BY <1>5, <2>1, <2>2
<1>8. Once(list')
  BY <1>3, <1>6, <1>7 DEF Once
<1>9. displayed' = In(list')
  <2>1. DOMAIN list' = 1..Len(list')
    BY <1>7, LenProperties
  <2>2. QED
    BY <1>1, <2>1 DEF In, ToSet
<1>10. In(waiting) = {}
  <2>1. Len(waiting) = 0
    BY <1>2, EmptySeq
  <2>2. QED
    BY <2>1 DEF In
<1>11. waiting' = waiting /\ waitingByHash' = waitingByHash /\ ticking' = TRUE
  BY <1>2
<1>12. /\ In(waiting') = In(waiting) /\ waitingByHash' = In(waiting') /\ Once(waiting')
       /\ waiting' \in Seq(News) /\ Len(waiting') <= MaxQueue
  BY <1>11 DEF ActivityInv, In, Once
<1>13. QED
  BY <1>5, <1>7, <1>8, <1>9, <1>10, <1>11, <1>12 DEF ActivityInv

LEMMA OnNewTorrentInv ==
    ASSUME ActivityInv, NEW t \in News, OnNewTorrent(t)
    PROVE  ActivityInv'
<1>1. /\ ticking /\ t \notin waitingByHash /\ t \notin displayed /\ Len(waiting) < MaxQueue
      /\ waiting' = Append(waiting, t) /\ waitingByHash' = waitingByHash \cup {t}
      /\ UNCHANGED <<list, displayed, ticking>>
  BY DEF OnNewTorrent, Known
<1>2. waiting \in Seq(News) /\ Len(waiting) \in Nat /\ MaxQueue \in Nat
  BY LenProperties, ActivityAssumption DEF ActivityInv
<1>3. /\ waiting' \in Seq(News) /\ Len(waiting') = Len(waiting) + 1
      /\ \A i \in 1..Len(waiting) : waiting'[i] = waiting[i]
      /\ waiting'[Len(waiting) + 1] = t
  BY <1>1, <1>2, AppendProperties
<1>4. In(waiting') = In(waiting) \cup {t}
  <2>1. 1..Len(waiting') = 1..Len(waiting) \cup {Len(waiting) + 1}
    BY <1>2, <1>3
  <2>2. QED
    BY <1>3, <2>1 DEF In
<1>5. Once(waiting')
  <2> SUFFICES ASSUME NEW i \in 1..Len(waiting'), NEW j \in 1..Len(waiting'), waiting'[i] = waiting'[j] PROVE i = j
    BY DEF Once
  <2>1. t \notin In(waiting) /\ Once(waiting)
    BY <1>1 DEF ActivityInv
  <2>2. \A k \in 1..Len(waiting) : waiting[k] # t
    BY <2>1 DEF In
  <2>3. \A k \in 1..Len(waiting') : k \in 1..Len(waiting) \/ k = Len(waiting) + 1
    BY <1>2, <1>3
  <2>4. QED
    BY <1>3, <2>1, <2>2, <2>3 DEF Once
<1>6. In(list') = In(list) /\ Once(list') /\ t \notin In(list)
  BY <1>1 DEF ActivityInv, In, Once
<1>7. Len(waiting') <= MaxQueue
  BY <1>1, <1>2, <1>3
<1>8. QED
  BY <1>1, <1>3, <1>4, <1>5, <1>6, <1>7 DEF ActivityInv

LEMMA DisplayNextInv ==
    ASSUME ActivityInv, DisplayNext
    PROVE  ActivityInv'
<1> DEFINE t == Head(waiting)
           top == <<t>> \o list
           gone == IF Len(top) > MaxDisplay THEN {top[Len(top)]} ELSE {}
<1>1. waiting # <<>> /\ ticking /\ waiting' = Tail(waiting) /\ UNCHANGED ticking
  BY DEF DisplayNext
<1>2. /\ waiting \in Seq(News) /\ Len(waiting) \in Nat /\ list \in Seq(News) /\ Len(list) \in Nat
      /\ Len(list) <= MaxDisplay /\ MaxDisplay \in Nat \ {0} /\ MaxQueue \in Nat /\ Len(waiting) <= MaxQueue
      /\ displayed = In(list) /\ waitingByHash = In(waiting)
      /\ Once(list) /\ Once(waiting) /\ In(list) \cap In(waiting) = {}
  BY LenProperties, ActivityAssumption DEF ActivityInv
<1>3. Len(waiting) \in Nat \ {0}
  BY <1>1, <1>2, EmptySeq
<1>4. t \in News /\ t = waiting[1]
  <2>1. t \in News
    BY <1>1, <1>2, HeadTailProperties
  <2>2. t = waiting[1]
    BY <1>1, <1>2
  <2>3. QED
    BY <2>1, <2>2
<1>5. /\ waiting' \in Seq(News) /\ Len(waiting') = Len(waiting) - 1
      /\ \A i \in 1..Len(waiting) - 1 : waiting'[i] = waiting[i + 1]
  BY <1>1, <1>2, HeadTailProperties
<1>6. In(waiting') = In(waiting) \ {t} /\ t \in In(waiting)
  <2>1. t \in In(waiting)
    BY <1>3, <1>4 DEF In
  <2>2. ASSUME NEW x \in In(waiting') PROVE x \in In(waiting) \ {t}
    <3>1. PICK i \in 1..Len(waiting) - 1 : x = waiting[i + 1]
      BY <1>5, <2>2 DEF In
    <3>2. i + 1 \in 1..Len(waiting) /\ i + 1 # 1 /\ 1 \in 1..Len(waiting)
      BY <1>3
    <3>3. x # t
      BY <1>2, <1>4, <3>1, <3>2 DEF Once
    <3>4. QED
      BY <3>1, <3>2, <3>3 DEF In
  <2>3. ASSUME NEW x \in In(waiting), x # t PROVE x \in In(waiting')
    <3>1. PICK i \in 1..Len(waiting) : x = waiting[i]
      BY <2>3 DEF In
    <3>2. i # 1
      BY <1>4, <2>3, <3>1
    <3>3. i - 1 \in 1..Len(waiting) - 1 /\ (i - 1) + 1 = i
      BY <1>3, <3>2
    <3>4. waiting'[i - 1] = x
      BY <1>5, <3>1, <3>3
    <3>5. QED
      BY <1>5, <3>3, <3>4 DEF In
  <2>4. QED
    BY <2>1, <2>2, <2>3
<1>7. Once(waiting')
  <2> SUFFICES ASSUME NEW i \in 1..Len(waiting) - 1, NEW j \in 1..Len(waiting) - 1, waiting[i + 1] = waiting[j + 1] PROVE i = j
    BY <1>5 DEF Once
  <2>1. i + 1 \in 1..Len(waiting) /\ j + 1 \in 1..Len(waiting)
    BY <1>3
  <2>2. i + 1 = j + 1
    BY <1>2, <2>1 DEF Once
  <2>3. QED
    BY <2>2
<1>8. Len(waiting') <= MaxQueue
  BY <1>2, <1>3, <1>5
<1>9. /\ list' = SubSeq(top, 1, Len(top) - Cardinality(gone))
      /\ displayed' = (displayed \cup {t}) \ gone
      /\ waitingByHash' = waitingByHash \ ({t} \cup gone)
  <2>1. t \notin displayed
    BY <1>2, <1>6
  <2>2. QED
    BY <2>1 DEF DisplayNext
<1> HIDE DEF t
<1>10. /\ top \in Seq(News) /\ Len(top) = Len(list) + 1 /\ top[1] = t
       /\ \A i \in 1..Len(list) : top[i + 1] = list[i]
  <2>1. <<t>> \in Seq(News) /\ Len(<<t>>) = 1 /\ <<t>>[1] = t
    BY <1>4
  <2>2. /\ top \in Seq(News) /\ Len(top) = 1 + Len(list)
        /\ \A i \in 1..1 + Len(list) : top[i] = IF i <= 1 THEN <<t>>[i] ELSE list[i - 1]
    BY <1>2, <2>1, ConcatProperties
  <2> HIDE DEF top
  <2>3. \A i \in 1..Len(list) : i + 1 \in 1..1 + Len(list) /\ ~(i + 1 <= 1) /\ (i + 1) - 1 = i
    BY <1>2
  <2>4. 1 \in 1..1 + Len(list)
    BY <1>2
  <2>5. QED
    BY <1>2, <2>1, <2>2, <2>3, <2>4
<1> HIDE DEF top
<1>11. In(top) = {t} \cup In(list) /\ Once(top)
  <2>1. 1..Len(top) = {1} \cup {i + 1 : i \in 1..Len(list)}
    <3>1. ASSUME NEW k \in 1..Len(top), k # 1 PROVE k \in {i + 1 : i \in 1..Len(list)}
      <4>1. k - 1 \in 1..Len(list) /\ (k - 1) + 1 = k
        BY <1>2, <1>10, <3>1
      <4>2. QED
        BY <4>1
    <3>2. \A i \in 1..Len(list) : i + 1 \in 1..Len(top)
      BY <1>2, <1>10
    <3>3. 1 \in 1..Len(top)
      BY <1>2, <1>10
    <3>4. QED
      BY <3>1, <3>2, <3>3
  <2>2. In(top) = {t} \cup In(list)
    BY <1>10, <2>1 DEF In
  <2>3. Once(top)
    <3> SUFFICES ASSUME NEW i \in 1..Len(top), NEW j \in 1..Len(top), top[i] = top[j] PROVE i = j
      BY DEF Once
    <3>1. \A k \in 1..Len(list) : top[k + 1] # t
      BY <1>2, <1>6, <1>10 DEF In
    <3>2. CASE i = 1 \/ j = 1
      BY <1>10, <2>1, <3>1, <3>2
    <3>3. CASE i # 1 /\ j # 1
      <4>1. PICK a, b \in 1..Len(list) : i = a + 1 /\ j = b + 1
        BY <2>1, <3>3
      <4>2. list[a] = list[b]
        BY <1>10, <4>1
      <4>3. a = b
        BY <1>2, <4>2 DEF Once
      <4>4. QED
        BY <4>1, <4>3
    <3>4. QED
      BY <3>2, <3>3
  <2>4. QED
    BY <2>2, <2>3
<1>12. In(top) \cap In(waiting') = {}
  BY <1>2, <1>6, <1>11
<1>13. CASE Len(top) > MaxDisplay
  <2> DEFINE n == Len(list)
  <2>1. n = MaxDisplay /\ Len(top) = n + 1 /\ gone = {top[n + 1]} /\ n \in Nat \ {0}
    BY <1>2, <1>10, <1>13
  <2>2. Cardinality(gone) = 1
    BY <2>1, FS_Singleton
  <2> HIDE DEF n, gone
  <2>3. list' = SubSeq(top, 1, n)
    <3>1. Len(top) - Cardinality(gone) = n
      BY <2>1, <2>2
    <3>2. QED
      BY <1>9, <3>1
  <2>4. \A i \in 1..n : i \in 1..n + 1 /\ top[i] \in News
    <3>1. \A i \in 1..n : i \in 1..n + 1
      BY <2>1
    <3>2. QED
      BY <1>10, <2>1, <3>1, ElementOfSeq
  <2>5. list' \in Seq(News) /\ Len(list') = n /\ \A i \in 1..n : list'[i] = top[i]
    <3>1. /\ list' \in Seq(News) /\ Len(list') = (IF 1 <= n THEN n - 1 + 1 ELSE 0)
          /\ \A i \in 1..n - 1 + 1 : list'[i] = top[1 + i - 1]
      BY <2>1, <2>3, <2>4, SubSeqProperties
    <3>2. n - 1 + 1 = n /\ 1 <= n /\ \A i \in 1..n : 1 + i - 1 = i
      BY <2>1
    <3>3. QED
      BY <3>1, <3>2
  <2>6. Once(list')
    BY <1>11, <2>1, <2>4, <2>5 DEF Once
  <2>7. In(list') = In(top) \ gone
    <3>1. 1..n + 1 = 1..n \cup {n + 1} /\ n + 1 \notin 1..n /\ n + 1 \in 1..n + 1
      BY <2>1
    <3>2. \A i \in 1..n : top[i] # top[n + 1]
      BY <1>11, <2>1, <3>1 DEF Once
    <3>3. In(top) = {top[i] : i \in 1..n} \cup {top[n + 1]}
      BY <2>1, <3>1 DEF In
    <3>4. In(list') = {top[i] : i \in 1..n}
      BY <2>5 DEF In
    <3>5. QED
      BY <2>1, <3>2, <3>3, <3>4
  <2>8. displayed' = In(list')
    BY <1>2, <1>9, <1>11, <2>7
  <2>9. gone \subseteq In(top)
    <3>1. n + 1 \in 1..n + 1
      BY <2>1
    <3>2. QED
      BY <2>1, <3>1 DEF In
  <2>10. waitingByHash' = In(waiting')
    BY <1>2, <1>6, <1>9, <1>12, <2>9
  <2>11. QED
    BY <1>1, <1>5, <1>7, <1>8, <1>12, <2>1, <2>5, <2>6, <2>7, <2>8, <2>10 DEF ActivityInv
<1>14. CASE ~(Len(top) > MaxDisplay)
  <2>1. gone = {}
    BY <1>14
  <2>2. Cardinality(gone) = 0
    BY <2>1, FS_EmptySet
  <2> HIDE DEF gone
  <2>3. list' = SubSeq(top, 1, Len(top))
    BY <1>2, <1>9, <1>10, <2>2
  <2>4. list' = top
    BY <1>10, <2>3, SubSeqFull
  <2>5. Len(list') <= MaxDisplay
    BY <1>2, <1>10, <1>14, <2>4
  <2>6. displayed' = In(list') /\ waitingByHash' = In(waiting') /\ list' \in Seq(News) /\ Once(list')
    BY <1>2, <1>6, <1>9, <1>10, <1>11, <2>1, <2>4
  <2>7. QED
    BY <1>1, <1>5, <1>7, <1>8, <1>12, <2>4, <2>5, <2>6 DEF ActivityInv
<1>15. QED
  BY <1>13, <1>14

LEMMA ActivityKept ==
    ASSUME ActivityInv, UNCHANGED <<waiting, waitingByHash, list, displayed, ticking>>
    PROVE  ActivityInv'
BY DEF ActivityInv, In, Once

LEMMA ActivityStutter ==
    ASSUME ActivityInv, UNCHANGED activityVars
    PROVE  ActivityInv'
BY ActivityKept DEF activityVars

LEMMA ActivityNextInv ==
    ASSUME ActivityInv, ActivityNext
    PROVE  ActivityInv'
<1>1. CASE TogglePause
  BY <1>1, ActivityKept DEF TogglePause
<1>2. QED
  BY <1>1, LoadRecentInv, DisplayNextInv, OnNewTorrentInv DEF ActivityNext

-----------------------------------------------------------------------------
(* All of them *)
FrontEndsInv ==
    /\ part \in Parts
    /\ SettingsInv /\ FeedInv /\ UpdatesInv /\ RestInv /\ CleanupInv
    /\ SearchInv /\ PanelInv /\ ActivityInv

LEMMA ServicesStand ==
    ASSUME FrontEndsInv, UNCHANGED serviceVars
    PROVE  SettingsInv' /\ FeedInv' /\ UpdatesInv' /\ RestInv' /\ CleanupInv'
<1>1. UNCHANGED settingsVars /\ UNCHANGED feedVars /\ UNCHANGED updateVars /\ UNCHANGED restVars /\ UNCHANGED cleanupVars
  BY DEF serviceVars
<1>2. QED
  BY <1>1, SettingsStutter, FeedStutter, UpdatesStutter, RestStutter, CleanupStutter DEF FrontEndsInv

LEMMA WindowStands ==
    ASSUME FrontEndsInv, UNCHANGED windowVars
    PROVE  SearchInv' /\ PanelInv' /\ ActivityInv'
<1>1. UNCHANGED searchVars /\ UNCHANGED panelVars /\ UNCHANGED activityVars
  BY DEF windowVars
<1>2. QED
  BY <1>1, SearchStutter, PanelStutter, ActivityStutter DEF FrontEndsInv

LEMMA FrontEndsNextInv ==
    ASSUME FrontEndsInv, [Next]_frontEndVars
    PROVE  FrontEndsInv'
<1>1. CASE /\ UNCHANGED part /\ SettingsNext
           /\ UNCHANGED <<feedVars, updateVars, restVars, cleanupVars, windowVars>>
  <2>1. SettingsInv'
    BY <1>1, SettingsNextInv DEF FrontEndsInv
  <2>2. FeedInv' /\ UpdatesInv' /\ RestInv' /\ CleanupInv'
    BY <1>1, FeedStutter, UpdatesStutter, RestStutter, CleanupStutter DEF FrontEndsInv
  <2>3. QED
    BY <1>1, <2>1, <2>2, WindowStands DEF FrontEndsInv
<1>2. CASE /\ UNCHANGED part /\ FeedNext
           /\ UNCHANGED <<settingsVars, updateVars, restVars, cleanupVars, windowVars>>
  <2>1. FeedInv'
    BY <1>2, FeedNextInv DEF FrontEndsInv
  <2>2. SettingsInv' /\ UpdatesInv' /\ RestInv' /\ CleanupInv'
    BY <1>2, SettingsStutter, UpdatesStutter, RestStutter, CleanupStutter DEF FrontEndsInv
  <2>3. QED
    BY <1>2, <2>1, <2>2, WindowStands DEF FrontEndsInv
<1>3. CASE /\ UNCHANGED part /\ UpdatesNext
           /\ UNCHANGED <<settingsVars, feedVars, restVars, cleanupVars, windowVars>>
  <2>1. UpdatesInv'
    BY <1>3, UpdatesNextInv DEF FrontEndsInv
  <2>2. SettingsInv' /\ FeedInv' /\ RestInv' /\ CleanupInv'
    BY <1>3, SettingsStutter, FeedStutter, RestStutter, CleanupStutter DEF FrontEndsInv
  <2>3. QED
    BY <1>3, <2>1, <2>2, WindowStands DEF FrontEndsInv
<1>4. CASE /\ UNCHANGED part /\ RestNext
           /\ UNCHANGED <<settingsVars, feedVars, updateVars, cleanupVars, windowVars>>
  <2>1. RestInv'
    BY <1>4, RestNextInv DEF FrontEndsInv
  <2>2. SettingsInv' /\ FeedInv' /\ UpdatesInv' /\ CleanupInv'
    BY <1>4, SettingsStutter, FeedStutter, UpdatesStutter, CleanupStutter DEF FrontEndsInv
  <2>3. QED
    BY <1>4, <2>1, <2>2, WindowStands DEF FrontEndsInv
<1>5. CASE /\ UNCHANGED part /\ CleanupNext
           /\ UNCHANGED <<settingsVars, feedVars, updateVars, restVars, windowVars>>
  <2>1. CleanupInv'
    BY <1>5, CleanupNextInv DEF FrontEndsInv
  <2>2. SettingsInv' /\ FeedInv' /\ UpdatesInv' /\ RestInv'
    BY <1>5, SettingsStutter, FeedStutter, UpdatesStutter, RestStutter DEF FrontEndsInv
  <2>3. QED
    BY <1>5, <2>1, <2>2, WindowStands DEF FrontEndsInv
<1>6. CASE UNCHANGED part /\ SearchNext /\ UNCHANGED <<serviceVars, panelVars, activityVars>>
  <2>1. SearchInv'
    BY <1>6, SearchNextInv DEF FrontEndsInv
  <2>2. PanelInv' /\ ActivityInv'
    BY <1>6, PanelStutter, ActivityStutter DEF FrontEndsInv
  <2>3. QED
    BY <1>6, <2>1, <2>2, ServicesStand DEF FrontEndsInv
<1>7. CASE UNCHANGED part /\ PanelNext /\ UNCHANGED <<serviceVars, searchVars, activityVars>>
  <2>1. PanelInv'
    BY <1>7, PanelNextInv DEF FrontEndsInv
  <2>2. SearchInv' /\ ActivityInv'
    BY <1>7, SearchStutter, ActivityStutter DEF FrontEndsInv
  <2>3. QED
    BY <1>7, <2>1, <2>2, ServicesStand DEF FrontEndsInv
<1>8. CASE UNCHANGED part /\ ActivityNext /\ UNCHANGED <<serviceVars, searchVars, panelVars>>
  <2>1. ActivityInv'
    BY <1>8, ActivityNextInv DEF FrontEndsInv
  <2>2. SearchInv' /\ PanelInv'
    BY <1>8, SearchStutter, PanelStutter DEF FrontEndsInv
  <2>3. QED
    BY <1>8, <2>1, <2>2, ServicesStand DEF FrontEndsInv
<1>9. CASE UNCHANGED frontEndVars
  <2>1. UNCHANGED part /\ UNCHANGED serviceVars /\ UNCHANGED windowVars
    BY <1>9 DEF frontEndVars, serviceVars
  <2>2. QED
    BY <2>1, ServicesStand, WindowStands DEF FrontEndsInv
<1>10. QED
  BY <1>1, <1>2, <1>3, <1>4, <1>5, <1>6, <1>7, <1>8, <1>9 DEF Next

\* Each part of the front ends keeps its invariant, whatever the others are: what
\* the services were given and the peer was told, what the two feeds and their
\* messages say of each other, who listens to the updater, which requests the
\* counters stand for, how far the sweep is, and what the window shows.
THEOREM FrontEndsInvariant == Spec => []FrontEndsInv
<1>1. Init => FrontEndsInv
  BY SettingsInitInv, FeedInitInv, UpdatesInitInv, RestInitInv, CleanupInitInv, SearchInitInv, PanelInitInv, ActivityInitInv
     DEF Init, FrontEndsInv
<1>2. FrontEndsInv /\ [Next]_frontEndVars => FrontEndsInv'
  BY FrontEndsNextInv
<1>3. QED
  BY <1>1, <1>2, PTL DEF Spec

\* The state of every part keeps its type, for any settings, nodes, callers,
\* requests, rows and torrents.
THEOREM FrontEndsTypeCorrect == Spec => []FrontEndsTypeOK
<1>1. FrontEndsInv => FrontEndsTypeOK
  BY FeedInvMeans, UpdatesInvMeans, RestInvMeans, SearchInvMeans, ActivityInvMeans
     DEF FrontEndsInv, FrontEndsTypeOK, SettingsInv, CleanupInv, PanelInv
<1>2. QED
  BY <1>1, FrontEndsInvariant, PTL

\* Whoever writes a setting, and however often the program is started and killed:
\* the services go by the settings in force, and a peer that has heard all we said
\* of our sharing holds what we do.
THEOREM SettingsAreAlwaysFollowed == Spec => []SettingsAreFollowed
<1>1. FrontEndsInv => SettingsAreFollowed
  BY DEF FrontEndsInv, SettingsInv, SettingsAreFollowed
<1>2. QED
  BY <1>1, FrontEndsInvariant, PTL

\* For any items, votes and dates: two nodes that met, and whose messages have
\* arrived, hold one feed, and each holds in its table what it shows.
THEOREM FeedsAlwaysAgree == Spec => []FeedsAgree
<1>1. FrontEndsInv => FeedsAgree
  BY FeedInvMeans DEF FrontEndsInv, FeedsAgree
<1>2. QED
  BY <1>1, FrontEndsInvariant, PTL

\* For any number of callers, checks and downloads: a caller of update.check hears
\* once, and the updater is launched on a complete update only.
THEOREM UpdatesStaySound == Spec => []UpdatesAreSound
<1>1. FrontEndsInv => UpdatesAreSound
  BY UpdatesInvMeans DEF FrontEndsInv, UpdatesAreSound
<1>2. QED
  BY <1>1, FrontEndsInvariant, PTL

\* For any sockets, torrents and requests, ids that are shared by two of them
\* included: the counters of /metrics account for every request, and the map of
\* start times holds the requests under way and no others.
THEOREM MetricsAlwaysAddUp == Spec => []MetricsAddUp
<1>1. FrontEndsInv => MetricsAddUp
  BY RestInvMeans DEF FrontEndsInv
<1>2. QED
  BY <1>1, FrontEndsInvariant, PTL

\* For any rows, pages and policy, with rows inserted and removed under it: a
\* cleanup passes over no row.
THEOREM SweepsSkipNothing == Spec => []SweepSkipsNothing
<1>1. FrontEndsInv => SweepSkipsNothing
  BY DEF FrontEndsInv, CleanupInv
<1>2. QED
  BY <1>1, FrontEndsInvariant, PTL

\* For any torrents, queries and peers, and answers in any order: the window shows
\* one row for each torrent with its source, what belongs to the torrent that is
\* open, and each piece of news once.
THEOREM WindowStaysTruthful == Spec => []WindowIsTruthful
<1>1. FrontEndsInv => WindowIsTruthful
  BY SearchInvMeans, ActivityInvMeans DEF FrontEndsInv, PanelInv, WindowIsTruthful
<1>2. QED
  BY <1>1, FrontEndsInvariant, PTL
=============================================================================
