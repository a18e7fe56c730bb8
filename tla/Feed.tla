--------------------------------- MODULE Feed ---------------------------------
(* FeedService over FeedRepository at two nodes, and the exchange of whole feeds
   that PeerApi makes of it when they connect.

   The ranking is left open: which item of a full feed has the lowest score
   depends on votes and on the time, any of them may be the one that goes. *)
EXTENDS Naturals, Sequences, FiniteSetsExt
CONSTANTS
    FeedNodes, Hashes,
    MaxSize,               \* maxSize_, 1000 in the code
    MaxTime,               \* bound: seconds that pass; the nodes agree on the time
    MaxLinks,              \* bound: connections
    MaxVotes, MaxLoads,    \* bounds: votes, launches
    MaxFailures            \* bound: accesses to the table that go wrong, deaths of the program among them

ASSUME FeedAssumption ==
    /\ \E a, b \in FeedNodes : a # b /\ FeedNodes = {a, b}
    /\ IsFiniteSet(Hashes) /\ Hashes # {}
    /\ MaxSize \in Nat /\ MaxTime \in Nat \ {0}

VARIABLES
    up, feed,              \* feed_: the date of each item, 0 of one that is not there
    feedDate, marked,      \* feedDate_, dirty_ (the flush timer runs while it is set)
    stored,                \* the feed table
    inStep,                \* ghost: the last access to the table did all it should
    paired, inbox, quiet,     \* the connection, what is on the way to each node, and
                           \* whether only the exchange changed a feed since it began
    seconds, links, votes, loads, failures

feedVars == <<up, feed, feedDate, marked, stored, inStep, paired, inbox, quiet, seconds, links, votes, loads, failures>>

NoItems == [h \in Hashes |-> 0]
Items(f) == {h \in Hashes : f[h] # 0}
Size(f) == Cardinality(Items(f))
Latest(f) == Max({f[h] : h \in Hashes})
OtherNode(n) == CHOOSE o \in FeedNodes : o # n
FeedRequest == [kind |-> "feed", items |-> NoItems, date |-> 0]
FeedResponse(f, d) == [kind |-> "feed_response", items |-> f, date |-> d]

FeedTypeOK ==
    /\ feed \in [FeedNodes -> [Hashes -> 0..MaxTime]] /\ stored \in [FeedNodes -> [Hashes -> 0..MaxTime]]
    /\ feedDate \in [FeedNodes -> 0..MaxTime]
    /\ \A n \in FeedNodes : Size(feed[n]) <= MaxSize /\ Size(stored[n]) <= MaxSize
    /\ \A n \in FeedNodes : Len(inbox[n]) <= 2 /\ (~paired => inbox[n] = <<>>)

FeedInit ==
    /\ up = [n \in FeedNodes |-> FALSE]
    /\ feed = [n \in FeedNodes |-> NoItems] /\ stored = [n \in FeedNodes |-> NoItems]
    /\ feedDate = [n \in FeedNodes |-> 0] /\ marked = [n \in FeedNodes |-> FALSE]
    /\ inStep = [n \in FeedNodes |-> TRUE]
    /\ paired = FALSE /\ inbox = [n \in FeedNodes |-> <<>>] /\ quiet = TRUE
    /\ seconds = 1 /\ links = 0 /\ votes = 0 /\ loads = 0 /\ failures = 0

----------------------------------------------------------------------------
(* One node *)
FailureUnless(well) == IF well THEN UNCHANGED failures ELSE failures < MaxFailures /\ failures' = failures + 1

\* load(): a table that cannot be read is an empty feed, and load() says it is well.
LoadFeed(n) ==
    /\ ~up[n] /\ loads < MaxLoads /\ loads' = loads + 1
    /\ up' = [up EXCEPT ![n] = TRUE]
    /\ \E read \in BOOLEAN :
         LET f == IF read THEN stored[n] ELSE NoItems
         IN  /\ feed' = [feed EXCEPT ![n] = f]
             /\ feedDate' = [feedDate EXCEPT ![n] = Latest(f)]
             /\ inStep' = [inStep EXCEPT ![n] = read \/ stored[n] = NoItems]
             /\ FailureUnless(read)
    /\ marked' = [marked EXCEPT ![n] = FALSE]
    /\ UNCHANGED <<stored, paired, inbox, quiet, seconds, links, votes>>

\* add() into a full feed: the item that ranks last gives way.
WithItem(f, h) ==
    IF f[h] # 0 THEN {f}
    ELSE IF Size(f) < MaxSize THEN {[f EXCEPT ![h] = seconds]}
    ELSE {[f EXCEPT ![h] = seconds, ![last] = 0] : last \in Items(f)}

\* A vote puts the torrent into the feed, or refreshes it there (addByHash()).
AddByHash(n, h) ==
    /\ up[n] /\ votes < MaxVotes /\ votes' = votes + 1
    /\ \E f \in WithItem(feed[n], h) : feed' = [feed EXCEPT ![n] = f]
    /\ feedDate' = [feedDate EXCEPT ![n] = seconds]
    /\ marked' = [marked EXCEPT ![n] = TRUE]
    /\ quiet' = FALSE
    /\ UNCHANGED <<up, stored, inStep, paired, inbox, seconds, links, loads, failures>>

\* replaceAll(): a DELETE, then INSERTs of a part of the rows each. Each may fail,
\* and none is made while the database is not connected.
Rewritten(n) ==
    {[table |-> feed[n], whole |-> TRUE], [table |-> stored[n], whole |-> feed[n] = stored[n]]}
        \cup {[table |-> [h \in Hashes |-> IF h \in part THEN feed[n][h] ELSE 0], whole |-> part = Items(feed[n])] :
                 part \in SUBSET Items(feed[n])}

\* persistNow() clears the mark before it knows what becomes of the write.
PersistNow(n) ==
    /\ \E w \in Rewritten(n) :
         /\ stored' = [stored EXCEPT ![n] = w.table] /\ inStep' = [inStep EXCEPT ![n] = w.whole]
         /\ FailureUnless(w.whole)
    /\ marked' = [marked EXCEPT ![n] = FALSE]

\* Two seconds after the first change.
Flush(n) ==
    /\ up[n] /\ marked[n]
    /\ PersistNow(n)
    /\ UNCHANGED <<up, feed, feedDate, paired, inbox, quiet, seconds, links, votes, loads>>

Unpaired == paired' = FALSE /\ inbox' = [n \in FeedNodes |-> <<>>]

\* save() from Application::stop().
SaveFeed(n) ==
    /\ up[n]
    /\ IF marked[n] THEN PersistNow(n) ELSE UNCHANGED <<stored, inStep, marked, failures>>
    /\ up' = [up EXCEPT ![n] = FALSE]
    /\ Unpaired
    /\ UNCHANGED <<feed, feedDate, quiet, seconds, links, votes, loads>>

\* The program dies, maybe inside a rewrite of the table.
FeedKilled(n) ==
    /\ up[n] /\ up' = [up EXCEPT ![n] = FALSE] /\ FailureUnless(FALSE)
    /\ \E t \in {stored[n]} \cup {w.table : w \in IF marked[n] THEN Rewritten(n) ELSE {}} :
         stored' = [stored EXCEPT ![n] = t]
    /\ marked' = [marked EXCEPT ![n] = FALSE]
    /\ Unpaired
    /\ UNCHANGED <<feed, feedDate, inStep, quiet, seconds, links, votes, loads>>

SecondPasses ==
    /\ seconds < MaxTime /\ seconds' = seconds + 1
    /\ UNCHANGED <<up, feed, feedDate, marked, stored, inStep, paired, inbox, quiet, links, votes, loads, failures>>

----------------------------------------------------------------------------
(* The exchange *)
\* onPeerConnected(), at both ends.
FeedConnect ==
    /\ ~paired /\ links < MaxLinks /\ \A n \in FeedNodes : up[n]
    /\ paired' = TRUE /\ links' = links + 1
    /\ inbox' = [n \in FeedNodes |-> <<FeedRequest>>]
    /\ quiet' = TRUE
    /\ UNCHANGED <<up, feed, feedDate, marked, stored, inStep, seconds, votes, loads, failures>>

FeedDisconnect ==
    /\ paired /\ Unpaired
    /\ UNCHANGED <<up, feed, feedDate, marked, stored, inStep, quiet, seconds, links, votes, loads, failures>>

\* handleFeedRequest(): the feed as it is now, whatever the asker said of its own.
HandleFeedRequest(n) ==
    /\ inbox[n] # <<>> /\ Head(inbox[n]).kind = "feed"
    /\ inbox' = [inbox EXCEPT ![n] = Tail(@), ![OtherNode(n)] = Append(@, FeedResponse(feed[n], feedDate[n]))]
    /\ UNCHANGED <<up, feed, feedDate, marked, stored, inStep, paired, quiet, seconds, links, votes, loads, failures>>

\* Mutant: only a larger feed replaces ours.
LargerOnly(n, r) == Size(r.items) > Size(feed[n])

\* Replace when the remote feed is larger, or as large and newer.
Replaces(n, r) ==
    \/ Size(r.items) > Size(feed[n])
    \/ Size(r.items) = Size(feed[n]) /\ r.date > feedDate[n]

MarkDirty(n) == [marked EXCEPT ![n] = TRUE]

\* handleFeedResponse() and fromJsonArray(): all of it or nothing.
HandleFeedResponse(n) ==
    /\ inbox[n] # <<>> /\ Head(inbox[n]).kind = "feed_response"
    /\ inbox' = [inbox EXCEPT ![n] = Tail(@)]
    /\ LET r == Head(inbox[n])
       IN  IF Replaces(n, r)
           THEN /\ feed' = [feed EXCEPT ![n] = r.items]
                /\ feedDate' = [feedDate EXCEPT ![n] = IF r.date > 0 THEN r.date ELSE seconds]
                /\ marked' = MarkDirty(n)
           ELSE UNCHANGED <<feed, feedDate, marked>>
    /\ UNCHANGED <<up, stored, inStep, paired, quiet, seconds, links, votes, loads, failures>>

FeedStep(n) ==
    \/ LoadFeed(n) \/ Flush(n) \/ SaveFeed(n) \/ FeedKilled(n)
    \/ \E h \in Hashes : AddByHash(n, h)
    \/ HandleFeedRequest(n) \/ HandleFeedResponse(n)

FeedNext == SecondPasses \/ FeedConnect \/ FeedDisconnect \/ \E n \in FeedNodes : FeedStep(n)

----------------------------------------------------------------------------
\* Two nodes that connect end up with one feed, whichever of the four messages
\* overtakes which, unless their feeds were as large and as new as each other.
FeedsMeet ==
    paired /\ quiet /\ (\A n \in FeedNodes : inbox[n] = <<>>) =>
        \A n, o \in FeedNodes :
            \/ feed[n] = feed[o]
            \/ n # o /\ Size(feed[n]) = Size(feed[o]) /\ feedDate[n] = feedDate[o]

\* Every change reaches the table: an unmarked feed is the stored one, unless the
\* last read or write of the table failed. (What a failed one leaves out stays out
\* until the next change: the mark is gone by then.)
StoredFollows == \A n \in FeedNodes : up[n] /\ ~marked[n] /\ inStep[n] => stored[n] = feed[n]

=============================================================================
