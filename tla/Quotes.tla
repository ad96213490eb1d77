------------------------------- MODULE Quotes -------------------------------
(***************************************************************************)
(* The quotes of one market on their way to clients: read under the state  *)
(* lock with the ledger's sequence as their version (trading/quotes.go),   *)
(* stored in Redis by a script that compares versions (cache/redis.go),    *)
(* and sent to WebSocket subscribers through bounded channels (ws/hub.go). *)
(*                                                                         *)
(* Publication happens after the lock is released, so any number of quotes *)
(* are under way at once and overtake each other.                          *)
(***************************************************************************)
EXTENDS Integers, Sequences, FiniteSets

CONSTANTS
  Prices,       \* what a quote (bid and ask) can be
  Subscribers,  \* WebSocket connections
  Capacity,     \* of a subscriber's channel
  MaxSequence,  \* bound: ledger commits
  MaxRebuilds,  \* bound: quote requests that find the cache empty
  NoQuote       \* the key is not in Redis

ASSUME QuotesAssumption ==
  /\ Prices # {} /\ NoQuote \notin [seq : Nat, price : Prices]
  /\ Capacity \in Nat \ {0} /\ MaxSequence \in Nat /\ MaxRebuilds \in Nat

VARIABLES
  live,      \* the engine's book
  book,      \* the book the ledger had at each sequence number; s.sequence is its length
  failed,    \* s.failure # nil
  flights,   \* quotes that have left the lock and are being published
  rebuilds,  \* counter for the bound
  cache,     \* the Redis key
  newest,    \* the highest version ever stored in Redis
  members,   \* h.subscribers
  channel,   \* the subscribers' channels
  closed     \* subscribers whose channel is closed

ledger == <<live, book, failed>>
hub == <<members, channel, closed>>
vars == <<ledger, flights, rebuilds, cache, newest, hub>>

sequence == Len(book)

(* A publication.  stage: "set" before the Redis script, "accepted" after
   it, "sending" while Publish walks the subscribers in left.  older: the key
   was set by another publication since this one began. *)
Flight(n, from, price) ==
  [id |-> n, from |-> from, seq |-> sequence', price |-> price,
   stage |-> "set", left |-> {}, older |-> FALSE]
Quoted(f) == [seq |-> f.seq, price |-> f.price]

-----------------------------------------------------------------------------
(* Place, Cancel, ResolveFor and RecoverEngine: the engine's book changes, the
   ledger commits, and readQuotes takes the quote, all under the state lock. *)
Commit(price) ==
  /\ ~failed /\ sequence < MaxSequence
  /\ live' = price
  /\ book' = Append(book, price)
  /\ \/ flights' = flights \cup {Flight(sequence', "commit", price)}
     \/ flights' = flights   \* the engine did not answer GetQuote: no publication
  /\ UNCHANGED <<failed, rebuilds, cache, newest, hub>>

(* The engine has changed, or may have, and the commit fails. *)
CommitFails(price) ==
  /\ ~failed
  /\ live' = price
  /\ failed' = TRUE
  /\ UNCHANGED <<book, flights, rebuilds, cache, newest, hub>>

(* Mutation: Quote answers after a failed mutation. *)
MayReadUnchecked == TRUE
MayRead == ~failed

(* quoteHandler finds nothing in Redis and asks Service.Quote, which reads
   the engine under the read lock unless a mutation has failed. *)
Rebuild ==
  /\ MayRead /\ cache = NoQuote
  /\ sequence > 0 /\ rebuilds < MaxRebuilds
  /\ rebuilds' = rebuilds + 1
  /\ UNCHANGED ledger
  /\ flights' = flights \cup {Flight(MaxSequence + rebuilds', "rebuild", live)}
  /\ UNCHANGED <<cache, newest, hub>>

-----------------------------------------------------------------------------
(* Mutation: the script does not compare versions. *)
AcceptsAny(f) == TRUE

(* The setQuote script: only a strictly newer version replaces the key. *)
Accepts(f) == cache # NoQuote => cache.seq < f.seq
Stored(f) ==
  /\ cache' = Quoted(f)
  /\ newest' = IF f.seq > newest THEN f.seq ELSE newest
Overtaken(others) == {[g EXCEPT !.older = TRUE] : g \in others}

(* publishQuotes goes on to the hub when its version was accepted; the quote
   handler answers its client either way. *)
SetVersioned(f) ==
  /\ f.stage = "set"
  /\ LET others == flights \ {f} IN
     IF Accepts(f)
     THEN /\ Stored(f)
          /\ flights' = Overtaken(others)
                          \cup IF f.from = "commit" THEN {[f EXCEPT !.stage = "accepted"]} ELSE {}
     ELSE flights' = others /\ UNCHANGED <<cache, newest>>
  /\ UNCHANGED <<ledger, rebuilds, hub>>

(* Redis fails or the deadline passes; the script may still have run. *)
SetError(f) ==
  /\ f.stage = "set"
  /\ \/ Accepts(f) /\ Stored(f) /\ flights' = Overtaken(flights \ {f})
     \/ flights' = flights \ {f} /\ UNCHANGED <<cache, newest>>
  /\ UNCHANGED <<ledger, rebuilds, hub>>

(* Mutation: the key is set without an expiry. *)
NeverExpirable == FALSE

(* The key lives a minute from the last SET and a publication at most two
   seconds, so one that began before that SET is over by then. *)
Expirable == cache # NoQuote /\ \A f \in flights : f.stage = "set" => ~f.older
Expire ==
  /\ Expirable
  /\ cache' = NoQuote
  /\ UNCHANGED <<ledger, flights, rebuilds, newest, hub>>

-----------------------------------------------------------------------------
(* Hub.Publish holds the read lock while it walks the subscribers, and never
   waits for one: a full channel misses the message. *)
Done(f, left) == IF left = {} THEN {} ELSE {[f EXCEPT !.stage = "sending", !.left = left]}

Publish(f) ==
  /\ f.stage = "accepted"
  /\ flights' = (flights \ {f}) \cup Done(f, members)
  /\ UNCHANGED <<ledger, rebuilds, cache, newest, hub>>

Send(f, s) ==
  /\ f.stage = "sending" /\ s \in f.left
  /\ channel' = IF Len(channel[s]) < Capacity
                THEN [channel EXCEPT ![s] = Append(@, Quoted(f))] ELSE channel
  /\ flights' = (flights \ {f}) \cup Done(f, f.left \ {s})
  /\ UNCHANGED <<ledger, rebuilds, cache, newest, members, closed>>

(* Mutation: the hub's maps are changed without the lock. *)
HubUnlockedAlways == TRUE

(* Subscribe and its cancel function take the write lock. *)
HubUnlocked == \A f \in flights : f.stage # "sending"

Subscribe(s) ==
  /\ s \notin members \cup closed /\ channel[s] = <<>> /\ HubUnlocked
  /\ members' = members \cup {s}
  /\ UNCHANGED <<ledger, flights, rebuilds, cache, newest, channel, closed>>

(* ServeHTTP writes a message to its socket ... *)
Receive(s) ==
  /\ s \in members /\ channel[s] # <<>>
  /\ channel' = [channel EXCEPT ![s] = Tail(@)]
  /\ UNCHANGED <<ledger, flights, rebuilds, cache, newest, members, closed>>

(* ... or fails to, and cancels: it leaves the hub under the lock, and its
   channel is closed after the lock is released. *)
Unsubscribe(s) ==
  /\ s \in members /\ channel[s] # <<>> /\ HubUnlocked
  /\ members' = members \ {s}
  /\ UNCHANGED <<ledger, flights, rebuilds, cache, newest, channel, closed>>

Close(s) ==
  /\ s \notin members \cup closed /\ channel[s] # <<>>
  /\ closed' = closed \cup {s}
  /\ UNCHANGED <<ledger, flights, rebuilds, cache, newest, members, channel>>

-----------------------------------------------------------------------------
Init ==
  /\ live \in Prices /\ book = <<>> /\ failed = FALSE
  /\ flights = {} /\ rebuilds = 0 /\ cache = NoQuote /\ newest = 0
  /\ members = {} /\ channel = [s \in Subscribers |-> <<>>] /\ closed = {}

Publishing ==
  \E f \in flights :
    \/ SetVersioned(f) \/ SetError(f) \/ Publish(f)
    \/ \E s \in Subscribers : Send(f, s)

Next ==
  \/ \E price \in Prices : Commit(price) \/ CommitFails(price)
  \/ Rebuild \/ Publishing \/ Expire
  \/ \E s \in Subscribers : Subscribe(s) \/ Receive(s) \/ Unsubscribe(s) \/ Close(s)

(* A publication has a deadline, and Redis drops a key at its expiry. *)
Spec == Init /\ [][Next]_vars /\ WF_vars(Publishing) /\ WF_vars(Expire)

-----------------------------------------------------------------------------
Versioned(q) == q.seq \in 1..sequence /\ q.price = book[q.seq]

(* Every quote on its way, in Redis or in a channel is the book the ledger
   had at the version the quote carries: no client sees the engine ahead of
   the ledger, not even after a failed commit (readQuotes and Service.Quote
   under s.mu, the failure check of Quote). *)
QuotesCoherent ==
  /\ \A f \in flights : Versioned(f)
  /\ cache # NoQuote => Versioned(cache)
  /\ \A s \in Subscribers : \A k \in DOMAIN channel[s] : Versioned(channel[s][k])

(* Once Redis has stored a version it never serves an older one, although
   publishers overtake each other and the key expires and is rebuilt
   (setQuote, SetVersioned, quoteHandler). *)
NewestWins == cache # NoQuote => cache.seq = newest

(* No message is sent on a closed channel, which would panic the trading
   worker (Hub.Publish against the cancel function of Subscribe). *)
NoSendOnClosed == \A f \in flights : f.left \cap closed = {}

(* A quote that is no longer the book's, because its successor was never
   published, does not stay in Redis for ever (the script's PX expiry). *)
StaleEnds ==
  LET fresh == cache # NoQuote => cache.price = book[sequence]
  IN  ~fresh ~> fresh

-----------------------------------------------------------------------------
(* The inductive invariant of QuotesProofs, in named parts. *)
TypeOK ==
  /\ live \in Prices /\ book \in Seq(Prices) /\ failed \in BOOLEAN
  /\ flights \subseteq [id : Nat, from : {"commit", "rebuild"}, seq : Nat, price : Prices,
                        stage : {"set", "accepted", "sending"},
                        left : SUBSET Subscribers, older : BOOLEAN]
  /\ rebuilds \in Nat /\ newest \in Nat
  /\ cache \in {NoQuote} \cup [seq : Nat, price : Prices]
  /\ members \subseteq Subscribers /\ closed \subseteq Subscribers
  /\ channel \in [Subscribers -> Seq([seq : Nat, price : Prices])]

(* Until a commit fails, the engine's book is the ledger's last. *)
LiveInv == ~failed /\ sequence > 0 => live = book[sequence]

(* A publication that began after the last SET carries a version at least as
   new; while the key is absent there is no other, since it outlives those. *)
VersionInv ==
  /\ newest <= sequence
  /\ \A f \in flights : f.stage = "set" /\ ~f.older => newest <= f.seq
  /\ cache = NoQuote => \A f \in flights : f.stage = "set" => ~f.older

(* A walk over the subscribers visits members only, and those are open. *)
HubInv ==
  /\ \A f \in flights : f.left \subseteq members /\ (f.stage # "sending" => f.left = {})
  /\ members \cap closed = {}

IInv == TypeOK /\ LiveInv /\ QuotesCoherent /\ VersionInv /\ NewestWins /\ HubInv
=============================================================================
