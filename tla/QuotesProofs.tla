---------------------------- MODULE QuotesProofs ----------------------------
(***************************************************************************)
(* Proofs about quotes, for any prices, subscribers, channel capacity and  *)
(* numbers of commits and rebuilds: a quote is the book of the ledger at   *)
(* its version wherever it has got to, Redis never goes back to an older   *)
(* version, and the hub never sends on a closed channel.                   *)
(***************************************************************************)
EXTENDS Quotes, SequenceTheorems, TLAPS

FlightSet == [id : Nat, from : {"commit", "rebuild"}, seq : Nat, price : Prices,
              stage : {"set", "accepted", "sending"},
              left : SUBSET Subscribers, older : BOOLEAN]
QuoteSet == [seq : Nat, price : Prices]

(* A commit adds one version and leaves the others as they were. *)
LEMMA AppendBook ==
  ASSUME book \in Seq(Prices), NEW price \in Prices, book' = Append(book, price)
  PROVE  /\ book' \in Seq(Prices)
         /\ sequence \in Nat /\ sequence' = sequence + 1
         /\ \A k \in 1..sequence : book'[k] = book[k]
         /\ book'[sequence + 1] = price
  BY AppendProperties, LenProperties DEF sequence

(* What was a quote of the ledger still is one after a commit. *)
LEMMA StaysVersioned ==
  ASSUME book \in Seq(Prices), NEW p \in Prices, book' = Append(book, p),
         NEW q, Versioned(q)
  PROVE  q.seq \in 1..sequence' /\ q.price = book'[q.seq]
<1>1. sequence \in Nat /\ sequence' = sequence + 1 /\ \A k \in 1..sequence : book'[k] = book[k]
  BY AppendBook
<1>2. q.seq \in 1..sequence /\ q.price = book[q.seq]
  BY DEF Versioned
<1>3. q.seq \in 1..sequence'  BY <1>1, <1>2
<1>4. q.price = book'[q.seq]  BY <1>1, <1>2
<1> QED  BY <1>3, <1>4

(* A publication that leaves the lock is one of the flights' type. *)
LEMMA FlightFacts ==
  ASSUME NEW n \in Nat, NEW from \in {"commit", "rebuild"}, NEW price \in Prices,
         sequence' \in Nat
  PROVE  /\ Flight(n, from, price) \in FlightSet
         /\ Flight(n, from, price).seq = sequence'
         /\ Flight(n, from, price).price = price
         /\ Flight(n, from, price).stage = "set"
         /\ Flight(n, from, price).left = {}
         /\ Flight(n, from, price).older = FALSE
  BY DEF Flight, FlightSet

(* Overtaking a publication changes its mark and nothing else. *)
LEMMA OvertakenFacts ==
  ASSUME NEW F \in SUBSET FlightSet, NEW h \in Overtaken(F)
  PROVE  /\ h \in FlightSet /\ h.older = TRUE
         /\ \E g \in F : /\ h.seq = g.seq /\ h.price = g.price
                         /\ h.stage = g.stage /\ h.left = g.left
  BY DEF Overtaken, FlightSet

(* The walk over the subscribers goes on with the same quote, or is over. *)
LEMMA DoneFacts ==
  ASSUME NEW f \in FlightSet, NEW L \in SUBSET Subscribers, NEW h \in Done(f, L)
  PROVE  /\ h \in FlightSet /\ h.seq = f.seq /\ h.price = f.price
         /\ h.stage = "sending" /\ h.left = L
  BY DEF Done, FlightSet

(* The state before anything was committed. *)
LEMMA InitInv == Init => IInv
<1> SUFFICES ASSUME Init PROVE IInv
  OBVIOUS
<1>1. book \in Seq(Prices) /\ sequence = 0 /\ channel \in [Subscribers -> Seq(QuoteSet)]
  BY EmptySeq DEF Init, sequence, QuoteSet
<1>2. TypeOK
  BY <1>1 DEF Init, TypeOK, QuoteSet
<1>3. \A s \in Subscribers : DOMAIN channel[s] = {}
  BY DEF Init
<1> QED  BY <1>1, <1>2, <1>3
  DEF Init, IInv, LiveInv, QuotesCoherent, VersionInv, NewestWins, HubInv

(* A commit and the quote it takes under the lock. *)
LEMMA CommitStep ==
  ASSUME IInv, NEW price \in Prices, Commit(price)
  PROVE  IInv'
<1>0. /\ book' \in Seq(Prices) /\ sequence \in Nat /\ sequence' = sequence + 1
      /\ \A k \in 1..sequence : book'[k] = book[k]
      /\ book'[sequence'] = price
  BY AppendBook DEF IInv, TypeOK, Commit
<1>1. ASSUME NEW f \in flights', f \notin flights
      PROVE  /\ f \in FlightSet /\ f.seq = sequence' /\ f.price = price
             /\ f.left = {} /\ f.older = FALSE /\ f.stage = "set"
  <2>1. sequence' \in Nat  BY <1>0
  <2>2. f = Flight(sequence', "commit", price)  BY <1>1 DEF Commit
  <2> QED  BY ZenonT(30), <2>1, <2>2, FlightFacts
<1>2. TypeOK'
  BY <1>0, <1>1 DEF IInv, TypeOK, Commit, hub, FlightSet
<1>3. LiveInv'
  BY <1>0 DEF LiveInv, Commit
<1>4. ASSUME NEW q, Versioned(q) PROVE Versioned(q)'
  <2>1. book \in Seq(Prices) /\ book' = Append(book, price)
    BY DEF IInv, TypeOK, Commit
  <2>2. q.seq \in 1..sequence' /\ q.price = book'[q.seq]
    BY <1>4, <2>1, StaysVersioned
  <2> QED  BY <2>2 DEF Versioned
<1>5. QuotesCoherent'
  <2>1. ASSUME NEW f \in flights' PROVE Versioned(f)'
    <3>1. CASE f \in flights  BY <3>1, <1>4 DEF IInv, QuotesCoherent
    <3>2. CASE f \notin flights
      <4>1. f.seq = sequence' /\ f.price = book'[sequence']  BY <3>2, <1>0, <1>1
      <4>2. sequence' \in 1..sequence'  BY <1>0
      <4> QED  BY <4>1, <4>2 DEF Versioned
    <3> QED  BY <3>1, <3>2
  <2>2. (cache # NoQuote => Versioned(cache))'
    BY <1>4 DEF IInv, QuotesCoherent, Commit
  <2>3. ASSUME NEW s \in Subscribers, NEW k \in DOMAIN channel'[s]
        PROVE  Versioned(channel[s][k])'
    BY <1>4 DEF IInv, QuotesCoherent, Commit, hub
  <2> QED  BY <2>1, <2>2, <2>3 DEF QuotesCoherent
<1>6. VersionInv'
  <2>1. newest' = newest /\ cache' = cache /\ newest \in Nat /\ newest <= sequence
    BY DEF IInv, VersionInv, TypeOK, Commit
  <2>2. newest' <= sequence'
    BY <1>0, <2>1
  <2>3. ASSUME NEW f \in flights' PROVE f.stage = "set" /\ ~f.older => newest' <= f.seq
    BY <1>1, <2>1, <2>2 DEF IInv, VersionInv
  <2>4. ASSUME NEW f \in flights', cache' = NoQuote PROVE f.stage = "set" => ~f.older
    BY <1>1, <2>1, <2>4 DEF IInv, VersionInv
  <2> QED  BY <2>2, <2>3, <2>4 DEF VersionInv
<1>7. NewestWins'
  BY DEF IInv, NewestWins, Commit
<1>8. HubInv'
  BY <1>1 DEF IInv, HubInv, Commit, hub
<1> QED  BY <1>2, <1>3, <1>5, <1>6, <1>7, <1>8 DEF IInv

(* A failed commit changes the engine's book, which nobody reads any more. *)
LEMMA CommitFailsStep ==
  ASSUME IInv, NEW price \in Prices, CommitFails(price)
  PROVE  IInv'
<1>1. TypeOK' /\ LiveInv'
  BY DEF IInv, TypeOK, LiveInv, CommitFails, hub
<1>2. QuotesCoherent' /\ VersionInv' /\ NewestWins' /\ HubInv'
  BY DEF IInv, QuotesCoherent, Versioned, VersionInv, NewestWins, HubInv, CommitFails, hub, sequence
<1> QED  BY <1>1, <1>2 DEF IInv

(* A rebuild reads the engine at the ledger's last version. *)
LEMMA RebuildStep ==
  ASSUME IInv, Rebuild
  PROVE  IInv'
<1>0. /\ book' = book /\ live' = live /\ failed' = failed /\ sequence' = sequence
      /\ sequence \in Nat /\ sequence > 0
      /\ live = book[sequence]
  BY LenProperties DEF IInv, TypeOK, LiveInv, Rebuild, MayRead, ledger, sequence
<1>1. ASSUME NEW f \in flights', f \notin flights
      PROVE  /\ f \in FlightSet /\ f.seq = sequence /\ f.price = live
             /\ f.left = {} /\ f.older = FALSE /\ f.stage = "set"
  <2>1. MaxSequence + rebuilds' \in Nat
    BY QuotesAssumption DEF IInv, TypeOK, Rebuild
  <2>2. f = Flight(MaxSequence + rebuilds', "rebuild", live)  BY <1>1 DEF Rebuild
  <2>3. live \in Prices /\ sequence' \in Nat  BY <1>0 DEF IInv, TypeOK
  <2> QED  BY ZenonT(30), <1>0, <2>1, <2>2, <2>3, FlightFacts
<1>2. TypeOK'
  <2>1. flights' \subseteq FlightSet
    BY <1>1 DEF IInv, TypeOK, FlightSet
  <2>2. /\ rebuilds' \in Nat /\ newest' = newest /\ cache' = cache
        /\ members' = members /\ channel' = channel /\ closed' = closed
    BY DEF IInv, TypeOK, Rebuild, hub
  <2> QED  BY <1>0, <2>1, <2>2 DEF IInv, TypeOK, FlightSet
<1>3. LiveInv'
  BY <1>0 DEF LiveInv
<1>4. QuotesCoherent'
  <2>1. ASSUME NEW f \in flights' PROVE Versioned(f)'
    <3>1. CASE f \in flights  BY <1>0, <3>1 DEF IInv, QuotesCoherent, Versioned
    <3>2. CASE f \notin flights
      <4>1. f.seq = sequence /\ f.price = book[sequence]  BY <3>2, <1>0, <1>1
      <4>2. sequence \in 1..sequence  BY <1>0
      <4> QED  BY <1>0, <4>1, <4>2 DEF Versioned
    <3> QED  BY <3>1, <3>2
  <2> QED  BY <1>0, <2>1 DEF IInv, QuotesCoherent, Versioned, Rebuild, hub
<1>5. VersionInv'
  <2>1. newest' = newest /\ cache' = cache /\ newest \in Nat /\ newest <= sequence
    BY DEF IInv, VersionInv, TypeOK, Rebuild
  <2>2. ASSUME NEW f \in flights' PROVE f.stage = "set" /\ ~f.older => newest' <= f.seq
    BY <1>1, <2>1 DEF IInv, VersionInv
  <2>3. ASSUME NEW f \in flights', cache' = NoQuote PROVE f.stage = "set" => ~f.older
    BY <1>1, <2>1, <2>3 DEF IInv, VersionInv
  <2> QED  BY <1>0, <2>1, <2>2, <2>3 DEF VersionInv
<1>6. NewestWins' /\ HubInv'
  BY <1>1 DEF IInv, NewestWins, HubInv, Rebuild, hub
<1> QED  BY <1>2, <1>3, <1>4, <1>5, <1>6 DEF IInv

(* A version that the script accepts is the newest ever stored. *)
LEMMA AcceptedIsNewest ==
  ASSUME IInv, NEW f \in flights, f.stage = "set", Accepts(f), Stored(f)
  PROVE  /\ newest' = f.seq /\ newest' \in Nat /\ newest' <= sequence
         /\ cache' = [seq |-> f.seq, price |-> f.price]
         /\ cache' \in QuoteSet /\ cache' # NoQuote
         /\ cache'.seq = f.seq /\ cache'.price = f.price
<1>1. f \in FlightSet
  BY DEF IInv, TypeOK, FlightSet
<1>2. f.seq \in Nat /\ f.price \in Prices /\ newest \in Nat /\ sequence \in Nat
  BY <1>1, LenProperties DEF IInv, TypeOK, FlightSet, sequence
<1>3. newest <= f.seq
  <2>1. CASE cache = NoQuote
    BY <2>1 DEF IInv, VersionInv
  <2>2. CASE cache # NoQuote
    BY <1>2, <2>2 DEF IInv, NewestWins, Accepts
  <2> QED  BY <2>1, <2>2
<1>4. f.seq <= sequence
  BY <1>2 DEF IInv, QuotesCoherent, Versioned
<1>5. newest' = f.seq
  BY <1>2, <1>3 DEF Stored
<1>6. cache' = [seq |-> f.seq, price |-> f.price] /\ cache' \in QuoteSet
  BY <1>2 DEF Stored, Quoted, QuoteSet
<1>7. cache' # NoQuote
  BY <1>6, QuotesAssumption DEF QuoteSet
<1> QED  BY <1>2, <1>4, <1>5, <1>6, <1>7

(* The script stores a version: every other publication is overtaken. *)
LEMMA StoreStep ==
  ASSUME IInv, NEW f \in flights, f.stage = "set", Accepts(f), Stored(f),
         NEW G \in SUBSET {[f EXCEPT !.stage = "accepted"]},
         flights' = Overtaken(flights \ {f}) \cup G,
         UNCHANGED <<ledger, rebuilds, hub>>
  PROVE  IInv'
<1>0. /\ book' = book /\ live' = live /\ failed' = failed /\ sequence' = sequence
      /\ sequence \in Nat /\ members' = members /\ channel' = channel /\ closed' = closed
      /\ rebuilds' = rebuilds
  BY LenProperties DEF IInv, TypeOK, ledger, hub, sequence
<1>1. flights \subseteq FlightSet
  BY DEF IInv, TypeOK, FlightSet
<1>2. ASSUME NEW h \in flights'
      PROVE  /\ h \in FlightSet
             /\ h.stage = "set" => h.older = TRUE
             /\ \E g \in flights : /\ h.seq = g.seq /\ h.price = g.price /\ h.left = g.left
                                   /\ (h.stage = "sending" <=> g.stage = "sending")
  <2>1. CASE h \in Overtaken(flights \ {f})
    <3>1. flights \ {f} \in SUBSET FlightSet  BY <1>1
    <3>2. h \in FlightSet /\ h.older = TRUE
      BY <2>1, <3>1, OvertakenFacts
    <3>3. PICK g \in flights \ {f} : /\ h.seq = g.seq /\ h.price = g.price
                                     /\ h.stage = g.stage /\ h.left = g.left
      BY <2>1, <3>1, OvertakenFacts
    <3> QED  BY <3>2, <3>3
  <2>2. CASE h = [f EXCEPT !.stage = "accepted"]
    BY <1>1, <2>2 DEF FlightSet
  <2> QED  BY <2>1, <2>2
<1>3. /\ newest' = f.seq /\ newest' \in Nat /\ newest' <= sequence
      /\ cache' \in QuoteSet /\ cache' # NoQuote
      /\ cache'.seq = f.seq /\ cache'.price = f.price
  BY AcceptedIsNewest
<1>4. TypeOK'
  BY <1>0, <1>2, <1>3 DEF IInv, TypeOK, FlightSet, QuoteSet
<1>5. LiveInv'
  BY <1>0 DEF IInv, LiveInv
<1>6. QuotesCoherent'
  <2>1. ASSUME NEW h \in flights' PROVE Versioned(h)'
    <3>1. PICK g \in flights : /\ h.seq = g.seq /\ h.price = g.price /\ h.left = g.left
                               /\ (h.stage = "sending" <=> g.stage = "sending")
      BY <1>2, Zenon
    <3>2. Versioned(g)  BY DEF IInv, QuotesCoherent
    <3> QED  BY <1>0, <3>1, <3>2 DEF Versioned
  <2>2. Versioned(cache)'
    BY <1>0, <1>3 DEF IInv, QuotesCoherent, Versioned
  <2> QED  BY <1>0, <2>1, <2>2 DEF IInv, QuotesCoherent, Versioned
<1>7. VersionInv'
  BY <1>0, <1>2, <1>3 DEF VersionInv
<1>8. NewestWins'
  BY <1>3 DEF NewestWins
<1>9. HubInv'
  <2>1. ASSUME NEW h \in flights'
        PROVE  h.left \subseteq members /\ (h.stage # "sending" => h.left = {})
    <3>1. PICK g \in flights : h.left = g.left /\ (h.stage = "sending" <=> g.stage = "sending")
      BY <1>2
    <3> QED  BY <3>1 DEF IInv, HubInv
  <2> QED  BY <1>0, <2>1 DEF IInv, HubInv
<1> QED  BY <1>4, <1>5, <1>6, <1>7, <1>8, <1>9 DEF IInv

(* A publication ends, and nothing else happens. *)
LEMMA DropStep ==
  ASSUME IInv, NEW f \in flights, flights' = flights \ {f},
         UNCHANGED <<ledger, rebuilds, cache, newest, hub>>
  PROVE  IInv'
<1>1. TypeOK' /\ LiveInv'
  BY DEF IInv, TypeOK, LiveInv, ledger, hub, sequence
<1>2. QuotesCoherent'
  BY DEF IInv, QuotesCoherent, Versioned, ledger, hub, sequence
<1>3. VersionInv' /\ NewestWins' /\ HubInv'
  BY DEF IInv, VersionInv, NewestWins, HubInv, ledger, hub, sequence
<1> QED  BY <1>1, <1>2, <1>3 DEF IInv

(* publishQuotes and the quote handler at the script. *)
LEMMA SetVersionedStep ==
  ASSUME IInv, NEW f \in flights, SetVersioned(f)
  PROVE  IInv'
<1>1. CASE Accepts(f)
  BY <1>1, StoreStep DEF SetVersioned
<1>2. CASE ~Accepts(f)
  BY <1>2, DropStep DEF SetVersioned
<1> QED  BY <1>1, <1>2

(* A script whose result is lost has run or has not. *)
LEMMA SetErrorStep ==
  ASSUME IInv, NEW f \in flights, SetError(f)
  PROVE  IInv'
<1>1. CASE Accepts(f) /\ Stored(f) /\ flights' = Overtaken(flights \ {f})
  <2>1. flights' = Overtaken(flights \ {f}) \cup {}  BY <1>1
  <2> QED  BY <1>1, <2>1, StoreStep DEF SetError
<1>2. CASE flights' = flights \ {f} /\ UNCHANGED <<cache, newest>>
  BY <1>2, DropStep DEF SetError
<1> QED  BY <1>1, <1>2 DEF SetError

(* The key expires once no publication older than its SET is under way. *)
LEMMA ExpireStep ==
  ASSUME IInv, Expire
  PROVE  IInv'
<1>1. TypeOK' /\ LiveInv'
  BY DEF IInv, TypeOK, LiveInv, Expire, ledger, hub, sequence
<1>2. QuotesCoherent' /\ VersionInv' /\ NewestWins' /\ HubInv'
  BY DEF IInv, QuotesCoherent, Versioned, VersionInv, NewestWins, HubInv, Expire, Expirable,
         ledger, hub, sequence
<1> QED  BY <1>1, <1>2 DEF IInv

(* The walk over the subscribers begins, or takes one step. *)
LEMMA WalkStep ==
  ASSUME IInv, NEW f \in flights, NEW L \in SUBSET members,
         flights' = (flights \ {f}) \cup Done(f, L),
         channel' \in [Subscribers -> Seq(QuoteSet)],
         \A s \in Subscribers : \A k \in DOMAIN channel'[s] : Versioned(channel'[s][k]),
         UNCHANGED <<ledger, rebuilds, cache, newest, members, closed>>
  PROVE  IInv'
<1>0. /\ book' = book /\ live' = live /\ failed' = failed /\ sequence' = sequence
  BY DEF ledger, sequence
<1>1. ASSUME NEW h \in flights', h \notin flights
      PROVE  /\ h \in FlightSet /\ h.seq = f.seq /\ h.price = f.price
             /\ h.stage = "sending" /\ h.left = L
  <2>1. f \in FlightSet /\ L \in SUBSET Subscribers
    BY DEF IInv, TypeOK, FlightSet
  <2> QED  BY <1>1, <2>1, DoneFacts
<1>2. TypeOK'
  BY <1>0, <1>1 DEF IInv, TypeOK, FlightSet, QuoteSet
<1>3. LiveInv'
  BY <1>0 DEF IInv, LiveInv
<1>4. QuotesCoherent'
  <2>1. ASSUME NEW h \in flights' PROVE Versioned(h)'
    BY <1>0, <1>1 DEF IInv, QuotesCoherent, Versioned
  <2> QED  BY <1>0, <2>1 DEF IInv, QuotesCoherent, Versioned
<1>5. VersionInv'
  BY <1>0, <1>1 DEF IInv, VersionInv
<1>6. NewestWins'
  BY DEF IInv, NewestWins
<1>7. HubInv'
  BY <1>1 DEF IInv, HubInv
<1> QED  BY <1>2, <1>3, <1>4, <1>5, <1>6, <1>7 DEF IInv

(* Hub.Publish takes the read lock and the subscribers of that moment. *)
LEMMA PublishStep ==
  ASSUME IInv, NEW f \in flights, Publish(f)
  PROVE  IInv'
<1>1. channel' \in [Subscribers -> Seq(QuoteSet)]
  BY DEF IInv, TypeOK, Publish, hub, QuoteSet
<1>2. \A s \in Subscribers : \A k \in DOMAIN channel'[s] : Versioned(channel'[s][k])
  BY DEF IInv, QuotesCoherent, Publish, hub
<1> QED  BY <1>1, <1>2, WalkStep DEF Publish, hub

(* One subscriber is sent the message, or misses it. *)
LEMMA SendStep ==
  ASSUME IInv, NEW f \in flights, NEW s \in Subscribers, Send(f, s)
  PROVE  IInv'
<1>0. f \in FlightSet /\ channel \in [Subscribers -> Seq(QuoteSet)] /\ Versioned(f)
  BY DEF IInv, TypeOK, FlightSet, QuoteSet, QuotesCoherent
<1>1. /\ Quoted(f) \in QuoteSet
      /\ Quoted(f).seq = f.seq /\ Quoted(f).price = f.price
  BY <1>0 DEF Quoted, QuoteSet, FlightSet
<1>2. /\ Append(channel[s], Quoted(f)) \in Seq(QuoteSet)
      /\ DOMAIN Append(channel[s], Quoted(f)) = 1..(Len(channel[s]) + 1)
      /\ \A k \in 1..Len(channel[s]) : Append(channel[s], Quoted(f))[k] = channel[s][k]
      /\ Append(channel[s], Quoted(f))[Len(channel[s]) + 1] = Quoted(f)
      /\ Len(channel[s]) \in Nat /\ DOMAIN channel[s] = 1..Len(channel[s])
  BY <1>0, <1>1, AppendProperties, LenProperties
<1>3. channel' \in [Subscribers -> Seq(QuoteSet)]
  BY <1>0, <1>2 DEF Send
<1>4. \A t \in Subscribers : channel'[t] = channel[t] \/ (t = s /\ channel'[t] = Append(channel[s], Quoted(f)))
  BY <1>0 DEF Send
<1>5. ASSUME NEW t \in Subscribers, NEW k \in DOMAIN channel'[t] PROVE Versioned(channel'[t][k])
  <2>1. CASE channel'[t] = channel[t]
    BY <2>1 DEF IInv, QuotesCoherent
  <2>2. CASE t = s /\ channel'[t] = Append(channel[s], Quoted(f))
    <3>1. CASE k \in 1..Len(channel[s])
      BY <1>2, <2>2, <3>1 DEF IInv, QuotesCoherent
    <3>2. CASE k = Len(channel[s]) + 1
      BY <1>0, <1>1, <1>2, <2>2, <3>2 DEF Versioned
    <3> QED  BY <1>2, <2>2, <3>1, <3>2
  <2> QED  BY <1>4, <2>1, <2>2
<1>6. f.left \ {s} \in SUBSET members
  BY DEF IInv, HubInv
<1> QED  BY <1>3, <1>5, <1>6, WalkStep DEF Send

(* A subscriber joins, leaves or closes its channel; the hub's lock is not
   held by a walk when the members change. *)
LEMMA MembersStep ==
  ASSUME IInv, NEW s \in Subscribers, Subscribe(s) \/ Unsubscribe(s) \/ Close(s)
  PROVE  IInv'
<1>1. TypeOK' /\ LiveInv'
  BY DEF IInv, TypeOK, LiveInv, Subscribe, Unsubscribe, Close, ledger, sequence
<1>2. QuotesCoherent'
  BY DEF IInv, QuotesCoherent, Versioned, Subscribe, Unsubscribe, Close, ledger, sequence
<1>3. VersionInv' /\ NewestWins'
  BY DEF IInv, VersionInv, NewestWins, Subscribe, Unsubscribe, Close, ledger, sequence
<1>4. HubInv'
  BY DEF IInv, HubInv, HubUnlocked, Subscribe, Unsubscribe, Close
<1> QED  BY <1>1, <1>2, <1>3, <1>4 DEF IInv

(* A subscriber reads its channel. *)
LEMMA ReceiveStep ==
  ASSUME IInv, NEW s \in Subscribers, Receive(s)
  PROVE  IInv'
<1>0. channel \in [Subscribers -> Seq(QuoteSet)] /\ channel[s] # <<>>
  BY DEF IInv, TypeOK, QuoteSet, Receive
<1>1. /\ Tail(channel[s]) \in Seq(QuoteSet)
      /\ Len(channel[s]) \in Nat /\ DOMAIN channel[s] = 1..Len(channel[s])
      /\ DOMAIN Tail(channel[s]) = 1..(Len(channel[s]) - 1)
      /\ \A k \in 1..(Len(channel[s]) - 1) : Tail(channel[s])[k] = channel[s][k + 1]
  <2>1. channel[s] \in Seq(QuoteSet)  BY <1>0
  <2> QED  BY <1>0, <2>1, HeadTailProperties, LenProperties
<1>2. channel' \in [Subscribers -> Seq(QuoteSet)] /\ channel' = [channel EXCEPT ![s] = Tail(channel[s])]
  BY <1>0, <1>1 DEF Receive
<1>3. TypeOK' /\ LiveInv'
  BY <1>2 DEF IInv, TypeOK, LiveInv, Receive, ledger, sequence, QuoteSet
<1>4. QuotesCoherent'
  <2>1. ASSUME NEW t \in Subscribers, NEW k \in DOMAIN channel'[t] PROVE Versioned(channel'[t][k])
    <3>1. CASE t # s
      BY <1>0, <1>2, <3>1 DEF IInv, QuotesCoherent
    <3>2. CASE t = s
      <4>1. k + 1 \in DOMAIN channel[s] /\ channel'[s][k] = channel[s][k + 1]
        BY <1>0, <1>1, <1>2, <3>2
      <4> QED  BY <3>2, <4>1 DEF IInv, QuotesCoherent
    <3> QED  BY <3>1, <3>2
  <2> QED  BY <2>1 DEF IInv, QuotesCoherent, Versioned, Receive, ledger, sequence
<1>5. VersionInv' /\ NewestWins' /\ HubInv'
  BY DEF IInv, VersionInv, NewestWins, HubInv, Receive, ledger, sequence
<1> QED  BY <1>3, <1>4, <1>5 DEF IInv

(* Every step keeps the invariant. *)
LEMMA NextInv ==
  ASSUME IInv, [Next]_vars
  PROVE  IInv'
<1>1. CASE UNCHANGED vars
  <2>1. TypeOK' /\ LiveInv' /\ HubInv'
    BY <1>1 DEF IInv, TypeOK, LiveInv, HubInv, vars, ledger, hub, sequence
  <2>2. QuotesCoherent' /\ VersionInv' /\ NewestWins'
    BY <1>1 DEF IInv, QuotesCoherent, Versioned, VersionInv, NewestWins, vars, ledger, hub, sequence
  <2> QED  BY <2>1, <2>2 DEF IInv
<1>2. CASE Next
  <2>1. CASE \E price \in Prices : Commit(price) \/ CommitFails(price)
    BY <2>1, CommitStep, CommitFailsStep
  <2>2. CASE Rebuild \/ Expire
    BY <2>2, RebuildStep, ExpireStep
  <2>3. CASE Publishing
    BY <2>3, SetVersionedStep, SetErrorStep, PublishStep, SendStep DEF Publishing
  <2>4. CASE \E s \in Subscribers : Subscribe(s) \/ Receive(s) \/ Unsubscribe(s) \/ Close(s)
    BY <2>4, MembersStep, ReceiveStep
  <2> QED  BY <1>2, <2>1, <2>2, <2>3, <2>4 DEF Next
<1> QED  BY <1>1, <1>2

(* The invariant holds in every reachable state. *)
LEMMA Invariance == Spec => []IInv
  BY InitInv, NextInv, PTL DEF Spec

(* Service.Quote and readQuotes never show the engine ahead of the ledger:
   a quote under way, in Redis or in a channel is the ledger's book at the
   version it carries, however publishers overtake each other. *)
THEOREM QuotesAreTheLedgers == Spec => []QuotesCoherent
<1>1. IInv => QuotesCoherent
  BY DEF IInv
<1> QED  BY <1>1, Invariance, PTL

(* The setQuote script keeps the newest version ever stored, although the key
   expires, is rebuilt, and results of the script are lost. *)
THEOREM CacheNeverGoesBack == Spec => []NewestWins
<1>1. IInv => NewestWins
  BY DEF IInv
<1> QED  BY <1>1, Invariance, PTL

(* Hub.Publish never sends on a channel that the cancel function of
   Subscribe has closed. *)
THEOREM HubNeverPanics == Spec => []NoSendOnClosed
<1>1. IInv => NoSendOnClosed
  BY DEF IInv, HubInv, NoSendOnClosed
<1> QED  BY <1>1, Invariance, PTL
=============================================================================
