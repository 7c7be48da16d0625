-------------------------- MODULE ReviewModeProofs -------------------------
(***************************************************************************)
(* Proofs about ReviewMode, for every set of players, cards and ratings    *)
(* and every number of openings, clicks and events under way.              *)
(***************************************************************************)
EXTENDS ReviewMode, SequenceTheorems, TLAPS

-----------------------------------------------------------------------------
(* The inductive invariant.                                                *)

\* What is under way in the two directions.
ToClientEvents ==
  {OpenEvent(card) : card \in Cards} \cup {SideEvent(card, side) : card \in Cards, side \in Sides}
  \cup {ResultEvent(state) : state \in Settled \cup {"rejected"}}
ToServerEvents ==
  {PageRequest(card, side) : card \in Cards, side \in Sides}
  \cup {RateRequest(card, rating, answer) :
          card \in Cards, rating \in Ratings, answer \in Cards \cup {None}}
  \cup {ClosedEvent}
Channelled ==
  /\ toClient \in [Players -> Seq(ToClientEvents)]
  /\ toServer \in [Players -> Seq(ToServerEvents)]

\* Openings are numbered, and nobody rates in one that is not on screen.
Unrated(opening) == \A t \in DOMAIN txs : txs[t].opening # opening
Numbered ==
  /\ \A t \in DOMAIN txs : txs[t].opening <= openings
  /\ openReview # None => /\ openReview.opening = openings
                          /\ openReview.opened \/ Unrated(openings)

\* A render under way is for the open card, or for a player who has none.
Rendering == \A render \in session : OpenFor(render.player) => render.card = openReview.card

\* Anki applied a rating of that card.
Rated(card) == \E t \in DOMAIN txs : txs[t].card = card /\ txs[t].inAnki

\* An event that may reach a player who has this card on screen.
Fits(event, card) ==
  /\ event.kind # "open"
  /\ event.kind = "side" => event.card = card
  /\ event = ResultEvent("applied") => Rated(card)

\* What a client asks, it asks of the opening it shows; its close comes last.
Served(p) ==
  /\ toServer[p] # <<>> => OpenFor(p) /\ openReview.opened
  /\ client[p].active => Len(toServer[p]) <= MaxBacklog
  /\ \A i \in DOMAIN toServer[p] :
       /\ toServer[p][i].kind = "closed" => i = Len(toServer[p]) /\ ~client[p].active
       /\ toServer[p][i].kind = "rate" => toServer[p][i].answer = toServer[p][i].card

\* A client shows the card the server holds open for it and its own answer, and
\* what it has still to hear fits that card.
Shown(p) == client[p].active =>
  /\ OpenFor(p) /\ openReview.opened /\ openReview.card = client[p].card
  /\ \A i \in DOMAIN toClient[p] : Fits(toClient[p][i], client[p].card)
  /\ client[p].side = "answer" => client[p].answer = client[p].card
  /\ client[p].applied => Rated(client[p].card)

\* An opening a client has still to hear is the one the server holds, and what
\* comes after it fits its card: all that is stale comes before.
Coming(p) == \A i \in DOMAIN toClient[p] : toClient[p][i].kind = "open" =>
  /\ OpenFor(p) /\ openReview.opened /\ openReview.card = toClient[p][i].card
  /\ ~client[p].active /\ toServer[p] = <<>>
  /\ Unrated(openReview.opening)
  /\ \A j \in DOMAIN toClient[p] : j > i =>
       /\ Fits(toClient[p][j], openReview.card)
       /\ toClient[p][j] = ResultEvent("rejected") => openReview.opening \in misled

\* The ratings a player has asked for and been refused, and those of an opening
\* that are or may be applied.
Rates(p)      == {i \in DOMAIN toServer[p] : toServer[p][i].kind = "rate"}
Rejections(p) == {i \in DOMAIN toClient[p] : toClient[p][i] = ResultEvent("rejected")}
Given(opening) == \E t \in DOMAIN txs : txs[t].opening = opening /\ txs[t].outcome # "outcome_unknown"

\* A client that was not misled has one rating under way: a request, a refusal
\* it has still to hear, or a transaction, and waits for it.
Once(p) == OpenFor(p) /\ openReview.opening \notin misled =>
  /\ \A i, j \in Rates(p) : i = j
  /\ Rates(p) # {} => ~Given(openReview.opening)
Locked(p) == OpenFor(p) /\ openReview.opening \notin misled /\ client[p].active /\ ~client[p].submitted =>
  /\ Rates(p) # {} \/ Rejections(p) # {} \/ Given(openReview.opening) => client[p].awaitingResult
  /\ Rejections(p) # {} => Rates(p) = {} /\ ~Given(openReview.opening)
  /\ \A i, j \in Rejections(p) : i = j

\* OneAcceptedRating, of a rating that may still be applied as well.
Single ==
  \A t, u \in DOMAIN txs :
    t < u /\ txs[t].opening = txs[u].opening /\ txs[t].outcome # "outcome_unknown" =>
      txs[t].opening \in misled

Player(p) == Served(p) /\ Shown(p) /\ Coming(p) /\ Once(p) /\ Locked(p)
IInv == /\ TypeOK /\ Channelled /\ Numbered /\ Rendering /\ AnswerSeenFirst /\ Single
        /\ \A p \in Players : Player(p)

-----------------------------------------------------------------------------
(* Events and queues.                                                      *)

LEMMA ClientEvents ==
  /\ \A card \in Cards : OpenEvent(card) \in ToClientEvents
  /\ \A card \in Cards, side \in Sides : SideEvent(card, side) \in ToClientEvents
  /\ \A state \in Settled \cup {"rejected"} : ResultEvent(state) \in ToClientEvents
  /\ \A event \in ToClientEvents :
       /\ event.kind \in {"open", "side", "result"}
       /\ event.kind = "open" => event.card \in Cards
       /\ event.kind = "side" => event.card \in Cards /\ event.side \in Sides
       /\ event.kind = "result" => /\ event.state \in Settled \cup {"rejected"}
                                   /\ event = ResultEvent(event.state)
<1>1. /\ \A card \in Cards : OpenEvent(card) \in ToClientEvents
      /\ \A card \in Cards, side \in Sides : SideEvent(card, side) \in ToClientEvents
      /\ \A state \in Settled \cup {"rejected"} : ResultEvent(state) \in ToClientEvents
  BY DEF ToClientEvents
<1>2. ASSUME NEW event \in ToClientEvents
      PROVE  /\ event.kind \in {"open", "side", "result"}
             /\ event.kind = "open" => event.card \in Cards
             /\ event.kind = "side" => event.card \in Cards /\ event.side \in Sides
             /\ event.kind = "result" => /\ event.state \in Settled \cup {"rejected"}
                                         /\ event = ResultEvent(event.state)
  <2>1. CASE \E card \in Cards : event = OpenEvent(card)
    BY <2>1 DEF OpenEvent
  <2>2. CASE \E card \in Cards, side \in Sides : event = SideEvent(card, side)
    BY <2>2 DEF SideEvent
  <2>3. CASE \E state \in Settled \cup {"rejected"} : event = ResultEvent(state)
    BY <2>3 DEF ResultEvent
  <2> QED
    BY <2>1, <2>2, <2>3 DEF ToClientEvents
<1> QED
  BY <1>1, <1>2

LEMMA ServerEvents ==
  /\ \A card \in Cards, side \in Sides : PageRequest(card, side) \in ToServerEvents
  /\ \A card \in Cards, rating \in Ratings, answer \in Cards \cup {None} :
       RateRequest(card, rating, answer) \in ToServerEvents
  /\ ClosedEvent \in ToServerEvents
  /\ \A event \in ToServerEvents :
       /\ event.kind \in {"page", "rate", "closed"}
       /\ event.kind = "page" => event.card \in Cards /\ event.side \in Sides
       /\ event.kind = "rate" => event.card \in Cards /\ event.rating \in Ratings
                                 /\ event.answer \in Cards \cup {None}
<1>1. /\ \A card \in Cards, side \in Sides : PageRequest(card, side) \in ToServerEvents
      /\ \A card \in Cards, rating \in Ratings, answer \in Cards \cup {None} :
           RateRequest(card, rating, answer) \in ToServerEvents
      /\ ClosedEvent \in ToServerEvents
  BY DEF ToServerEvents
<1>2. ASSUME NEW event \in ToServerEvents
      PROVE  /\ event.kind \in {"page", "rate", "closed"}
             /\ event.kind = "page" => event.card \in Cards /\ event.side \in Sides
             /\ event.kind = "rate" => event.card \in Cards /\ event.rating \in Ratings
                                       /\ event.answer \in Cards \cup {None}
  <2>1. CASE \E card \in Cards, side \in Sides : event = PageRequest(card, side)
    BY <2>1 DEF PageRequest
  <2>2. CASE \E card \in Cards, rating \in Ratings, answer \in Cards \cup {None} :
               event = RateRequest(card, rating, answer)
    BY <2>2 DEF RateRequest
  <2>3. CASE event = ClosedEvent
    BY <2>3 DEF ClosedEvent
  <2> QED
    BY <2>1, <2>2, <2>3 DEF ToServerEvents
<1> QED
  BY <1>1, <1>2

LEMMA Kinds ==
  /\ \A card : OpenEvent(card).kind = "open" /\ OpenEvent(card).card = card
  /\ \A card, side : SideEvent(card, side).kind = "side" /\ SideEvent(card, side).card = card
  /\ \A state : ResultEvent(state).kind = "result" /\ ResultEvent(state).state = state
  /\ \A card, side : PageRequest(card, side).kind = "page"
  /\ \A card, rating, answer :
       LET request == RateRequest(card, rating, answer)
       IN request.kind = "rate" /\ request.card = card /\ request.answer = answer
  /\ ClosedEvent.kind = "closed"
BY DEF OpenEvent, SideEvent, ResultEvent, PageRequest, RateRequest, ClosedEvent

LEMMA Taken ==
  ASSUME NEW S, NEW q \in Seq(S), q # <<>>
  PROVE  /\ Head(q) \in S /\ Head(q) = q[1] /\ 1 \in DOMAIN q
         /\ Tail(q) \in Seq(S) /\ Len(Tail(q)) = Len(q) - 1 /\ Len(q) \in Nat
         /\ \A i \in DOMAIN Tail(q) : i + 1 \in DOMAIN q /\ Tail(q)[i] = q[i + 1]
         /\ Len(q) = 1 => Tail(q) = <<>>
<1>1. Len(q) \in Nat /\ Len(q) # 0 /\ DOMAIN q = 1 .. Len(q)
  BY LenProperties, EmptySeq
<1>2. Head(q) \in S /\ Tail(q) \in Seq(S) /\ Len(Tail(q)) = Len(q) - 1
      /\ \A i \in 1 .. Len(Tail(q)) : Tail(q)[i] = q[i + 1]
  BY HeadTailProperties
<1>3. DOMAIN Tail(q) = 1 .. Len(q) - 1
  BY <1>2, LenProperties
<1>4. Head(q) = q[1]
  OBVIOUS
<1>5. Len(q) = 1 => Tail(q) = <<>>
  <2> DEFINE r == Tail(q)
  <2>1. r \in Seq(S) /\ Len(r) = Len(q) - 1
    BY <1>2
  <2> HIDE DEF r
  <2>2. r # <<>> => Len(r) \in Nat \ {0}
    BY <2>1, EmptySeq
  <2>3. Len(q) = 1 => r = <<>>
    BY <1>1, <2>1, <2>2
  <2> QED
    BY <2>3 DEF r
<1> QED
  BY <1>1, <1>2, <1>3, <1>4, <1>5

LEMMA Added ==
  ASSUME NEW S, NEW q \in Seq(S), NEW e \in S
  PROVE  /\ Append(q, e) \in Seq(S) /\ Len(Append(q, e)) = Len(q) + 1 /\ Append(q, e) # <<>>
         /\ q \o <<e>> = Append(q, e) /\ Len(q) \in Nat
         /\ \A i \in DOMAIN Append(q, e) :
              \/ i \in DOMAIN q /\ Append(q, e)[i] = q[i]
              \/ i = Len(q) + 1 /\ i \notin DOMAIN q /\ Append(q, e)[i] = e
         /\ \A i \in DOMAIN q : i \in 1 .. Len(q)
<1>1. Len(q) \in Nat /\ DOMAIN q = 1 .. Len(q)
  BY LenProperties
<1>2. /\ Append(q, e) \in Seq(S) /\ Append(q, e) # <<>> /\ Len(Append(q, e)) = Len(q) + 1
      /\ \A i \in 1 .. Len(q) : Append(q, e)[i] = q[i]
      /\ Append(q, e)[Len(q) + 1] = e
  BY AppendProperties
<1>3. DOMAIN Append(q, e) = 1 .. Len(q) + 1
  BY <1>2, LenProperties
<1> QED
  BY <1>1, <1>2, <1>3, AppendIsConcat
\* Every step that takes the first event a client or the server has to hear.
LEMMA HeardOne ==
  ASSUME Channelled, NEW p \in Players, toClient[p] # <<>>, toClient' = Took(toClient, p)
  PROVE  /\ toClient' \in [Players -> Seq(ToClientEvents)]
         /\ \A q \in Players \ {p} : toClient'[q] = toClient[q]
         /\ \A i \in DOMAIN toClient'[p] :
              /\ i + 1 \in DOMAIN toClient[p] /\ i \in Nat /\ i + 1 # 1 /\ i + 1 > 1
              /\ toClient'[p][i] = toClient[p][i + 1]
         /\ Head(toClient[p]) \in ToClientEvents /\ Head(toClient[p]) = toClient[p][1]
         /\ 1 \in DOMAIN toClient[p]
<1>1. toClient[p] \in Seq(ToClientEvents)
  BY DEF Channelled
<1>2. toClient'[p] = Tail(toClient[p]) /\ \A q \in Players \ {p} : toClient'[q] = toClient[q]
  BY DEF Took, Channelled
<1>3. Tail(toClient[p]) \in Seq(ToClientEvents)
  BY <1>1, Taken
<1>4. DOMAIN Tail(toClient[p]) = 1 .. Len(Tail(toClient[p])) /\ Len(Tail(toClient[p])) \in Nat
  BY <1>3, LenProperties
<1>5. toClient' \in [Players -> Seq(ToClientEvents)]
  BY <1>3 DEF Took, Channelled
<1> QED
  BY <1>1, <1>2, <1>4, <1>5, Taken

LEMMA ServedOne ==
  ASSUME Channelled, NEW p \in Players, toServer[p] # <<>>, toServer' = Took(toServer, p)
  PROVE  /\ toServer' \in [Players -> Seq(ToServerEvents)]
         /\ \A q \in Players \ {p} : toServer'[q] = toServer[q]
         /\ \A i \in DOMAIN toServer'[p] :
              /\ i + 1 \in DOMAIN toServer[p] /\ i \in Nat /\ i + 1 # 1
              /\ toServer'[p][i] = toServer[p][i + 1]
         /\ Head(toServer[p]) \in ToServerEvents /\ Head(toServer[p]) = toServer[p][1]
         /\ 1 \in DOMAIN toServer[p]
         /\ Len(toServer'[p]) = Len(toServer[p]) - 1 /\ Len(toServer[p]) \in Nat
         /\ Len(toServer[p]) = 1 => toServer'[p] = <<>>
<1>1. toServer[p] \in Seq(ToServerEvents)
  BY DEF Channelled
<1>2. toServer'[p] = Tail(toServer[p]) /\ \A q \in Players \ {p} : toServer'[q] = toServer[q]
  BY DEF Took, Channelled
<1>3. Tail(toServer[p]) \in Seq(ToServerEvents)
  BY <1>1, Taken
<1>4. DOMAIN Tail(toServer[p]) = 1 .. Len(Tail(toServer[p])) /\ Len(Tail(toServer[p])) \in Nat
  BY <1>3, LenProperties
<1>5. toServer' \in [Players -> Seq(ToServerEvents)]
  BY <1>3 DEF Took, Channelled
<1> QED
  BY <1>1, <1>2, <1>4, <1>5, Taken

LEMMA Asked ==
  ASSUME Channelled, NEW p \in Players, NEW e \in ToServerEvents, Ask(p, e)
  PROVE  /\ toServer' \in [Players -> Seq(ToServerEvents)]
         /\ \A q \in Players \ {p} : toServer'[q] = toServer[q]
         /\ \A i \in DOMAIN toServer'[p] :
              \/ i \in DOMAIN toServer[p] /\ toServer'[p][i] = toServer[p][i]
              \/ i = Len(toServer[p]) + 1 /\ toServer'[p][i] = e
         /\ \A i \in DOMAIN toServer[p] : i \in 1 .. Len(toServer[p])
         /\ Len(toServer'[p]) = Len(toServer[p]) + 1 /\ Len(toServer[p]) \in Nat
<1>1. toServer[p] \in Seq(ToServerEvents)
  BY DEF Channelled
<1>2. toServer'[p] = Append(toServer[p], e) /\ \A q \in Players \ {p} : toServer'[q] = toServer[q]
  BY DEF Ask, Channelled
<1>3. toServer' \in [Players -> Seq(ToServerEvents)]
  BY <1>1, Added DEF Ask, Channelled
<1> QED
  BY <1>1, <1>2, <1>3, Added

LEMMA ToldOne ==
  ASSUME Channelled, NEW p \in Players, NEW e \in ToClientEvents, Tell(p, <<e>>)
  PROVE  /\ toClient' \in [Players -> Seq(ToClientEvents)]
         /\ \A q \in Players \ {p} : toClient'[q] = toClient[q]
         /\ \A i \in DOMAIN toClient'[p] :
              \/ i \in DOMAIN toClient[p] /\ toClient'[p][i] = toClient[p][i]
              \/ i = Len(toClient[p]) + 1 /\ toClient'[p][i] = e
         /\ \A i \in DOMAIN toClient[p] : i \in 1 .. Len(toClient[p])
         /\ Len(toClient[p]) \in Nat
<1>1. toClient[p] \in Seq(ToClientEvents)
  BY DEF Channelled
<1>2. /\ toClient'[p] = Append(toClient[p], e)
      /\ \A q \in Players \ {p} : toClient'[q] = toClient[q]
  BY <1>1, Added DEF Tell, Channelled
<1>3. toClient' \in [Players -> Seq(ToClientEvents)]
  BY <1>1, Added DEF Tell, Channelled
<1> QED
  BY <1>1, <1>2, <1>3, Added

-----------------------------------------------------------------------------
(* Players a step is not about.                                            *)

LEMMA Bystander ==
  ASSUME IInv, NEW q \in Players, ~OpenFor(q),
         client'[q] = client[q], toClient'[q] = toClient[q], toServer'[q] = toServer[q]
  PROVE  Player(q)'
<1>1. Player(q)
  BY DEF IInv
<1>2. toServer[q] = <<>> /\ ~client[q].active
  BY <1>1 DEF Player, Served, Shown
<1>3. \A i \in DOMAIN toClient[q] : toClient[q][i].kind # "open"
  BY <1>1 DEF Player, Coming
<1>4. Rates(q)' = {}
  BY <1>2 DEF Rates
<1> QED
  BY <1>2, <1>3, <1>4 DEF Player, Served, Shown, Coming, Once, Locked

LEMMA SameOpening ==
  ASSUME IInv, NEW q \in Players, openReview' = openReview, misled \subseteq misled',
         client'[q] = client[q], toClient'[q] = toClient[q], toServer'[q] = toServer[q],
         \A card : Rated(card) => Rated(card)',
         \A o : (Given(o)' => Given(o)) /\ (Unrated(o) => Unrated(o)')
  PROVE  Player(q)'
<1>1. Player(q)
  BY DEF IInv
<1>2. OpenFor(q)' <=> OpenFor(q)
  BY DEF OpenFor
<1>3. Served(q)'
  BY <1>1, <1>2 DEF Player, Served
<1>4. Shown(q)'
  BY <1>1, <1>2 DEF Player, Shown, Fits, Rated
<1>5. Coming(q)'
  BY <1>1, <1>2 DEF Player, Coming, Fits, Rated, Unrated
<1>6. Once(q)'
  BY <1>1, <1>2 DEF Player, Once, Rates, Given
<1>7. Locked(q)'
  BY <1>1, <1>2 DEF Player, Locked, Rates, Rejections, Given
<1> QED
  BY <1>3, <1>4, <1>5, <1>6, <1>7 DEF Player

\* A step of one client.
LEMMA ClientStep ==
  ASSUME IInv, NEW p \in Players, UNCHANGED <<openReview, openings, misled, session, txs>>,
         NEW review \in Reviews, client' = [client EXCEPT ![p] = review], Channelled',
         \A q \in Players \ {p} : toClient'[q] = toClient[q] /\ toServer'[q] = toServer[q],
         Len(toServer'[p]) <= MaxBacklog + 1, Player(p)'
  PROVE  IInv'
<1> USE DEF IInv
<1>1. client' \in [Players -> Reviews] /\ \A q \in Players \ {p} : client'[q] = client[q]
  BY DEF TypeOK
<1>2. TypeOK'
  BY <1>1 DEF TypeOK
<1>3. Numbered' /\ AnswerSeenFirst' /\ Single'
  BY DEF Numbered, Unrated, AnswerSeenFirst, Single
<1>4. Rendering'
  BY DEF Rendering, OpenFor
<1>5. ASSUME NEW q \in Players \ {p} PROVE Player(q)'
  BY <1>1, SameOpening DEF Rated, Given, Unrated
<1> QED
  BY <1>2, <1>3, <1>4, <1>5
-----------------------------------------------------------------------------
(* The client.                                                             *)

LEMMA ReviewTypes ==
  /\ Closed \in Reviews /\ ~Closed.active
  /\ \A card \in Cards :
       /\ Opened(card) \in Reviews /\ Opened(card).active /\ Opened(card).card = card
       /\ Opened(card).side # "answer" /\ ~Opened(card).applied
BY DEF Closed, Opened, Reviews, Sides

LEMMA HearOpenInv ==
  ASSUME IInv, NEW p \in Players, HearOpen(p)
  PROVE  IInv'
<1> USE DEF IInv
<1>1. /\ toClient[p] # <<>> /\ Head(toClient[p]).kind = "open" /\ toClient' = Took(toClient, p)
      /\ UNCHANGED <<openReview, openings, misled, session, txs>>
  BY DEF HearOpen, Arrives
<1>2. /\ toClient' \in [Players -> Seq(ToClientEvents)]
      /\ \A q \in Players \ {p} : toClient'[q] = toClient[q]
      /\ \A i \in DOMAIN toClient'[p] :
           i + 1 \in DOMAIN toClient[p] /\ i + 1 > 1 /\ toClient'[p][i] = toClient[p][i + 1]
      /\ toClient[p][1] \in ToClientEvents /\ Head(toClient[p]) = toClient[p][1]
      /\ 1 \in DOMAIN toClient[p]
  BY <1>1, HeardOne
<1> DEFINE card == toClient[p][1].card
<1>3. /\ OpenFor(p) /\ openReview.opened /\ openReview.card = card
      /\ ~client[p].active /\ toServer[p] = <<>> /\ Unrated(openReview.opening)
      /\ \A j \in DOMAIN toClient[p] : j > 1 =>
           /\ Fits(toClient[p][j], openReview.card)
           /\ toClient[p][j] = ResultEvent("rejected") => openReview.opening \in misled
  BY <1>1, <1>2 DEF Player, Coming
<1>4. card \in Cards
  BY <1>1, <1>2, ClientEvents
<1>5. /\ \A i \in DOMAIN toClient'[p] :
           /\ Fits(toClient'[p][i], openReview.card) /\ toClient'[p][i].kind # "open"
           /\ toClient'[p][i] = ResultEvent("rejected") => openReview.opening \in misled
  BY <1>2, <1>3 DEF Fits
<1>6. Len(toServer[p]) = 0 /\ Rates(p) = {} /\ (OpenFor(p))'
  BY <1>1, <1>3 DEF Rates, OpenFor
<1>7. CASE Become(p, Opened(card)) /\ UNCHANGED toServer
  <2>1. client' = [client EXCEPT ![p] = Opened(card)] /\ Opened(card) \in Reviews
    BY <1>4, <1>7, ReviewTypes DEF Become
  <2>2. client'[p] = Opened(card)
    BY <2>1 DEF TypeOK
  <2>3. /\ client'[p].active /\ client'[p].card = card /\ client'[p].side # "answer"
        /\ ~client'[p].applied
    BY <1>4, <2>2, ReviewTypes
  <2>4. Served(p)'
    BY <1>3, <1>6, <1>7, BoundAssumption DEF Served
  <2>5. Shown(p)'
    BY <1>1, <1>3, <1>5, <1>6, <2>3 DEF Shown, Fits, Rated
  <2>6. Coming(p)'
    BY <1>5 DEF Coming
  <2>7. Once(p)'
    BY <1>6, <1>7 DEF Once, Rates
  <2>8. Locked(p)'
    <3>1. (OpenFor(p) /\ openReview.opening \notin misled)' => Rejections(p)' = {}
      BY <1>1, <1>5 DEF Rejections, OpenFor
    <3>2. ~Given(openReview.opening)'
      BY <1>1, <1>3 DEF Given, Unrated
    <3> QED
      BY <1>6, <1>7, <3>1, <3>2 DEF Locked, Rates
  <2>9. Player(p)' /\ Channelled'
    BY <1>2, <1>7, <2>4, <2>5, <2>6, <2>7, <2>8 DEF Player, Channelled
  <2>10. /\ \A q \in Players \ {p} : toClient'[q] = toClient[q] /\ toServer'[q] = toServer[q]
         /\ Len(toServer'[p]) <= MaxBacklog + 1
    BY <1>2, <1>6, <1>7, BoundAssumption
  <2> QED
    BY <1>1, <2>1, <2>9, <2>10, ClientStep
<1>8. CASE Ask(p, ClosedEvent) /\ UNCHANGED client
  <2>1. /\ toServer' \in [Players -> Seq(ToServerEvents)]
        /\ \A q \in Players \ {p} : toServer'[q] = toServer[q]
        /\ \A i \in DOMAIN toServer'[p] : i = Len(toServer'[p]) /\ toServer'[p][i] = ClosedEvent
        /\ Len(toServer'[p]) = 1
    <3>1. /\ toServer' \in [Players -> Seq(ToServerEvents)]
          /\ \A q \in Players \ {p} : toServer'[q] = toServer[q]
          /\ \A i \in DOMAIN toServer'[p] :
               \/ i \in DOMAIN toServer[p] /\ toServer'[p][i] = toServer[p][i]
               \/ i = Len(toServer[p]) + 1 /\ toServer'[p][i] = ClosedEvent
          /\ \A i \in DOMAIN toServer[p] : i \in 1 .. Len(toServer[p])
          /\ Len(toServer'[p]) = Len(toServer[p]) + 1
      BY <1>8, Asked, ServerEvents
    <3>2. \A i \in DOMAIN toServer[p] : FALSE
      BY <1>6, <3>1
    <3> QED
      BY <1>6, <3>1, <3>2
  <2>2. Served(p)'
    BY <1>1, <1>3, <1>6, <1>8, <2>1, Kinds DEF Served
  <2>3. Coming(p)'
    BY <1>5 DEF Coming
  <2>4. Rates(p)' = {}
    BY <2>1, Kinds DEF Rates
  <2>5. Player(p)'
    BY <1>3, <1>8, <2>2, <2>3, <2>4 DEF Player, Shown, Once, Locked
  <2>6. client[p] \in Reviews /\ client' = [client EXCEPT ![p] = client[p]]
    BY <1>8 DEF TypeOK
  <2>7. Channelled'
    BY <1>2, <2>1 DEF Channelled
  <2>8. /\ \A q \in Players \ {p} : toClient'[q] = toClient[q] /\ toServer'[q] = toServer[q]
        /\ Len(toServer'[p]) <= MaxBacklog + 1
    BY <1>2, <2>1, BoundAssumption
  <2> QED
    BY <1>1, <2>5, <2>6, <2>7, <2>8, ClientStep
<1> QED
  BY <1>2, <1>3, <1>7, <1>8 DEF HearOpen

\* A client that does not show a card, or hears what changes nothing about its
\* card, has one event less to hear.
LEMMA HeardRest ==
  ASSUME IInv, NEW p \in Players, toClient[p] # <<>>, toClient' = Took(toClient, p),
         UNCHANGED <<openReview, openings, misled, session, txs, toServer>>,
         NEW review \in Reviews, client' = [client EXCEPT ![p] = review],
         review.active = client[p].active,
         client[p].active =>
           /\ review.card = client[p].card
           /\ review.side = "answer" => review.answer = client[p].card
           /\ review.applied => Rated(client[p].card)
           /\ ~review.submitted => ~client[p].submitted
           /\ review.awaitingResult = client[p].awaitingResult
                \/ review.submitted \/ toClient[p][1] = ResultEvent("rejected")
  PROVE  IInv'
<1> USE DEF IInv
<1>1. /\ toClient' \in [Players -> Seq(ToClientEvents)]
      /\ \A q \in Players \ {p} : toClient'[q] = toClient[q]
      /\ \A i \in DOMAIN toClient'[p] :
           i + 1 \in DOMAIN toClient[p] /\ i \in Nat /\ i + 1 # 1 /\ toClient'[p][i] = toClient[p][i + 1]
      /\ 1 \in DOMAIN toClient[p]
  BY HeardOne
<1>2. client'[p] = review /\ Player(p) /\ (OpenFor(p)' <=> OpenFor(p))
  BY DEF TypeOK, OpenFor
<1>3. Served(p)'
  BY <1>2 DEF Player, Served
<1>4. Shown(p)'
  BY <1>1, <1>2 DEF Player, Shown, Fits, Rated
<1>5. Coming(p)'
  <2> SUFFICES ASSUME NEW i \in DOMAIN toClient'[p], toClient'[p][i].kind = "open"
               PROVE  /\ OpenFor(p)' /\ openReview'.opened /\ openReview'.card = toClient'[p][i].card
                      /\ ~client'[p].active /\ toServer'[p] = <<>>
                      /\ Unrated(openReview.opening)'
                      /\ \A j \in DOMAIN toClient'[p] : j > i =>
                           /\ Fits(toClient[p][j], openReview.card)'
                           /\ toClient'[p][j] = ResultEvent("rejected") => openReview'.opening \in misled'
    BY DEF Coming
  <2>1. i + 1 \in DOMAIN toClient[p] /\ toClient[p][i + 1].kind = "open"
    BY <1>1
  <2>2. /\ OpenFor(p) /\ openReview.opened /\ openReview.card = toClient[p][i + 1].card
        /\ ~client[p].active /\ toServer[p] = <<>> /\ Unrated(openReview.opening)
        /\ \A j \in DOMAIN toClient[p] : j > i + 1 =>
             /\ Fits(toClient[p][j], openReview.card)
             /\ toClient[p][j] = ResultEvent("rejected") => openReview.opening \in misled
    BY <1>2, <2>1 DEF Player, Coming
  <2>3. ASSUME NEW j \in DOMAIN toClient'[p], j > i
        PROVE  /\ Fits(toClient[p][j], openReview.card)'
               /\ toClient'[p][j] = ResultEvent("rejected") => openReview'.opening \in misled'
    <3>1. j + 1 \in DOMAIN toClient[p] /\ toClient'[p][j] = toClient[p][j + 1] /\ j + 1 > i + 1
      BY <1>1, <2>3
    <3>2. Fits(toClient[p][j + 1], openReview.card)
      BY <2>2, <3>1
    <3> QED
      BY <2>2, <3>1, <3>2 DEF Fits, Rated
  <2> QED
    BY <1>1, <1>2, <2>2, <2>3 DEF Unrated
<1>6. Once(p)'
  BY <1>2 DEF Player, Once, Rates, Given
<1>7. \A i \in Rejections(p)' : i + 1 \in Rejections(p) /\ i \in Nat /\ i + 1 # 1
  BY <1>1 DEF Rejections
<1>8. Locked(p)'
  <2> SUFFICES ASSUME OpenFor(p), openReview.opening \notin misled, review.active, ~review.submitted
               PROVE  /\ Rates(p)' # {} \/ Rejections(p)' # {} \/ Given(openReview.opening)' =>
                           review.awaitingResult
                      /\ Rejections(p)' # {} => Rates(p)' = {} /\ ~Given(openReview.opening)'
                      /\ \A i, j \in Rejections(p)' : i = j
    BY <1>2 DEF Locked
  <2>1. /\ Rates(p) # {} \/ Rejections(p) # {} \/ Given(openReview.opening) => client[p].awaitingResult
        /\ Rejections(p) # {} => Rates(p) = {} /\ ~Given(openReview.opening)
        /\ \A i, j \in Rejections(p) : i = j
    BY <1>2 DEF Player, Locked
  <2>2. Rates(p)' = Rates(p) /\ (Given(openReview.opening)' <=> Given(openReview.opening))
    BY DEF Rates, Given
  <2>3. CASE toClient[p][1] = ResultEvent("rejected")
    <3>1. 1 \in Rejections(p)
      BY <1>1, <2>3 DEF Rejections
    <3>2. Rejections(p)' = {}
      BY <1>1, <1>7, <2>1, <3>1
    <3> QED
      BY <2>1, <2>2, <3>1, <3>2
  <2>4. CASE toClient[p][1] # ResultEvent("rejected")
    <3>1. review.awaitingResult = client[p].awaitingResult
      BY <2>4
    <3>2. Rejections(p)' # {} => Rejections(p) # {}
      BY <1>7
    <3>3. \A i, j \in Rejections(p)' : i = j
      BY <1>7, <2>1
    <3> QED
      BY <2>1, <2>2, <3>1, <3>2, <3>3
  <2> QED
    BY <2>3, <2>4
<1>9. Player(p)' /\ Channelled'
  BY <1>1, <1>3, <1>4, <1>5, <1>6, <1>8 DEF Player, Channelled
<1>10. Len(toServer'[p]) <= MaxBacklog + 1
  BY DEF TypeOK
<1> QED
  BY <1>1, <1>9, <1>10, ClientStep

LEMMA HearSideInv ==
  ASSUME IInv, NEW p \in Players, HearSide(p)
  PROVE  IInv'
<1> USE DEF IInv
<1>1. /\ toClient[p] # <<>> /\ Head(toClient[p]).kind = "side" /\ toClient' = Took(toClient, p)
      /\ UNCHANGED <<openReview, openings, misled, session, txs, toServer>>
  BY DEF HearSide, Arrives
<1>2. /\ Head(toClient[p]) = toClient[p][1] /\ 1 \in DOMAIN toClient[p]
      /\ Head(toClient[p]).card \in Cards /\ Head(toClient[p]).side \in Sides
  BY <1>1, HeardOne, ClientEvents
<1>3. client[p] \in Reviews
  BY DEF TypeOK
<1>4. CASE client[p].active
  <2> DEFINE page == Head(toClient[p])
             review == [client[p] EXCEPT !.side = page.side,
                          !.answer = IF page.side = "answer" THEN page.card ELSE None]
  <2>1. page.card = client[p].card
    BY <1>1, <1>2, <1>4 DEF Player, Shown, Fits
  <2>2. /\ review \in Reviews /\ review.active = client[p].active /\ review.card = client[p].card
        /\ review.side = "answer" => review.answer = page.card
        /\ review.applied = client[p].applied /\ review.submitted = client[p].submitted
        /\ review.awaitingResult = client[p].awaitingResult
    BY <1>2, <1>3 DEF Reviews
  <2>3. client' = [client EXCEPT ![p] = review]
    BY <1>4 DEF HearSide, Become
  <2>4. review.applied => Rated(client[p].card)
    BY <1>4, <2>2 DEF Player, Shown
  <2> HIDE DEF review
  <2> QED
    BY <1>1, <2>1, <2>2, <2>3, <2>4, HeardRest
<1>5. CASE ~client[p].active
  <2>1. client' = [client EXCEPT ![p] = client[p]]
    BY <1>5 DEF HearSide, TypeOK
  <2> QED
    BY <1>1, <1>3, <1>5, <2>1, HeardRest
<1> QED
  BY <1>4, <1>5
\* closeReviewMode, whatever the client has still to hear.
LEMMA Closing ==
  ASSUME IInv, NEW p \in Players, client[p].active, Close(p),
         UNCHANGED <<openReview, openings, misled, session, txs>>,
         toClient' \in [Players -> Seq(ToClientEvents)],
         \A q \in Players \ {p} : toClient'[q] = toClient[q],
         \A i \in DOMAIN toClient'[p] : toClient'[p][i].kind # "open"
  PROVE  IInv'
<1> USE DEF IInv
<1>1. /\ toServer' \in [Players -> Seq(ToServerEvents)]
      /\ \A q \in Players \ {p} : toServer'[q] = toServer[q]
      /\ \A i \in DOMAIN toServer'[p] :
           \/ i \in DOMAIN toServer[p] /\ toServer'[p][i] = toServer[p][i]
           \/ i = Len(toServer[p]) + 1 /\ toServer'[p][i] = ClosedEvent
      /\ \A i \in DOMAIN toServer[p] : i \in 1 .. Len(toServer[p])
      /\ Len(toServer'[p]) = Len(toServer[p]) + 1 /\ Len(toServer[p]) \in Nat
  BY Asked, ServerEvents DEF Close
<1>2. client' = [client EXCEPT ![p] = Closed] /\ ~client'[p].active
  BY ReviewTypes DEF Close, Become, TypeOK
<1>3. /\ OpenFor(p) /\ openReview.opened /\ OpenFor(p)' /\ Len(toServer[p]) <= MaxBacklog
      /\ \A i \in DOMAIN toServer[p] : toServer[p][i].kind # "closed"
  BY DEF Player, Shown, Served, OpenFor
<1>4. Served(p)'
  <2> SUFFICES ASSUME NEW i \in DOMAIN toServer'[p]
               PROVE  /\ toServer'[p][i].kind = "closed" => i = Len(toServer'[p]) /\ ~client'[p].active
                      /\ toServer'[p][i].kind = "rate" => toServer'[p][i].answer = toServer'[p][i].card
    BY <1>2, <1>3 DEF Served
  <2>1. CASE i \in DOMAIN toServer[p] /\ toServer'[p][i] = toServer[p][i]
    BY <1>3, <2>1 DEF Player, Served
  <2>2. CASE i = Len(toServer[p]) + 1 /\ toServer'[p][i] = ClosedEvent
    BY <1>1, <1>2, <2>2, Kinds
  <2> QED
    BY <1>1, <2>1, <2>2
<1>5. Coming(p)'
  BY DEF Coming
<1>6. Rates(p)' \subseteq Rates(p)
  BY <1>1, Kinds DEF Rates
<1>7. Once(p)'
  BY <1>6 DEF Player, Once, Given, OpenFor
<1>8. Player(p)' /\ Channelled'
  BY <1>1, <1>2, <1>4, <1>5, <1>7 DEF Player, Shown, Locked, Channelled
<1>9. Len(toServer'[p]) <= MaxBacklog + 1
  BY <1>1, <1>3, BoundAssumption
<1>10. \A q \in Players \ {p} : toClient'[q] = toClient[q] /\ toServer'[q] = toServer[q]
  BY <1>1
<1> QED
  BY <1>2, <1>8, <1>9, <1>10, ReviewTypes, ClientStep

LEMMA HearResultInv ==
  ASSUME IInv, NEW p \in Players, HearResult(p)
  PROVE  IInv'
<1> USE DEF IInv
<1>1. /\ toClient[p] # <<>> /\ Head(toClient[p]).kind = "result" /\ toClient' = Took(toClient, p)
      /\ UNCHANGED <<openReview, openings, misled, session, txs>>
  BY DEF HearResult, Arrives
<1>2. /\ Head(toClient[p]) = toClient[p][1] /\ 1 \in DOMAIN toClient[p]
      /\ Head(toClient[p]).state \in Settled \cup {"rejected"}
      /\ Head(toClient[p]) = ResultEvent(Head(toClient[p]).state)
  BY <1>1, HeardOne, ClientEvents
<1>3. client[p] \in Reviews
  BY DEF TypeOK
<1>4. CASE ~client[p].active
  <2>1. client' = [client EXCEPT ![p] = client[p]] /\ UNCHANGED toServer
    BY <1>4 DEF HearResult, TypeOK
  <2> QED
    BY <1>1, <1>3, <1>4, <2>1, HeardRest
<1>5. CASE client[p].active /\ Close(p)
  <2>1. /\ toClient' \in [Players -> Seq(ToClientEvents)]
        /\ \A q \in Players \ {p} : toClient'[q] = toClient[q]
        /\ \A i \in DOMAIN toClient'[p] :
             i + 1 \in DOMAIN toClient[p] /\ toClient'[p][i] = toClient[p][i + 1]
    BY <1>1, HeardOne
  <2>2. \A i \in DOMAIN toClient[p] : toClient[p][i].kind # "open"
    BY <1>5 DEF Player, Shown, Fits
  <2> QED
    BY <1>1, <1>5, <2>1, <2>2, Closing
<1>6. CASE client[p].active /\ ~Close(p)
  <2> DEFINE state == Head(toClient[p]).state
             Heard(submitted, applied) ==
               [client[p] EXCEPT !.awaitingResult = FALSE, !.submitted = submitted, !.applied = applied]
  <2>1. UNCHANGED toServer
    BY <1>6 DEF HearResult
  <2>2. PICK submitted \in BOOLEAN, applied \in BOOLEAN :
          /\ client' = [client EXCEPT ![p] = Heard(submitted, applied)]
          /\ applied = client[p].applied \/ state = "applied" \/ ~applied
          /\ submitted \/ (state = "rejected" /\ submitted = client[p].submitted)
    <3>1. CASE state = "applied"
      <4>1. client' = [client EXCEPT ![p] = Heard(TRUE, TRUE)]
        BY <1>3, <1>6, <3>1 DEF HearResult, Become, Reviews
      <4> QED
        BY <3>1, <4>1
    <3>2. CASE state = "outcome_unknown"
      <4>1. client' = [client EXCEPT ![p] = Heard(TRUE, FALSE)]
        BY <1>3, <1>6, <3>2 DEF HearResult, Become, Reviews
      <4> QED
        BY <4>1
    <3>3. CASE state = "rejected"
      <4>1. [client[p] EXCEPT !.awaitingResult = FALSE] = Heard(client[p].submitted, client[p].applied)
        BY <1>3 DEF Reviews
      <4>2. client' = [client EXCEPT ![p] = [client[p] EXCEPT !.awaitingResult = FALSE]]
        BY <1>6, <3>3 DEF HearResult, Become
      <4>3. client' = [client EXCEPT ![p] = Heard(client[p].submitted, client[p].applied)]
        BY <4>1, <4>2
      <4>4. client[p].submitted \in BOOLEAN /\ client[p].applied \in BOOLEAN
        BY <1>3 DEF Reviews
      <4> QED
        BY <3>3, <4>3, <4>4
    <3> QED
      BY <1>2, <3>1, <3>2, <3>3 DEF Settled
  <2> DEFINE review == Heard(submitted, applied)
  <2>3. /\ review \in Reviews /\ review.active = client[p].active /\ review.card = client[p].card
        /\ review.side = client[p].side /\ review.answer = client[p].answer
        /\ review.applied = applied /\ review.submitted = submitted
    BY <1>3 DEF Reviews
  <2>4. client' = [client EXCEPT ![p] = review]
    BY <2>2
  <2> HIDE DEF review
  <2>5. applied => Rated(client[p].card)
    <3>1. client[p].applied => Rated(client[p].card)
      BY <1>6 DEF Player, Shown
    <3>2. state = "applied" => Rated(client[p].card)
      BY <1>2, <1>6 DEF Player, Shown, Fits
    <3> QED
      BY <2>2, <3>1, <3>2
  <2>6. review.side = "answer" => review.answer = client[p].card
    BY <1>6, <2>3 DEF Player, Shown
  <2>7. review.submitted \/ toClient[p][1] = ResultEvent("rejected")
    BY <1>2, <2>2, <2>3
  <2>8. ~review.submitted => ~client[p].submitted
    BY <2>2, <2>3
  <2> QED
    BY <1>1, <1>6, <2>1, <2>3, <2>4, <2>5, <2>6, <2>7, <2>8, HeardRest
<1> QED
  BY <1>4, <1>5, <1>6

LEMMA DismissInv ==
  ASSUME IInv, NEW p \in Players, Dismiss(p) \/ Revoked(p)
  PROVE  IInv'
<1>1. /\ client[p].active /\ Close(p)
      /\ UNCHANGED <<openReview, openings, misled, session, txs, toClient>>
  BY DEF Dismiss, Revoked
<1>2. /\ toClient' \in [Players -> Seq(ToClientEvents)]
      /\ \A i \in DOMAIN toClient[p] : toClient[p][i].kind # "open"
  BY <1>1 DEF IInv, Channelled, Player, Shown, Fits
<1> QED
  BY <1>1, <1>2, Closing

\* A client that shows a card asks for something that is not a close.
LEMMA AskingMore ==
  ASSUME IInv, NEW p \in Players, client[p].active, Len(toServer[p]) < MaxBacklog,
         NEW e \in ToServerEvents, Ask(p, e), e.kind # "closed", e.kind = "rate" => e.answer = e.card,
         UNCHANGED <<openReview, openings, misled, session, txs, toClient>>,
         NEW review \in Reviews, client' = [client EXCEPT ![p] = review],
         review.active, review.card = client[p].card, review.side = client[p].side,
         review.answer = client[p].answer, review.applied = client[p].applied,
         review.submitted = client[p].submitted,
         e.kind # "rate" => review.awaitingResult = client[p].awaitingResult,
         e.kind = "rate" => /\ review.awaitingResult
                            /\ ~client[p].submitted /\ ~client[p].awaitingResult
  PROVE  IInv'
<1> USE DEF IInv
<1>1. /\ toServer' \in [Players -> Seq(ToServerEvents)]
      /\ \A q \in Players \ {p} : toServer'[q] = toServer[q]
      /\ \A i \in DOMAIN toServer'[p] :
           \/ i \in DOMAIN toServer[p] /\ toServer'[p][i] = toServer[p][i]
           \/ i = Len(toServer[p]) + 1 /\ toServer'[p][i] = e
      /\ Len(toServer'[p]) = Len(toServer[p]) + 1 /\ Len(toServer[p]) \in Nat
  BY Asked
<1>2. client'[p] = review /\ Player(p) /\ (OpenFor(p)' <=> OpenFor(p))
  BY DEF TypeOK, OpenFor
<1>3. /\ OpenFor(p) /\ openReview.opened
      /\ \A i \in DOMAIN toClient[p] : Fits(toClient[p][i], client[p].card)
      /\ \A i \in DOMAIN toServer[p] :
           /\ toServer[p][i].kind # "closed"
           /\ toServer[p][i].kind = "rate" => toServer[p][i].answer = toServer[p][i].card
  BY <1>2 DEF Player, Shown, Served
<1>4. Served(p)'
  <2>1. Len(toServer'[p]) <= MaxBacklog
    BY <1>1, BoundAssumption
  <2>2. \A i \in DOMAIN toServer'[p] :
          /\ toServer'[p][i].kind # "closed"
          /\ toServer'[p][i].kind = "rate" => toServer'[p][i].answer = toServer'[p][i].card
    BY <1>1, <1>3
  <2> QED
    BY <1>2, <1>3, <2>1, <2>2 DEF Served
<1>5. Shown(p)'
  BY <1>2 DEF Player, Shown, Fits, Rated
<1>6. Coming(p)'
  BY <1>3 DEF Coming, Fits
<1>7. Once(p)' /\ Locked(p)'
  <2>1. CASE e.kind # "rate"
    <3>1. Rates(p)' \subseteq Rates(p)
      BY <1>1, <2>1 DEF Rates
    <3>2. Rejections(p)' = Rejections(p) /\ (\A o : Given(o)' <=> Given(o))
      BY DEF Rejections, Given
    <3>3. Once(p)'
      BY <1>2, <3>1, <3>2 DEF Player, Once, Given
    <3>4. Locked(p)'
      BY <1>2, <2>1, <3>1, <3>2 DEF Player, Locked, Given
    <3> QED
      BY <3>3, <3>4
  <2>2. CASE e.kind = "rate"
    <3>1. openReview.opening \notin misled =>
            Rates(p) = {} /\ Rejections(p) = {} /\ ~Given(openReview.opening)
      BY <1>2, <1>3, <2>2 DEF Player, Locked
    <3>2. Rates(p)' \subseteq Rates(p) \cup {Len(toServer[p]) + 1}
      BY <1>1 DEF Rates
    <3>3. Rejections(p)' = Rejections(p)
      BY DEF Rejections
    <3>4. Once(p)'
      BY <1>2, <3>1, <3>2 DEF Once, Given
    <3>5. Locked(p)'
      BY <1>2, <2>2, <3>1, <3>3 DEF Locked
    <3> QED
      BY <3>4, <3>5
  <2> QED
    BY <2>1, <2>2
<1>8. Player(p)' /\ Channelled'
  BY <1>1, <1>4, <1>5, <1>6, <1>7 DEF Player, Channelled
<1>9. /\ Len(toServer'[p]) <= MaxBacklog + 1
      /\ \A q \in Players \ {p} : toClient'[q] = toClient[q] /\ toServer'[q] = toServer[q]
  BY <1>1, BoundAssumption
<1> QED
  BY <1>8, <1>9, ClientStep

LEMMA AskPageInv ==
  ASSUME IInv, NEW p \in Players, AskPage(p)
  PROVE  IInv'
<1>1. client[p] \in Reviews /\ client[p].side \in Sides
  BY DEF IInv, TypeOK, Reviews
<1>2. PICK side \in Sides : Ask(p, PageRequest(client[p].card, side))
  BY <1>1 DEF AskPage, Sides
<1>3. client[p].active /\ Len(toServer[p]) < MaxBacklog
      /\ UNCHANGED <<openReview, openings, misled, session, txs, client, toClient>>
  BY DEF AskPage
<1>4. client[p].card \in Cards
  BY <1>1, <1>3 DEF IInv, Player, Shown, OpenFor, TypeOK, OpenReviews
<1>5. PageRequest(client[p].card, side) \in ToServerEvents /\ PageRequest(client[p].card, side).kind = "page"
  BY <1>2, <1>4, ServerEvents, Kinds
<1>6. client' = [client EXCEPT ![p] = client[p]]
  BY <1>3 DEF IInv, TypeOK
<1> QED
  BY <1>1, <1>2, <1>3, <1>5, <1>6, AskingMore

LEMMA ClickRatingInv ==
  ASSUME IInv, NEW p \in Players, NEW rating \in Ratings, ClickRating(p, rating)
  PROVE  IInv'
<1>1. client[p] \in Reviews
  BY DEF IInv, TypeOK
<1> DEFINE e == RateRequest(client[p].card, rating, client[p].answer)
           review == [client[p] EXCEPT !.awaitingResult = TRUE]
<1>2. /\ client[p].active /\ client[p].side = "answer"
      /\ ~client[p].submitted /\ ~client[p].awaitingResult /\ Len(toServer[p]) < MaxBacklog
      /\ client' = [client EXCEPT ![p] = review] /\ Ask(p, e)
      /\ UNCHANGED <<openReview, openings, misled, session, txs, toClient>>
  BY DEF ClickRating, Become
<1>3. client[p].card \in Cards /\ client[p].answer = client[p].card
  BY <1>1, <1>2 DEF IInv, Player, Shown, OpenFor, TypeOK, OpenReviews
<1>4. e \in ToServerEvents /\ e.kind = "rate" /\ e.answer = e.card
  BY <1>3, ServerEvents, Kinds
<1>5. /\ review \in Reviews /\ review.active /\ review.card = client[p].card
      /\ review.side = client[p].side /\ review.answer = client[p].answer
      /\ review.applied = client[p].applied /\ review.submitted = client[p].submitted
      /\ review.awaitingResult
  BY <1>1, <1>2 DEF Reviews
<1> HIDE DEF e, review
<1> QED
  BY <1>2, <1>4, <1>5, AskingMore

LEMMA QuitInv ==
  ASSUME IInv, NEW p \in Players, Quit(p)
  PROVE  IInv'
<1> USE DEF IInv
<1>1. /\ client' = [client EXCEPT ![p] = Closed]
      /\ toClient' = [toClient EXCEPT ![p] = <<>>] /\ toServer' = [toServer EXCEPT ![p] = <<>>]
      /\ openReview' = IF OpenFor(p) THEN None ELSE openReview
      /\ UNCHANGED <<openings, misled, session, txs>>
  BY DEF Quit, Become
<1>2. /\ client'[p] = Closed /\ toClient'[p] = <<>> /\ toServer'[p] = <<>>
      /\ \A q \in Players \ {p} : /\ client'[q] = client[q] /\ toClient'[q] = toClient[q]
                                  /\ toServer'[q] = toServer[q]
      /\ client' \in [Players -> Reviews] /\ Channelled'
  BY <1>1, ReviewTypes DEF TypeOK, Channelled
<1>3. TypeOK'
  BY <1>1, <1>2, BoundAssumption DEF TypeOK
<1>4. Numbered' /\ AnswerSeenFirst' /\ Single' /\ Rendering'
  BY <1>1 DEF Numbered, Unrated, AnswerSeenFirst, Single, Rendering, OpenFor
<1>5. Player(p)'
  <2>1. DOMAIN toClient'[p] = {} /\ DOMAIN toServer'[p] = {} /\ Len(toServer'[p]) = 0
    BY <1>2
  <2>2. ~client'[p].active
    BY <1>2, ReviewTypes
  <2> QED
    BY <1>2, <2>1, <2>2 DEF Player, Served, Shown, Coming, Once, Locked, Rates
<1>6. ASSUME NEW q \in Players \ {p} PROVE Player(q)'
  <2>1. CASE OpenFor(p)
    BY <1>2, <2>1, Bystander DEF OpenFor
  <2>2. CASE ~OpenFor(p)
    BY <1>1, <1>2, <2>2, SameOpening DEF Rated, Given, Unrated
  <2> QED
    BY <2>1, <2>2
<1> QED
  BY <1>2, <1>3, <1>4, <1>5, <1>6
-----------------------------------------------------------------------------
(* The server: renders and openings.                                       *)

LEMMA OpenFacts ==
  ASSUME TypeOK
  PROVE  /\ openReview # None => openReview \in OpenReviews /\ openReview.player \in Players
                                 /\ openReview.card \in Cards /\ openReview.opening \in Openings
         /\ \A p : OpenFor(p) => openReview # None /\ openReview.player = p
BY DEF TypeOK, OpenReviews, OpenFor

LEMMA RenderTimeoutInv ==
  ASSUME IInv, RenderTimeout
  PROVE  IInv'
<1> USE DEF IInv, channels
<1>1. /\ session' \subseteq session
      /\ UNCHANGED <<openReview, openings, misled, txs, client, toClient, toServer>>
  BY DEF RenderTimeout
<1>2. TypeOK' /\ Channelled' /\ Numbered' /\ AnswerSeenFirst' /\ Single'
  BY <1>1 DEF TypeOK, Channelled, Numbered, Unrated, AnswerSeenFirst, Single
<1>3. Rendering'
  BY <1>1 DEF Rendering, OpenFor
<1>4. ASSUME NEW q \in Players PROVE Player(q)'
  BY <1>1, SameOpening DEF Rated, Given, Unrated
<1> QED
  BY <1>2, <1>3, <1>4

LEMMA OpenInv ==
  ASSUME IInv, NEW p \in Players, NEW card \in Cards, OpenReviewModeFor(p, card)
  PROVE  IInv'
<1> USE DEF IInv, channels
<1>1. /\ openReview = None /\ openings < MaxOpenings /\ openings' = openings + 1
      /\ session' = {[player |-> p, card |-> card, side |-> "question"]}
      /\ openReview' = [player |-> p, card |-> card, opened |-> FALSE, opening |-> openings + 1]
      /\ UNCHANGED <<misled, txs, client, toClient, toServer>>
  BY DEF OpenReviewModeFor, RequestRender
<1>2. openings' \in Openings /\ openings' \in 0 .. MaxOpenings /\ openings \in Nat
  BY <1>1, BoundAssumption DEF TypeOK, Openings
<1>3. openReview' \in OpenReviews /\ openReview' # None
  <2>1. openings + 1 \in Openings
    BY <1>1, <1>2
  <2>2. openReview' \in OpenReviews
    BY <1>1, <2>1 DEF OpenReviews
  <2> QED
    BY <2>2, NoneAssumption
<1>4. session' \subseteq Renders
  BY <1>1 DEF Renders, Sides
<1>5. TypeOK' /\ Channelled'
  BY <1>1, <1>2, <1>3, <1>4 DEF TypeOK, Channelled
<1>6. Numbered'
  <2>1. \A t \in DOMAIN txs : txs[t].opening \in Nat /\ txs[t].opening <= openings
    <3>1. \A t \in DOMAIN txs : txs[t] \in Txs
      BY ElementOfSeq, LenProperties DEF TypeOK
    <3> QED
      BY <3>1, BoundAssumption DEF Numbered, Txs, Openings
  <2> QED
    BY <1>1, <1>2, <2>1 DEF Numbered, Unrated
<1>7. Rendering' /\ AnswerSeenFirst' /\ Single'
  BY <1>1 DEF Rendering, AnswerSeenFirst, Single, OpenFor
<1>8. ASSUME NEW q \in Players PROVE Player(q)'
  BY <1>1, Bystander DEF OpenFor
<1> QED
  BY <1>5, <1>6, <1>7, <1>8

LEMMA RenderIssuedInv ==
  ASSUME IInv, RenderIssued
  PROVE  IInv'
<1> USE DEF IInv
<1>1. PICK render \in session :
        /\ session' = session \ {render}
        /\ IF OpenFor(render.player)
           THEN Rendered(render.player, render.card, render.side) \/ RenderFailed(render.player)
           ELSE UNCHANGED <<openReview, misled, toClient>>
  BY DEF RenderIssued
<1>2. UNCHANGED <<openings, txs, client, toServer>>
  BY DEF RenderIssued
<1> DEFINE p == render.player
<1>3. p \in Players /\ render.card \in Cards /\ render.side \in Sides /\ session' \subseteq Renders
  BY <1>1 DEF TypeOK, Renders
<1>4. AnswerSeenFirst'
  BY <1>2 DEF AnswerSeenFirst
<1>5. CASE ~OpenFor(p)
  <2>1. UNCHANGED <<openReview, misled, toClient>>
    BY <1>1, <1>5
  <2>2. TypeOK' /\ Channelled' /\ Numbered' /\ Single'
    BY <1>2, <1>3, <2>1 DEF TypeOK, Channelled, Numbered, Unrated, Single
  <2>3. Rendering'
    BY <1>1, <2>1 DEF Rendering, OpenFor
  <2>4. ASSUME NEW q \in Players PROVE Player(q)'
    BY <1>2, <2>1, SameOpening DEF Rated, Given, Unrated
  <2> QED
    BY <1>4, <2>2, <2>3, <2>4
<1>6. CASE OpenFor(p) /\ Rendered(p, render.card, render.side)
  <2> DEFINE e == IF openReview.opened THEN SideEvent(render.card, render.side)
                  ELSE OpenEvent(openReview.card)
  <2>1. /\ openReview' = [openReview EXCEPT !.opened = TRUE] /\ misled' = misled /\ Tell(p, <<e>>)
    BY <1>6 DEF Rendered
  <2>2. /\ openReview \in OpenReviews /\ openReview # None /\ openReview.player = p
        /\ openReview.card \in Cards /\ render.card = openReview.card
    BY <1>1, <1>6, OpenFacts DEF Rendering
  <2>3. /\ openReview' \in OpenReviews /\ openReview' # None /\ openReview'.opened
        /\ openReview'.player = p /\ openReview'.card = openReview.card
        /\ openReview'.opening = openReview.opening
    BY <2>1, <2>2, NoneAssumption DEF OpenReviews
  <2>4. e \in ToClientEvents
    BY <1>3, <2>2, ClientEvents
  <2> HIDE DEF e
  <2>5. /\ toClient' \in [Players -> Seq(ToClientEvents)]
        /\ \A q \in Players \ {p} : toClient'[q] = toClient[q]
        /\ \A i \in DOMAIN toClient'[p] :
             \/ i \in DOMAIN toClient[p] /\ toClient'[p][i] = toClient[p][i]
             \/ i = Len(toClient[p]) + 1 /\ toClient'[p][i] = e
        /\ \A i \in DOMAIN toClient[p] : i \in 1 .. Len(toClient[p])
        /\ Len(toClient[p]) \in Nat
    BY <1>3, <2>1, <2>4, ToldOne
  <2>6. TypeOK' /\ Channelled'
    BY <1>2, <1>3, <2>1, <2>3, <2>5 DEF TypeOK, Channelled
  <2>7. Single'
    BY <1>2, <2>1 DEF Single
  <2>8. Numbered' /\ Rendering'
    BY <1>1, <1>2, <2>2, <2>3 DEF Numbered, Rendering, OpenFor, Unrated
  <2>9. ASSUME NEW q \in Players \ {p} PROVE Player(q)'
    BY <1>2, <2>2, <2>5, <2>9, Bystander DEF OpenFor
  <2>10. OpenFor(p)' /\ Player(p)
    BY <1>3, <2>3 DEF OpenFor
  <2>11. Served(p)'
    BY <1>2, <2>3, <2>10 DEF Player, Served
  <2>12. CASE openReview.opened
    <3>1. e = SideEvent(openReview.card, render.side) /\ e.kind = "side" /\ e.card = openReview.card
          /\ e # ResultEvent("rejected") /\ e # ResultEvent("applied")
      BY <2>2, <2>12, Kinds DEF e
    <3>2. Shown(p)'
      BY <1>2, <2>3, <2>5, <2>10, <3>1 DEF Player, Shown, Fits, Rated
    <3>3. Coming(p)'
      <4> SUFFICES ASSUME NEW i \in DOMAIN toClient'[p], toClient'[p][i].kind = "open"
                   PROVE  /\ openReview'.card = toClient'[p][i].card
                          /\ ~client'[p].active /\ toServer'[p] = <<>>
                          /\ Unrated(openReview.opening)'
                          /\ \A j \in DOMAIN toClient'[p] : j > i =>
                               /\ Fits(toClient[p][j], openReview.card)'
                               /\ toClient'[p][j] = ResultEvent("rejected") =>
                                    openReview'.opening \in misled'
        BY <2>3, <2>10 DEF Coming
      <4>1. i \in DOMAIN toClient[p] /\ toClient'[p][i] = toClient[p][i]
        BY <2>5, <3>1
      <4>2. /\ openReview.card = toClient[p][i].card /\ ~client[p].active /\ toServer[p] = <<>>
            /\ Unrated(openReview.opening)
            /\ \A j \in DOMAIN toClient[p] : j > i =>
                 /\ Fits(toClient[p][j], openReview.card)
                 /\ toClient[p][j] = ResultEvent("rejected") => openReview.opening \in misled
        BY <2>10, <4>1 DEF Player, Coming
      <4>3. ASSUME NEW j \in DOMAIN toClient'[p], j > i
            PROVE  /\ Fits(toClient[p][j], openReview.card)'
                   /\ toClient'[p][j] = ResultEvent("rejected") => openReview'.opening \in misled'
        BY <1>2, <2>1, <2>3, <2>5, <3>1, <4>2, <4>3 DEF Fits, Rated
      <4> QED
        BY <1>2, <2>3, <4>1, <4>2, <4>3 DEF Unrated
    <3>4. Rates(p)' = Rates(p) /\ Rejections(p)' \subseteq Rejections(p)
      BY <1>2, <2>5, <3>1 DEF Rates, Rejections
    <3>5. Once(p)' /\ Locked(p)'
      <4>1. Once(p)'
        BY <1>2, <1>6, <2>1, <2>3, <2>10, <3>4 DEF Player, Once, Given
      <4>2. Locked(p)'
        BY <1>2, <1>6, <2>1, <2>3, <2>10, <3>4 DEF Player, Locked, Given
      <4> QED
        BY <4>1, <4>2
    <3> QED
      BY <2>6, <2>7, <2>8, <2>9, <2>11, <3>2, <3>3, <3>5, <1>4 DEF Player
  <2>13. CASE ~openReview.opened
    <3>1. e = OpenEvent(openReview.card) /\ e.kind = "open" /\ e.card = openReview.card
          /\ e # ResultEvent("rejected")
      BY <2>13, Kinds DEF e
    <3>2. /\ ~client[p].active /\ toServer[p] = <<>> /\ Unrated(openReview.opening)
          /\ \A i \in DOMAIN toClient[p] : toClient[p][i].kind # "open"
      BY <2>2, <2>10, <2>13 DEF Player, Shown, Served, Coming, Numbered
    <3>3. Shown(p)' /\ Locked(p)'
      BY <1>2, <3>2 DEF Shown, Locked
    <3>4. Rates(p)' = {}
      BY <1>2, <3>2 DEF Rates
    <3>5. Once(p)'
      BY <3>4 DEF Once
    <3>6. Coming(p)'
      <4> SUFFICES ASSUME NEW i \in DOMAIN toClient'[p], toClient'[p][i].kind = "open"
                   PROVE  /\ openReview'.card = toClient'[p][i].card
                          /\ ~client'[p].active /\ toServer'[p] = <<>>
                          /\ Unrated(openReview.opening)'
                          /\ \A j \in DOMAIN toClient'[p] : ~(j > i)
        BY <2>3, <2>10 DEF Coming
      <4>1. i = Len(toClient[p]) + 1 /\ toClient'[p][i] = e
        BY <2>5, <3>2
      <4> QED
        BY <1>2, <2>3, <2>5, <3>1, <3>2, <4>1 DEF Unrated
    <3> QED
      BY <2>6, <2>7, <2>8, <2>9, <2>11, <3>3, <3>5, <3>6, <1>4 DEF Player
  <2> QED
    BY <2>12, <2>13
<1>7. CASE OpenFor(p) /\ RenderFailed(p)
  <2> DEFINE e == ResultEvent("rejected")
  <2>1. /\ openReview' = openReview /\ misled' = misled \cup {openReview.opening} /\ Tell(p, <<e>>)
    BY <1>7 DEF RenderFailed
  <2>2. /\ openReview # None /\ openReview.player = p /\ openReview.opening \in Openings
    BY <1>7, OpenFacts
  <2>3. e \in ToClientEvents /\ e.kind = "result" /\ e # ResultEvent("applied")
    <3>1. e.state = "rejected" /\ ResultEvent("applied").state = "applied"
      BY Kinds
    <3> QED
      BY <3>1, ClientEvents, Kinds
  <2>4. /\ toClient' \in [Players -> Seq(ToClientEvents)]
        /\ \A q \in Players \ {p} : toClient'[q] = toClient[q]
        /\ \A i \in DOMAIN toClient'[p] :
             \/ i \in DOMAIN toClient[p] /\ toClient'[p][i] = toClient[p][i]
             \/ i = Len(toClient[p]) + 1 /\ toClient'[p][i] = e
        /\ \A i \in DOMAIN toClient[p] : i \in 1 .. Len(toClient[p])
        /\ Len(toClient[p]) \in Nat
    BY <1>3, <2>1, <2>3, ToldOne
  <2> HIDE DEF e
  <2>5. TypeOK' /\ Channelled'
    BY <1>2, <1>3, <2>1, <2>2, <2>4 DEF TypeOK, Channelled
  <2>6. Single'
    BY <1>2, <2>1 DEF Single
  <2>7. Numbered' /\ Rendering'
    BY <1>1, <1>2, <2>1 DEF Numbered, Rendering, OpenFor, Unrated
  <2>8. ASSUME NEW q \in Players \ {p} PROVE Player(q)'
    BY <1>2, <2>2, <2>4, <2>8, Bystander DEF OpenFor
  <2>9. OpenFor(p)' /\ Player(p) /\ openReview'.opening \in misled'
    BY <1>3, <1>7, <2>1 DEF OpenFor
  <2>10. Served(p)' /\ Once(p)' /\ Locked(p)'
    BY <1>2, <2>1, <2>9 DEF Player, Served, Once, Locked
  <2>11. Shown(p)'
    BY <1>2, <2>1, <2>3, <2>4, <2>9 DEF Player, Shown, Fits, Rated
  <2>12. Coming(p)'
    <3> SUFFICES ASSUME NEW i \in DOMAIN toClient'[p], toClient'[p][i].kind = "open"
                 PROVE  /\ openReview'.opened /\ openReview'.card = toClient'[p][i].card
                        /\ ~client'[p].active /\ toServer'[p] = <<>>
                        /\ Unrated(openReview.opening)'
                        /\ \A j \in DOMAIN toClient'[p] : j > i => Fits(toClient[p][j], openReview.card)'
      BY <2>9 DEF Coming
    <3>1. i \in DOMAIN toClient[p] /\ toClient'[p][i] = toClient[p][i]
      BY <2>3, <2>4
    <3>2. /\ openReview.opened /\ openReview.card = toClient[p][i].card /\ ~client[p].active
          /\ toServer[p] = <<>> /\ Unrated(openReview.opening)
          /\ \A j \in DOMAIN toClient[p] : j > i => Fits(toClient[p][j], openReview.card)
      BY <2>9, <3>1 DEF Player, Coming
    <3>3. ASSUME NEW j \in DOMAIN toClient'[p], j > i PROVE Fits(toClient[p][j], openReview.card)'
      BY <1>2, <2>1, <2>3, <2>4, <3>2, <3>3 DEF Fits, Rated
    <3> QED
      BY <1>2, <2>1, <3>1, <3>2, <3>3 DEF Unrated
  <2> QED
    BY <1>4, <2>5, <2>6, <2>7, <2>8, <2>10, <2>11, <2>12 DEF Player
<1> QED
  BY <1>1, <1>5, <1>6, <1>7
-----------------------------------------------------------------------------
(* The server: what it hears.                                              *)

\* A client that asks is the one with the open card, and has it on its screen
\* already: the server takes one request of it.
LEMMA ServedRest ==
  ASSUME IInv, NEW p \in Players, toServer[p] # <<>>, toServer' = Took(toServer, p),
         UNCHANGED <<openReview, client>>
  PROVE  /\ toServer' \in [Players -> Seq(ToServerEvents)]
         /\ \A q \in Players \ {p} : toServer'[q] = toServer[q]
         /\ \A q \in Players : Len(toServer'[q]) <= MaxBacklog + 1
         /\ Served(p)' /\ OpenFor(p) /\ openReview.opened
         /\ \A i \in DOMAIN toClient[p] : toClient[p][i].kind # "open"
         /\ \A i \in Rates(p)' : i + 1 \in Rates(p) /\ i \in Nat /\ i + 1 # 1
<1> USE DEF IInv
<1>1. /\ toServer' \in [Players -> Seq(ToServerEvents)]
      /\ \A q \in Players \ {p} : toServer'[q] = toServer[q]
      /\ \A i \in DOMAIN toServer'[p] :
           /\ i + 1 \in DOMAIN toServer[p] /\ i \in Nat /\ i + 1 # 1
           /\ toServer'[p][i] = toServer[p][i + 1]
      /\ Len(toServer'[p]) = Len(toServer[p]) - 1 /\ Len(toServer[p]) \in Nat
  BY ServedOne
<1>2. Served(p) /\ Coming(p)
  BY DEF Player
<1>3. OpenFor(p) /\ openReview.opened /\ \A i \in DOMAIN toClient[p] : toClient[p][i].kind # "open"
  BY <1>2 DEF Served, Coming
<1>4. \A q \in Players : Len(toServer[q]) <= MaxBacklog + 1
  BY DEF TypeOK
<1>5. \A q \in Players : Len(toServer'[q]) <= MaxBacklog + 1
  BY <1>1, <1>4, BoundAssumption
<1>6. \A i \in Rates(p)' : i + 1 \in Rates(p) /\ i \in Nat /\ i + 1 # 1
  BY <1>1 DEF Rates
<1>7. Served(p)'
  <2>1. client[p].active => Len(toServer'[p]) <= MaxBacklog
    BY <1>1, <1>2, BoundAssumption DEF Served
  <2>2. OpenFor(p)' /\ openReview'.opened
    BY <1>3 DEF OpenFor
  <2>3. \A i \in DOMAIN toServer'[p] :
          /\ toServer'[p][i].kind = "closed" => i = Len(toServer'[p]) /\ ~client'[p].active
          /\ toServer'[p][i].kind = "rate" => toServer'[p][i].answer = toServer'[p][i].card
    <3> TAKE i \in DOMAIN toServer'[p]
    <3>1. /\ i + 1 \in DOMAIN toServer[p] /\ i \in Nat /\ toServer'[p][i] = toServer[p][i + 1]
      BY <1>1
    <3>2. /\ toServer[p][i + 1].kind = "closed" => i + 1 = Len(toServer[p]) /\ ~client[p].active
          /\ toServer[p][i + 1].kind = "rate" => toServer[p][i + 1].answer = toServer[p][i + 1].card
      BY <1>2, <3>1 DEF Served
    <3> QED
      BY <1>1, <3>1, <3>2
  <2> QED
    BY <2>1, <2>2, <2>3 DEF Served
<1> QED
  BY <1>1, <1>3, <1>5, <1>6, <1>7

\* A request that gives no rating to a transaction leaves the opening as it is.
LEMMA ServedQuietly ==
  ASSUME IInv, NEW p \in Players, toServer[p] # <<>>, toServer' = Took(toServer, p),
         UNCHANGED <<openReview, misled, client, txs, toClient>>
  PROVE  \A q \in Players : Player(q)'
<1> USE DEF IInv
<1>1. /\ \A q \in Players \ {p} : toServer'[q] = toServer[q]
      /\ Served(p)' /\ OpenFor(p) /\ openReview.opened
      /\ \A i \in DOMAIN toClient[p] : toClient[p][i].kind # "open"
      /\ \A i \in Rates(p)' : i + 1 \in Rates(p) /\ i \in Nat /\ i + 1 # 1
  BY ServedRest
<1>2. ASSUME NEW q \in Players \ {p} PROVE Player(q)'
  BY <1>1, SameOpening DEF Rated, Given, Unrated
<1>3. Player(p) /\ OpenFor(p)'
  BY <1>1 DEF OpenFor
<1>4. Shown(p)' /\ Coming(p)'
  BY <1>1, <1>3 DEF Player, Shown, Coming, Fits, Rated
<1>5. /\ Rates(p)' # {} => Rates(p) # {}
      /\ (\A i, j \in Rates(p) : i = j) => \A i, j \in Rates(p)' : i = j
      /\ Rejections(p)' = Rejections(p) /\ (Given(openReview.opening)' <=> Given(openReview.opening))
  BY <1>1 DEF Rejections, Given
<1>6. Once(p)'
  BY <1>1, <1>3, <1>5 DEF Player, Once
<1>7. Locked(p)'
  BY <1>1, <1>3, <1>5 DEF Player, Locked
<1> QED
  BY <1>1, <1>2, <1>4, <1>6, <1>7 DEF Player

LEMMA ServePageInv ==
  ASSUME IInv, NEW p \in Players, ServePage(p)
  PROVE  IInv'
<1> USE DEF IInv
<1>1. /\ toServer[p] # <<>> /\ Head(toServer[p]).kind = "page" /\ toServer' = Took(toServer, p)
      /\ \/ /\ OpenFor(p)
            /\ session' = {[player |-> p, card |-> openReview.card, side |-> Head(toServer[p]).side]}
         \/ UNCHANGED session
      /\ UNCHANGED <<openReview, openings, misled, txs, client, toClient>>
  BY DEF ServePage, Arrives, RequestRender
<1>2. Head(toServer[p]) \in ToServerEvents
  BY <1>1, ServedOne
<1>3. Head(toServer[p]).side \in Sides
  BY <1>1, <1>2, ServerEvents
<1>4. session' \subseteq Renders /\ Rendering'
  <2>1. CASE UNCHANGED session
    BY <1>1, <2>1 DEF TypeOK, Rendering, OpenFor
  <2>2. CASE OpenFor(p) /\ session' = {[player |-> p, card |-> openReview.card,
                                        side |-> Head(toServer[p]).side]}
    BY <1>1, <1>3, <2>2, OpenFacts DEF Rendering, OpenFor, Renders
  <2> QED
    BY <1>1, <2>1, <2>2
<1>5. TypeOK' /\ Channelled'
  BY <1>1, <1>4, ServedRest DEF TypeOK, Channelled
<1>6. Numbered' /\ AnswerSeenFirst' /\ Single'
  BY <1>1 DEF Numbered, Unrated, AnswerSeenFirst, Single
<1>7. \A q \in Players : Player(q)'
  BY <1>1, ServedQuietly
<1> QED
  BY <1>4, <1>5, <1>6, <1>7

LEMMA ServeClosedInv ==
  ASSUME IInv, NEW p \in Players, ServeClosed(p)
  PROVE  IInv'
<1> USE DEF IInv
<1>1. /\ toServer[p] # <<>> /\ Head(toServer[p]).kind = "closed" /\ toServer' = Took(toServer, p)
      /\ OpenFor(p) => openReview' = None
      /\ UNCHANGED <<openings, misled, session, txs, client, toClient>>
  BY DEF ServeClosed, Arrives
<1>2. /\ toServer' \in [Players -> Seq(ToServerEvents)]
      /\ \A q \in Players \ {p} : toServer'[q] = toServer[q]
      /\ Head(toServer[p]) = toServer[p][1] /\ 1 \in DOMAIN toServer[p]
      /\ Len(toServer[p]) = 1 => toServer'[p] = <<>>
  BY <1>1, ServedOne
<1>3. /\ OpenFor(p) /\ ~client[p].active /\ toServer'[p] = <<>>
      /\ \A i \in DOMAIN toClient[p] : toClient[p][i].kind # "open"
  <2>1. Served(p) /\ Coming(p)
    BY DEF Player
  <2>2. OpenFor(p) /\ 1 = Len(toServer[p]) /\ ~client[p].active
    BY <1>1, <1>2, <2>1 DEF Served
  <2>3. \A i \in DOMAIN toClient[p] : toClient[p][i].kind # "open"
    BY <1>1, <2>1 DEF Coming
  <2> QED
    BY <1>2, <2>2, <2>3
<1>4. openReview' = None
  BY <1>1, <1>3
<1>5. Rates(p)' = {} /\ Len(toServer'[p]) = 0
  BY <1>3 DEF Rates
<1>6. TypeOK' /\ Channelled'
  <2>1. \A q \in Players : Len(toServer'[q]) <= MaxBacklog + 1
    <3> TAKE q \in Players
    <3>1. Len(toServer[q]) <= MaxBacklog + 1
      BY DEF TypeOK
    <3>2. CASE q = p
      BY <1>5, <3>2, BoundAssumption
    <3>3. CASE q # p
      BY <1>2, <3>1, <3>3
    <3> QED
      BY <3>2, <3>3
  <2> QED
    BY <1>1, <1>2, <1>4, <2>1 DEF TypeOK, Channelled
<1>7. Numbered' /\ AnswerSeenFirst' /\ Single' /\ Rendering'
  BY <1>1, <1>4 DEF Numbered, Unrated, AnswerSeenFirst, Single, Rendering, OpenFor
<1>8. Player(p)'
  BY <1>1, <1>3, <1>5, BoundAssumption DEF Player, Served, Shown, Coming, Once, Locked
<1>9. ASSUME NEW q \in Players \ {p} PROVE Player(q)'
  BY <1>1, <1>2, <1>3, Bystander DEF OpenFor
<1> QED
  BY <1>6, <1>7, <1>8, <1>9
-----------------------------------------------------------------------------
(* The server: ratings.                                                    *)

\* The request served is the only one of its opening, unless it was misled.
LEMMA RateTaken ==
  ASSUME IInv, NEW p \in Players, toServer[p] # <<>>, Head(toServer[p]).kind = "rate",
         toServer' = Took(toServer, p), UNCHANGED <<openReview, client>>
  PROVE  /\ OpenFor(p) /\ openReview.opened /\ openReview.opening = openings
         /\ Head(toServer[p]) \in ToServerEvents
         /\ Head(toServer[p]).answer = Head(toServer[p]).card
         /\ openReview.opening \notin misled =>
              /\ Rates(p)' = {} /\ ~Given(openReview.opening)
              /\ client[p].active /\ ~client[p].submitted =>
                   client[p].awaitingResult /\ Rejections(p) = {}
<1> USE DEF IInv
<1>1. /\ Head(toServer[p]) \in ToServerEvents /\ Head(toServer[p]) = toServer[p][1]
      /\ 1 \in DOMAIN toServer[p]
  BY ServedOne
<1>2. Served(p) /\ Once(p) /\ Locked(p)
  BY DEF Player
<1>3. OpenFor(p) /\ openReview.opened /\ Head(toServer[p]).answer = Head(toServer[p]).card
  BY <1>1, <1>2 DEF Served
<1>4. openReview.opening = openings
  BY <1>3 DEF Numbered, OpenFor
<1>5. 1 \in Rates(p)
  BY <1>1 DEF Rates
<1>6. \A i \in Rates(p)' : i + 1 \in Rates(p) /\ i + 1 # 1
  BY ServedRest
<1>7. openReview.opening \notin misled =>
        /\ \A i, j \in Rates(p) : i = j
        /\ ~Given(openReview.opening)
        /\ client[p].active /\ ~client[p].submitted =>
             client[p].awaitingResult /\ Rejections(p) = {}
  BY <1>2, <1>3, <1>5 DEF Once, Locked
<1> QED
  BY <1>1, <1>3, <1>4, <1>5, <1>6, <1>7

\* What a served rating may do: add transactions of the open card's opening, and
\* tell the client that one is refused or of unknown outcome.
LEMMA RateServed ==
  ASSUME IInv, NEW p \in Players, toServer[p] # <<>>, Head(toServer[p]).kind = "rate",
         toServer' = Took(toServer, p), UNCHANGED <<openReview, openings, misled, session, client>>,
         toClient' \in [Players -> Seq(ToClientEvents)],
         \A q \in Players \ {p} : toClient'[q] = toClient[q],
         \A i \in DOMAIN toClient'[p] :
           \/ i \in DOMAIN toClient[p] /\ toClient'[p][i] = toClient[p][i]
           \/ /\ i \notin DOMAIN toClient[p]
              /\ toClient'[p][i].kind = "result" /\ toClient'[p][i] # ResultEvent("applied"),
         \A i, j \in Rejections(p)' : i \notin DOMAIN toClient[p] /\ j \notin DOMAIN toClient[p] => i = j,
         txs' \in Seq(Txs), AnswerSeenFirst', Single',
         \A t \in DOMAIN txs : t \in DOMAIN txs' /\ txs'[t] = txs[t],
         \A t \in DOMAIN txs' \ DOMAIN txs : txs'[t].opening = openings,
         \A i \in Rejections(p)' : i \notin DOMAIN toClient[p] =>
           (Given(openReview.opening)' => Given(openReview.opening))
  PROVE  IInv'
<1> USE DEF IInv
<1>1. /\ OpenFor(p) /\ openReview.opened /\ openReview.opening = openings
      /\ openReview.opening \notin misled =>
           /\ Rates(p)' = {} /\ ~Given(openReview.opening)
           /\ client[p].active /\ ~client[p].submitted =>
                client[p].awaitingResult /\ Rejections(p) = {}
  BY RateTaken
<1>2. /\ toServer' \in [Players -> Seq(ToServerEvents)]
      /\ \A q \in Players \ {p} : toServer'[q] = toServer[q]
      /\ \A q \in Players : Len(toServer'[q]) <= MaxBacklog + 1
      /\ Served(p)'
      /\ \A i \in DOMAIN toClient[p] : toClient[p][i].kind # "open"
  BY ServedRest
<1>3. TypeOK' /\ Channelled'
  BY <1>2 DEF TypeOK, Channelled
<1>4. Numbered'
  <2>1. openings \in Nat
    BY BoundAssumption DEF TypeOK
  <2>2. \A t \in DOMAIN txs' : txs'[t].opening <= openings
    BY <2>1 DEF Numbered
  <2> QED
    BY <1>1, <2>2 DEF Numbered, OpenFor
<1>5. Rendering'
  BY DEF Rendering, OpenFor
<1>6. ASSUME NEW q \in Players \ {p} PROVE Player(q)'
  BY <1>1, <1>2, <1>6, Bystander DEF OpenFor
<1>7. \A card : Rated(card) => Rated(card)'
  BY DEF Rated
<1>8. Shown(p)'
  <2> SUFFICES ASSUME client[p].active
               PROVE  /\ OpenFor(p)' /\ openReview'.opened /\ openReview'.card = client'[p].card
                      /\ \A i \in DOMAIN toClient'[p] : Fits(toClient[p][i], client[p].card)'
                      /\ client'[p].side = "answer" => client'[p].answer = client'[p].card
                      /\ client'[p].applied => Rated(client[p].card)'
    BY DEF Shown
  <2>1. Shown(p)
    BY DEF Player
  <2>2. ASSUME NEW i \in DOMAIN toClient'[p] PROVE Fits(toClient[p][i], client[p].card)'
    <3>1. CASE i \in DOMAIN toClient[p] /\ toClient'[p][i] = toClient[p][i]
      <4>1. Fits(toClient[p][i], client[p].card)
        BY <2>1, <3>1 DEF Shown
      <4> QED
        BY <3>1, <4>1 DEF Fits, Rated
    <3>2. CASE toClient'[p][i].kind = "result" /\ toClient'[p][i] # ResultEvent("applied")
      BY <3>2 DEF Fits
    <3> QED
      BY <3>1, <3>2
  <2> QED
    BY <1>7, <2>1, <2>2 DEF Shown, OpenFor, Rated
<1>9. Coming(p)'
  <2>1. \A i \in DOMAIN toClient'[p] : toClient'[p][i].kind # "open"
    BY <1>2
  <2> QED
    BY <2>1 DEF Coming
<1>10. Once(p)'
  BY <1>1 DEF Once
<1>11. Locked(p)'
  <2> SUFFICES ASSUME openReview.opening \notin misled, client[p].active, ~client[p].submitted
               PROVE  /\ client[p].awaitingResult /\ Rates(p)' = {}
                      /\ Rejections(p)' # {} => ~Given(openReview.opening)'
                      /\ \A i, j \in Rejections(p)' : i = j
    BY DEF Locked
  <2>1. \A i \in Rejections(p)' : i \notin DOMAIN toClient[p]
    BY <1>1 DEF Rejections
  <2> QED
    BY <1>1, <2>1
<1> QED
  BY <1>3, <1>4, <1>5, <1>6, <1>2, <1>8, <1>9, <1>10, <1>11 DEF Player

\* A transaction more, of the opening that gives it.
LEMMA TransactionAdded ==
  ASSUME IInv, openReview # None, NEW tx \in Txs, tx.opening = openReview.opening,
         tx.answer = tx.card, openReview.opening \in misled \/ ~Given(openReview.opening),
         txs' = Append(txs, tx), UNCHANGED <<openReview, misled>>
  PROVE  /\ txs' \in Seq(Txs) /\ AnswerSeenFirst' /\ Single'
         /\ \A t \in DOMAIN txs : t \in DOMAIN txs' /\ txs'[t] = txs[t]
         /\ \A t \in DOMAIN txs' \ DOMAIN txs : txs'[t].opening = openReview.opening
         /\ tx.outcome = "outcome_unknown" =>
              (Given(openReview.opening)' => Given(openReview.opening))
<1> USE DEF IInv
<1>1. txs \in Seq(Txs) /\ Len(txs) \in Nat /\ DOMAIN txs = 1 .. Len(txs)
  BY LenProperties DEF TypeOK
<1>2. /\ txs' \in Seq(Txs) /\ Len(txs') = Len(txs) + 1 /\ DOMAIN txs' = 1 .. Len(txs) + 1
      /\ \A t \in 1 .. Len(txs) : txs'[t] = txs[t]
      /\ txs'[Len(txs) + 1] = tx
  BY <1>1, AppendProperties, LenProperties
<1>3. \A t \in DOMAIN txs' : \/ t \in DOMAIN txs /\ txs'[t] = txs[t]
                             \/ t = Len(txs) + 1 /\ t \notin DOMAIN txs /\ txs'[t] = tx
  BY <1>1, <1>2
<1>4. AnswerSeenFirst'
  BY <1>3 DEF AnswerSeenFirst
<1>5. Single'
  <2> SUFFICES ASSUME NEW t \in DOMAIN txs', NEW u \in DOMAIN txs', t < u,
                      txs'[t].opening = txs'[u].opening, txs'[t].outcome # "outcome_unknown"
               PROVE  txs'[t].opening \in misled
    BY DEF Single
  <2>1. t \in DOMAIN txs /\ txs'[t] = txs[t]
    BY <1>1, <1>2
  <2>2. CASE u \in DOMAIN txs /\ txs'[u] = txs[u]
    BY <2>1, <2>2 DEF Single
  <2>3. CASE txs'[u] = tx
    BY <2>1, <2>3 DEF Given
  <2> QED
    BY <1>3, <2>2, <2>3
<1>6. tx.outcome = "outcome_unknown" => (Given(openReview.opening)' => Given(openReview.opening))
  <2> DEFINE o == openReview.opening
  <2>1. ASSUME tx.outcome = "outcome_unknown", NEW t \in DOMAIN txs', txs'[t].outcome # "outcome_unknown"
        PROVE  t \in DOMAIN txs /\ txs'[t] = txs[t]
    BY <1>3, <2>1
  <2> QED
    BY <2>1 DEF Given
<1> QED
  BY <1>1, <1>2, <1>3, <1>4, <1>5, <1>6
LEMMA ServeRateInv ==
  ASSUME IInv, NEW p \in Players, ServeRate(p)
  PROVE  IInv'
<1> USE DEF IInv
<1> DEFINE request == Head(toServer[p])
           refused == ResultEvent("rejected")
           unknown == ResultEvent("outcome_unknown")
           unsent  == [Fresh(request, "outcome_unknown") EXCEPT !.sent = FALSE]
<1>1. /\ toServer[p] # <<>> /\ request.kind = "rate" /\ toServer' = Took(toServer, p)
      /\ UNCHANGED <<openReview, openings, misled, session, client>>
  BY DEF ServeRate, Arrives
<1>2. /\ OpenFor(p) /\ openReview.opening = openings /\ request \in ToServerEvents
      /\ request.answer = request.card
      /\ openReview.opening \in misled \/ ~Given(openReview.opening)
  BY <1>1, RateTaken
<1>3. \/ UNCHANGED <<txs, toClient>>
      \/ Tell(p, <<refused>>) /\ UNCHANGED txs
      \/ /\ request.card = openReview.card
         /\ txs' = Append(txs, Fresh(request, "pending")) /\ UNCHANGED toClient
      \/ /\ request.card = openReview.card
         /\ txs' = Append(txs, unsent) /\ Tell(p, <<unknown, refused>>)
  <2>1. CASE request.card # openReview.card
    BY <1>2, <2>1 DEF ServeRate
  <2>2. CASE request.card = openReview.card
    <3>1. RequestRating(p, request)
      BY <1>2, <2>2 DEF ServeRate
    <3> QED
      BY <2>2, <3>1 DEF RequestRating
  <2> QED
    BY <2>1, <2>2
<1>4. /\ refused \in ToClientEvents /\ unknown \in ToClientEvents
      /\ refused.kind = "result" /\ unknown.kind = "result"
      /\ refused # ResultEvent("applied") /\ unknown # ResultEvent("applied") /\ unknown # refused
  <2>1. /\ refused.state = "rejected" /\ unknown.state = "outcome_unknown"
        /\ ResultEvent("applied").state = "applied" /\ refused.kind = "result"
        /\ unknown.kind = "result"
    BY Kinds
  <2> QED
    BY <2>1, ClientEvents DEF Settled
<1>5. /\ openReview # None /\ openReview.card \in Cards /\ openReview.opening \in Openings
      /\ request.rating \in Ratings /\ request.answer \in Cards \cup {None}
  BY <1>1, <1>2, OpenFacts, ServerEvents
<1>6. ASSUME NEW outcome \in Outcomes
      PROVE  LET tx == Fresh(request, outcome)
             IN /\ tx \in Txs /\ tx.opening = openReview.opening /\ tx.card = openReview.card
                /\ tx.answer = request.answer /\ tx.outcome = outcome
  BY <1>5 DEF Fresh, Txs
<1>7. /\ unsent \in Txs /\ unsent.opening = openReview.opening /\ unsent.card = openReview.card
      /\ unsent.answer = request.answer /\ unsent.outcome = "outcome_unknown"
  BY <1>5 DEF Fresh, Txs, Outcomes
<1>8. /\ txs \in Seq(Txs) /\ toClient \in [Players -> Seq(ToClientEvents)]
      /\ toClient[p] \in Seq(ToClientEvents) /\ AnswerSeenFirst /\ Single
  BY DEF TypeOK, Channelled
<1> HIDE DEF refused, unknown, unsent
<1>9. CASE UNCHANGED txs /\ (UNCHANGED toClient \/ Tell(p, <<refused>>))
  <2>1. /\ txs' \in Seq(Txs) /\ AnswerSeenFirst' /\ Single'
        /\ \A t \in DOMAIN txs : t \in DOMAIN txs' /\ txs'[t] = txs[t]
        /\ \A t \in DOMAIN txs' \ DOMAIN txs : txs'[t].opening = openings
        /\ Given(openReview.opening)' => Given(openReview.opening)
    BY <1>1, <1>8, <1>9 DEF AnswerSeenFirst, Single, Given
  <2>2. CASE UNCHANGED toClient
    <3>1. /\ toClient' \in [Players -> Seq(ToClientEvents)]
          /\ \A q \in Players \ {p} : toClient'[q] = toClient[q]
          /\ \A i \in DOMAIN toClient'[p] : i \in DOMAIN toClient[p] /\ toClient'[p][i] = toClient[p][i]
      BY <1>8, <2>2
    <3>2. \A i \in Rejections(p)' : i \in DOMAIN toClient[p]
      BY <3>1 DEF Rejections
    <3> QED
      BY <1>1, <2>1, <3>1, <3>2, RateServed
  <2>3. CASE Tell(p, <<refused>>)
    <3>1. /\ toClient' \in [Players -> Seq(ToClientEvents)]
          /\ \A q \in Players \ {p} : toClient'[q] = toClient[q]
          /\ \A i \in DOMAIN toClient'[p] :
               \/ i \in DOMAIN toClient[p] /\ toClient'[p][i] = toClient[p][i]
               \/ i = Len(toClient[p]) + 1 /\ toClient'[p][i] = refused
          /\ \A i \in DOMAIN toClient[p] : i \in 1 .. Len(toClient[p])
          /\ Len(toClient[p]) \in Nat
      BY <1>4, <2>3, ToldOne
    <3>2. \A i \in DOMAIN toClient'[p] :
            \/ i \in DOMAIN toClient[p] /\ toClient'[p][i] = toClient[p][i]
            \/ /\ i \notin DOMAIN toClient[p] /\ i = Len(toClient[p]) + 1
               /\ toClient'[p][i].kind = "result" /\ toClient'[p][i] # ResultEvent("applied")
      BY <1>4, <3>1
    <3>3. \A i, j \in Rejections(p)' : i \notin DOMAIN toClient[p] /\ j \notin DOMAIN toClient[p] => i = j
      BY <3>2 DEF Rejections
    <3> QED
      BY <1>1, <2>1, <3>1, <3>2, <3>3, RateServed
  <2> QED
    BY <1>9, <2>2, <2>3
<1>10. CASE /\ request.card = openReview.card
            /\ txs' = Append(txs, Fresh(request, "pending")) /\ UNCHANGED toClient
  <2>1. PICK tx \in Txs : /\ txs' = Append(txs, tx) /\ tx.opening = openReview.opening
                          /\ tx.answer = tx.card
    BY <1>2, <1>6, <1>10 DEF Outcomes
  <2>2. /\ txs' \in Seq(Txs) /\ AnswerSeenFirst' /\ Single'
        /\ \A t \in DOMAIN txs : t \in DOMAIN txs' /\ txs'[t] = txs[t]
        /\ \A t \in DOMAIN txs' \ DOMAIN txs : txs'[t].opening = openings
    BY <1>1, <1>2, <1>5, <2>1, TransactionAdded
  <2>3. /\ toClient' \in [Players -> Seq(ToClientEvents)]
        /\ \A q \in Players \ {p} : toClient'[q] = toClient[q]
        /\ \A i \in DOMAIN toClient'[p] : i \in DOMAIN toClient[p] /\ toClient'[p][i] = toClient[p][i]
    BY <1>8, <1>10
  <2>4. \A i \in Rejections(p)' : i \in DOMAIN toClient[p]
    BY <2>3 DEF Rejections
  <2> QED
    BY <1>1, <2>2, <2>3, <2>4, RateServed
<1>11. CASE /\ request.card = openReview.card
            /\ txs' = Append(txs, unsent) /\ Tell(p, <<unknown, refused>>)
  <2>1. PICK tx \in Txs : /\ txs' = Append(txs, tx) /\ tx.opening = openReview.opening
                          /\ tx.answer = tx.card /\ tx.outcome = "outcome_unknown"
    BY <1>2, <1>7, <1>11
  <2>2. /\ txs' \in Seq(Txs) /\ AnswerSeenFirst' /\ Single'
        /\ \A t \in DOMAIN txs : t \in DOMAIN txs' /\ txs'[t] = txs[t]
        /\ \A t \in DOMAIN txs' \ DOMAIN txs : txs'[t].opening = openings
        /\ Given(openReview.opening)' => Given(openReview.opening)
    BY <1>1, <1>2, <1>5, <2>1, TransactionAdded
  <2>3. /\ toClient' \in [Players -> Seq(ToClientEvents)]
        /\ \A q \in Players \ {p} : toClient'[q] = toClient[q]
        /\ toClient'[p] = toClient[p] \o <<unknown, refused>>
        /\ Len(toClient[p]) \in Nat /\ DOMAIN toClient[p] = 1 .. Len(toClient[p])
    <3>1. <<unknown, refused>> \in Seq(ToClientEvents)
      BY <1>4
    <3>2. toClient[p] \o <<unknown, refused>> \in Seq(ToClientEvents)
      BY <1>8, <3>1, ConcatProperties
    <3>3. Len(toClient[p]) \in Nat /\ DOMAIN toClient[p] = 1 .. Len(toClient[p])
      BY <1>8, LenProperties
    <3> QED
      BY <1>8, <1>11, <3>2, <3>3 DEF Tell
  <2>4. \A i \in DOMAIN toClient'[p] :
          \/ i \in DOMAIN toClient[p] /\ toClient'[p][i] = toClient[p][i]
          \/ i \notin DOMAIN toClient[p] /\ i = Len(toClient[p]) + 1 /\ toClient'[p][i] = unknown
          \/ i \notin DOMAIN toClient[p] /\ i = Len(toClient[p]) + 2 /\ toClient'[p][i] = refused
    BY <2>3
  <2>5. \A i \in DOMAIN toClient'[p] :
          \/ i \in DOMAIN toClient[p] /\ toClient'[p][i] = toClient[p][i]
          \/ /\ i \notin DOMAIN toClient[p]
             /\ toClient'[p][i].kind = "result" /\ toClient'[p][i] # ResultEvent("applied")
    BY <1>4, <2>4
  <2>6. \A i, j \in Rejections(p)' : i \notin DOMAIN toClient[p] /\ j \notin DOMAIN toClient[p] => i = j
    BY <1>4, <2>4 DEF Rejections, refused
  <2> QED
    BY <1>1, <2>2, <2>3, <2>5, <2>6, RateServed
<1> QED
  BY <1>3, <1>9, <1>10, <1>11
\* What becomes of a transaction changes neither what it is for nor, once it is
\* unknown, that; a rating that Anki applied stays applied.
LEMMA TransactionChanged ==
  ASSUME IInv, NEW t \in DOMAIN txs, NEW tx \in Txs, txs' = [txs EXCEPT ![t] = tx],
         tx.opening = txs[t].opening, tx.card = txs[t].card, tx.answer = txs[t].answer,
         tx.outcome # "outcome_unknown" => txs[t].outcome # "outcome_unknown",
         txs[t].inAnki => tx.inAnki,
         UNCHANGED <<openReview, openings, misled>>
  PROVE  /\ txs' \in Seq(Txs) /\ AnswerSeenFirst' /\ Single' /\ Numbered'
         /\ \A card : Rated(card) => Rated(card)'
         /\ \A o : (Given(o)' => Given(o)) /\ (Unrated(o) => Unrated(o)')
<1> USE DEF IInv
<1>1. txs \in Seq(Txs) /\ DOMAIN txs' = DOMAIN txs
  BY DEF TypeOK
<1>2. /\ txs'[t] = tx
      /\ \A u \in DOMAIN txs : u # t => txs'[u] = txs[u]
  OBVIOUS
<1>3. \A u \in DOMAIN txs :
        /\ txs'[u].opening = txs[u].opening /\ txs'[u].card = txs[u].card
        /\ txs'[u].answer = txs[u].answer
        /\ txs'[u].outcome # "outcome_unknown" => txs[u].outcome # "outcome_unknown"
        /\ txs[u].inAnki => txs'[u].inAnki
  BY <1>2
<1>4. txs' \in Seq(Txs)
  BY <1>1
<1>5. AnswerSeenFirst' /\ Numbered'
  BY <1>1, <1>3 DEF AnswerSeenFirst, Numbered, Unrated
<1>6. Single'
  BY <1>1, <1>3 DEF Single
<1>7. \A card : Rated(card) => Rated(card)'
  BY <1>1, <1>3 DEF Rated
<1>8. \A o : (Given(o)' => Given(o)) /\ (Unrated(o) => Unrated(o)')
  BY <1>1, <1>3 DEF Given, Unrated
<1> QED
  BY <1>4, <1>5, <1>6, <1>7, <1>8

LEMMA CompanionRatesInv ==
  ASSUME IInv, NEW t \in DOMAIN txs, CompanionRates(t)
  PROVE  IInv'
<1> USE DEF IInv
<1>1. /\ txs' = [txs EXCEPT ![t] = [txs[t] EXCEPT !.inAnki = TRUE]]
      /\ UNCHANGED <<openReview, openings, misled, session, client, toClient, toServer>>
  BY DEF CompanionRates, channels
<1> DEFINE tx == [txs[t] EXCEPT !.inAnki = TRUE]
<1>2. txs[t] \in Txs
  BY ElementOfSeq, LenProperties DEF TypeOK
<1>3. /\ tx \in Txs /\ tx.opening = txs[t].opening /\ tx.card = txs[t].card
      /\ tx.answer = txs[t].answer /\ tx.outcome = txs[t].outcome /\ tx.inAnki
  BY <1>2 DEF Txs
<1> HIDE DEF tx
<1>4. /\ txs' \in Seq(Txs) /\ AnswerSeenFirst' /\ Single' /\ Numbered'
      /\ \A card : Rated(card) => Rated(card)'
      /\ \A o : (Given(o)' => Given(o)) /\ (Unrated(o) => Unrated(o)')
  BY <1>1, <1>3, TransactionChanged DEF tx
<1>5. TypeOK' /\ Channelled' /\ Rendering'
  BY <1>1, <1>4 DEF TypeOK, Channelled, Rendering, OpenFor
<1>6. ASSUME NEW q \in Players PROVE Player(q)'
  BY <1>1, <1>4, SameOpening
<1> QED
  BY <1>4, <1>5, <1>6

LEMMA SettleReviewInv ==
  ASSUME IInv, NEW t \in DOMAIN txs, NEW outcome \in Settled, SettleReview(t, outcome),
         txs[t].outcome = "pending", outcome = "applied" => txs[t].inAnki
  PROVE  IInv'
<1> USE DEF IInv
<1>1. /\ txs' = [txs EXCEPT ![t] = [txs[t] EXCEPT !.outcome = outcome]]
      /\ UNCHANGED <<openReview, openings, misled, session, client, toServer>>
  BY DEF SettleReview
<1> DEFINE tx == [txs[t] EXCEPT !.outcome = outcome]
           e  == ResultEvent(outcome)
<1>2. txs[t] \in Txs
  BY ElementOfSeq, LenProperties DEF TypeOK
<1>3. /\ tx \in Txs /\ tx.opening = txs[t].opening /\ tx.card = txs[t].card
      /\ tx.answer = txs[t].answer /\ tx.inAnki = txs[t].inAnki
  BY <1>2 DEF Txs, Settled, Outcomes
<1>4. txs[t].outcome # "outcome_unknown"
  OBVIOUS
<1> HIDE DEF tx
<1>5. /\ txs' \in Seq(Txs) /\ AnswerSeenFirst' /\ Single' /\ Numbered'
      /\ \A card : Rated(card) => Rated(card)'
      /\ \A o : (Given(o)' => Given(o)) /\ (Unrated(o) => Unrated(o)')
  BY <1>1, <1>3, <1>4, TransactionChanged DEF tx
<1>6. TypeOK' /\ Rendering'
  BY <1>1, <1>5 DEF TypeOK, Rendering, OpenFor
<1>7. CASE UNCHANGED toClient
  <2>1. ASSUME NEW q \in Players PROVE Player(q)'
    BY <1>1, <1>5, <1>7, SameOpening
  <2>2. Channelled'
    BY <1>1, <1>7 DEF Channelled
  <2> QED
    BY <1>5, <1>6, <2>1, <2>2
<1>8. CASE /\ openReview # None /\ openReview.card = txs[t].card
           /\ Tell(openReview.player, <<e>>)
  <2> PICK p \in Players : p = openReview.player
    BY <1>8, OpenFacts
  <2>1. OpenFor(p)
    BY <1>8 DEF OpenFor
  <2>2. e \in ToClientEvents /\ e.kind = "result" /\ e.state = outcome
    BY ClientEvents, Kinds
  <2>3. e # ResultEvent("rejected") /\ (e = ResultEvent("applied") => outcome = "applied")
    BY <2>2, Kinds DEF Settled
  <2>4. outcome = "applied" => Rated(openReview.card)
    BY <1>8 DEF Rated
  <2> HIDE DEF e
  <2>5. /\ toClient' \in [Players -> Seq(ToClientEvents)]
        /\ \A q \in Players \ {p} : toClient'[q] = toClient[q]
        /\ \A i \in DOMAIN toClient'[p] :
             \/ i \in DOMAIN toClient[p] /\ toClient'[p][i] = toClient[p][i]
             \/ i = Len(toClient[p]) + 1 /\ toClient'[p][i] = e
    BY <1>8, <2>1, <2>2, ToldOne
  <2>6. Channelled'
    BY <1>1, <2>5 DEF Channelled
  <2>7. ASSUME NEW q \in Players \ {p} PROVE Player(q)'
    BY <1>1, <2>1, <2>5, Bystander DEF OpenFor
  <2>8. OpenFor(p)' /\ Player(p)
    BY <1>1, <2>1 DEF OpenFor
  <2>9. Served(p)'
    BY <1>1, <2>8 DEF Player, Served
  <2>10. Rates(p)' = Rates(p) /\ Rejections(p)' \subseteq Rejections(p)
    BY <1>1, <2>3, <2>5 DEF Rates, Rejections
  <2>11. Given(openReview.opening)' => Given(openReview.opening)
    BY <1>1, <1>5 DEF Given
  <2>12. Once(p)'
    BY <1>1, <2>1, <2>8, <2>10, <2>11 DEF Player, Once
  <2>13. Locked(p)'
    BY <1>1, <2>1, <2>8, <2>10, <2>11 DEF Player, Locked
  <2>14. ASSUME NEW i \in DOMAIN toClient'[p],
                i \in DOMAIN toClient[p] => Fits(toClient[p][i], openReview.card)
         PROVE  Fits(toClient[p][i], openReview.card)'
    <3>1. CASE i \in DOMAIN toClient[p] /\ toClient'[p][i] = toClient[p][i]
      BY <1>1, <1>5, <2>14, <3>1 DEF Fits, Rated
    <3>2. CASE toClient'[p][i] = e
      BY <1>1, <1>5, <2>2, <2>3, <2>4, <3>2 DEF Fits, Rated
    <3> QED
      BY <2>5, <3>1, <3>2
  <2>15. Shown(p)'
    <3> SUFFICES ASSUME client[p].active
                 PROVE  /\ openReview'.opened /\ openReview'.card = client'[p].card
                        /\ \A i \in DOMAIN toClient'[p] : Fits(toClient[p][i], client[p].card)'
                        /\ client'[p].side = "answer" => client'[p].answer = client'[p].card
                        /\ client'[p].applied => Rated(client[p].card)'
      BY <1>1, <2>8 DEF Shown
    <3>1. Shown(p) /\ openReview.card = client[p].card
      BY <2>8 DEF Player, Shown
    <3>2. \A i \in DOMAIN toClient'[p] : Fits(toClient[p][i], openReview.card)'
      BY <2>14, <3>1 DEF Shown
    <3>3. \A i \in DOMAIN toClient'[p] : Fits(toClient[p][i], client[p].card)'
      BY <1>1, <3>1, <3>2 DEF Fits, Rated
    <3> QED
      BY <1>1, <1>5, <3>1, <3>3 DEF Shown, Rated
  <2>16. Coming(p)'
    <3> SUFFICES ASSUME NEW i \in DOMAIN toClient'[p], toClient'[p][i].kind = "open"
                 PROVE  /\ openReview'.opened /\ openReview'.card = toClient'[p][i].card
                        /\ ~client'[p].active /\ toServer'[p] = <<>>
                        /\ Unrated(openReview.opening)'
                        /\ \A j \in DOMAIN toClient'[p] : j > i =>
                             /\ Fits(toClient[p][j], openReview.card)'
                             /\ toClient'[p][j] = ResultEvent("rejected") =>
                                  openReview'.opening \in misled'
      BY <2>8 DEF Coming
    <3>1. i \in DOMAIN toClient[p] /\ toClient'[p][i] = toClient[p][i]
      BY <2>2, <2>5
    <3>2. /\ openReview.opened /\ openReview.card = toClient[p][i].card /\ ~client[p].active
          /\ toServer[p] = <<>> /\ Unrated(openReview.opening)
          /\ \A j \in DOMAIN toClient[p] : j > i =>
               /\ Fits(toClient[p][j], openReview.card)
               /\ toClient[p][j] = ResultEvent("rejected") => openReview.opening \in misled
      BY <2>8, <3>1 DEF Player, Coming
    <3>3. ASSUME NEW j \in DOMAIN toClient'[p], j > i
          PROVE  /\ Fits(toClient[p][j], openReview.card)'
                 /\ toClient'[p][j] = ResultEvent("rejected") => openReview'.opening \in misled'
      <4>1. Fits(toClient[p][j], openReview.card)'
        BY <2>14, <3>2, <3>3
      <4>2. toClient'[p][j] = ResultEvent("rejected") => openReview'.opening \in misled'
        BY <1>1, <2>3, <2>5, <3>2, <3>3
      <4> QED
        BY <4>1, <4>2
    <3>4. Unrated(openReview.opening)'
      BY <1>1, <1>5, <3>2 DEF Unrated
    <3> QED
      BY <1>1, <3>1, <3>2, <3>3, <3>4
  <2> QED
    BY <1>5, <1>6, <2>6, <2>7, <2>9, <2>12, <2>13, <2>15, <2>16 DEF Player
<1> QED
  BY <1>7, <1>8 DEF SettleReview

LEMMA SettledInv ==
  ASSUME IInv, NEW t \in DOMAIN txs, ReviewCallback(t) \/ ReviewTimeout(t)
  PROVE  IInv'
<1>1. /\ txs[t].outcome = "pending"
      /\ \/ txs[t].inAnki /\ SettleReview(t, "applied")
         \/ SettleReview(t, "outcome_unknown")
  BY DEF ReviewCallback, ReviewTimeout
<1>2. "applied" \in Settled /\ "outcome_unknown" \in Settled
  BY DEF Settled
<1> QED
  BY <1>1, <1>2, SettleReviewInv
-----------------------------------------------------------------------------
(* The invariant is inductive.                                             *)

LEMMA InitInv ==
  ASSUME Init
  PROVE  IInv
<1>1. /\ openReview = None /\ openings = 0 /\ misled = {} /\ session = {} /\ txs = <<>>
      /\ client = [p \in Players |-> Closed]
      /\ toClient = [p \in Players |-> <<>>] /\ toServer = [p \in Players |-> <<>>]
  BY DEF Init
<1>2. DOMAIN txs = {} /\ txs \in Seq(Txs)
  BY <1>1
<1>3. \A p \in Players : /\ client[p] = Closed /\ toClient[p] = <<>> /\ toServer[p] = <<>>
                         /\ DOMAIN toClient[p] = {} /\ DOMAIN toServer[p] = {} /\ Len(toServer[p]) = 0
  BY <1>1
<1>4. Channelled
  BY <1>1 DEF Channelled
<1>5. client \in [Players -> Reviews]
  BY <1>1, ReviewTypes
<1>6. TypeOK
  <2>1. openings \in 0 .. MaxOpenings
    BY <1>1, BoundAssumption
  <2>2. \A p \in Players : Len(toServer[p]) <= MaxBacklog + 1
    BY <1>3, BoundAssumption
  <2> QED
    BY <1>1, <1>2, <1>5, <2>1, <2>2 DEF TypeOK
<1>7. Numbered /\ Rendering /\ AnswerSeenFirst /\ Single
  BY <1>1, <1>2 DEF Numbered, Rendering, AnswerSeenFirst, Single
<1>8. ASSUME NEW p \in Players PROVE Player(p)
  <2>1. ~client[p].active /\ ~OpenFor(p)
    BY <1>1, <1>3, ReviewTypes DEF OpenFor
  <2> QED
    BY <1>3, <2>1 DEF Player, Served, Shown, Coming, Once, Locked
<1> QED
  BY <1>4, <1>6, <1>7, <1>8 DEF IInv

LEMMA StutterInv ==
  ASSUME IInv, UNCHANGED vars
  PROVE  IInv'
<1> USE DEF IInv
<1>1. UNCHANGED <<openReview, openings, misled, session, txs, client, toClient, toServer>>
  BY DEF vars
<1>2. TypeOK' /\ Channelled' /\ Numbered' /\ Rendering' /\ AnswerSeenFirst' /\ Single'
  BY <1>1 DEF TypeOK, Channelled, Numbered, Unrated, Rendering, OpenFor, AnswerSeenFirst, Single
<1>3. ASSUME NEW q \in Players PROVE Player(q)'
  BY <1>1, SameOpening DEF Rated, Given, Unrated
<1> QED
  BY <1>2, <1>3

\* What the server, the clients and the two channels agree on, between any two
\* handlers of main.lua, companion.lua and review_mode.lua.
THEOREM Inductive == Spec => []IInv
<1>1. ASSUME IInv, [Next]_vars PROVE IInv'
  <2>1. CASE RenderTimeout
    BY <1>1, <2>1, RenderTimeoutInv
  <2>2. CASE RenderIssued
    BY <1>1, <2>2, RenderIssuedInv
  <2>3. ASSUME NEW p \in Players, NEW card \in Cards, OpenReviewModeFor(p, card) PROVE IInv'
    BY <1>1, <2>3, OpenInv
  <2>4. ASSUME NEW p \in Players, ServePage(p) PROVE IInv'
    BY <1>1, <2>4, ServePageInv
  <2>5. ASSUME NEW p \in Players, ServeClosed(p) PROVE IInv'
    BY <1>1, <2>5, ServeClosedInv
  <2>6. ASSUME NEW p \in Players, ServeRate(p) PROVE IInv'
    BY <1>1, <2>6, ServeRateInv
  <2>7. ASSUME NEW p \in Players, HearOpen(p) PROVE IInv'
    BY <1>1, <2>7, HearOpenInv
  <2>8. ASSUME NEW p \in Players, HearSide(p) PROVE IInv'
    BY <1>1, <2>8, HearSideInv
  <2>9. ASSUME NEW p \in Players, HearResult(p) PROVE IInv'
    BY <1>1, <2>9, HearResultInv
  <2>10. ASSUME NEW p \in Players, AskPage(p) PROVE IInv'
    BY <1>1, <2>10, AskPageInv
  <2>11. ASSUME NEW p \in Players, Dismiss(p) \/ Revoked(p) PROVE IInv'
    BY <1>1, <2>11, DismissInv
  <2>12. ASSUME NEW p \in Players, Quit(p) PROVE IInv'
    BY <1>1, <2>12, QuitInv
  <2>13. ASSUME NEW p \in Players, NEW rating \in Ratings, ClickRating(p, rating) PROVE IInv'
    BY <1>1, <2>13, ClickRatingInv
  <2>14. ASSUME NEW t \in DOMAIN txs, CompanionRates(t) PROVE IInv'
    BY <1>1, <2>14, CompanionRatesInv
  <2>15. ASSUME NEW t \in DOMAIN txs, ReviewCallback(t) \/ ReviewTimeout(t) PROVE IInv'
    BY <1>1, <2>15, SettledInv
  <2>16. CASE UNCHANGED vars
    BY <1>1, <2>16, StutterInv
  <2> QED
    BY <1>1, <2>1, <2>2, <2>3, <2>4, <2>5, <2>6, <2>7, <2>8, <2>9, <2>10, <2>11, <2>12,
       <2>13, <2>14, <2>15, <2>16 DEF Next
<1> QED
  BY <1>1, InitInv, PTL DEF Spec

-----------------------------------------------------------------------------
(* The properties.                                                         *)

\* The shape of the state: openReview, the gateway's tables and every client's
\* Review table, and how many requests of a client may be under way.
THEOREM TypeCorrect == Spec => []TypeOK
<1>1. IInv => TypeOK
  BY DEF IInv
<1> QED
  BY <1>1, Inductive, PTL

\* A player who has a card on screen is the one main.lua's openReview names, and
\* it names that card: whatever is under way, and whoever quits, closes or opens.
THEOREM OneReviewOpen == Spec => []ExclusiveReviewMode
<1>1. IInv => ExclusiveReviewMode
  BY DEF IInv, Player, Shown, ExclusiveReviewMode
<1> QED
  BY <1>1, Inductive, PTL

\* Every rating sent to the companion is for a card whose own answer the player
\* had on screen when he clicked (REVIEW_SIDE_EVENT and handleReviewClick).
THEOREM RatedWhatWasSeen == Spec => []AnswerSeenFirst
<1>1. IInv => AnswerSeenFirst
  BY DEF IInv
<1> QED
  BY <1>1, Inductive, PTL

\* A client that shows "applied" shows a card that Anki rated: settleReview tells
\* a result only to whoever reviews the card, and only the answer makes it so.
THEOREM ShownAppliedIsApplied == Spec => []AppliedIsTrue
<1>1. IInv => AppliedIsTrue
  BY DEF IInv, Player, Shown, Rated, AppliedIsTrue
<1> QED
  BY <1>1, Inductive, PTL

\* One opening of a card yields at most one rating known to be applied, and none
\* after it (handleReviewClick), unless a failed render misled the client.
THEOREM RatedAtMostOnce == Spec => []OneAcceptedRating
<1>1. IInv => OneAcceptedRating
  BY DEF IInv, Single, OneAcceptedRating
<1> QED
  BY <1>1, Inductive, PTL

=============================================================================
