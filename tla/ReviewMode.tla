---------------------------- MODULE ReviewMode -----------------------------
(***************************************************************************)
(* Review Mode between the game clients, the MTA server and the companion. *)
(*                                                                         *)
(*   client/review_mode.lua   one card on one player's screen              *)
(*   server/main.lua          openReview: the one card under review        *)
(*   server/companion.lua     the Gateway: renders, ratings, timeouts      *)
(*                                                                         *)
(* The server and each client exchange events over two channels that keep  *)
(* their order; the server reaches the companion by HTTP requests that may *)
(* be answered, time out, or be answered after the timeout. The companion  *)
(* itself is abstract: a rating that arrives is applied or refused (its    *)
(* own model is ReviewCoordinator). What a page looks like, the layout,    *)
(* focus, audio and protection settings are left out.                      *)
(***************************************************************************)
EXTENDS Naturals, Sequences, FiniteSets

CONSTANTS
  Players,      \* players with the study right
  Cards,        \* Anki Card Identities that Spatial Links point at
  Ratings,      \* the buttons
  MaxOpenings,  \* bound: times a card is opened
  MaxRatings,   \* bound: rating clicks
  MaxBacklog,   \* bound: events under way in one direction, a last close aside
  None          \* Lua's false

ASSUME BoundAssumption == /\ MaxOpenings \in Nat /\ MaxRatings \in Nat
                          /\ MaxBacklog \in Nat \ {0}

VARIABLES
  openReview,  \* main.lua: openReview
  openings,    \* cards opened so far
  misled,      \* openings in which a failed render was told as a rejected rating
  session,     \* Gateway.sessionPending: the renders under way
  txs,         \* Gateway.reviewPending and reviewOutcomes, by order of creation
  client,      \* each player's Review table
  toClient,    \* events from the server to a player, in order
  toServer     \* events from a player to the server, in order

vars == <<openReview, openings, misled, session, txs, client, toClient, toServer>>
channels == <<toClient, toServer>>

-----------------------------------------------------------------------------
(* State.                                                                  *)

Sides == {"question", "answer"}

Openings == 1 .. MaxOpenings
OpenReviews == [player : Players, card : Cards, opened : BOOLEAN, opening : Openings]

ASSUME NoneAssumption == None \notin Players \cup Cards \cup OpenReviews

Renders == [player : Players, card : Cards, side : Sides]

\* answer: the card whose answer the player had on screen when he clicked.
\* inAnki: the companion has applied the rating, unknown to the gateway.
Outcomes == {"pending", "applied", "outcome_unknown"}
Txs == [card : Cards, rating : Ratings, opening : Openings, answer : Cards \cup {None},
        sent : BOOLEAN, inAnki : BOOLEAN, outcome : Outcomes]

Closed == [active |-> FALSE, card |-> None, side |-> "question", submitted |-> FALSE,
           applied |-> FALSE, awaitingResult |-> FALSE, answer |-> None]
Opened(card) == [Closed EXCEPT !.active = TRUE, !.card = card]
Reviews == [active : BOOLEAN, card : Cards \cup {None}, side : Sides, submitted : BOOLEAN,
            applied : BOOLEAN, awaitingResult : BOOLEAN, answer : Cards \cup {None}]

OpenEvent(card)   == [kind |-> "open", card |-> card]
SideEvent(card, side) == [kind |-> "side", card |-> card, side |-> side]
ResultEvent(state) == [kind |-> "result", state |-> state]
PageRequest(card, side) == [kind |-> "page", card |-> card, side |-> side]
RateRequest(card, rating, answer) ==
  [kind |-> "rate", card |-> card, rating |-> rating, answer |-> answer]
ClosedEvent == [kind |-> "closed"]

Settled == {"applied", "outcome_unknown"}
Pending == {t \in DOMAIN txs : txs[t].outcome = "pending"}
OpenFor(p) == openReview # None /\ openReview.player = p

\* triggerClientEvent and triggerServerEvent.
Tell(p, events)  == toClient' = [toClient EXCEPT ![p] = @ \o events]
Ask(p, event)    == toServer' = [toServer EXCEPT ![p] = Append(@, event)]
Took(channel, p) == [channel EXCEPT ![p] = Tail(@)]
Arrives(channel, p, kind) == channel[p] # <<>> /\ Head(channel[p]).kind = kind

TypeOK ==
  /\ openReview \in OpenReviews \cup {None}
  /\ openings \in 0 .. MaxOpenings
  /\ misled \subseteq Openings
  /\ session \subseteq Renders
  /\ txs \in Seq(Txs)
  /\ client \in [Players -> Reviews]
  /\ \A p \in Players : Len(toServer[p]) <= MaxBacklog + 1

Init ==
  /\ openReview = None
  /\ openings = 0
  /\ misled = {}
  /\ session = {}
  /\ txs = <<>>
  /\ client = [p \in Players |-> Closed]
  /\ toClient = [p \in Players |-> <<>>]
  /\ toServer = [p \in Players |-> <<>>]

-----------------------------------------------------------------------------
(* Renders. A render shares the one slot for session requests: it is       *)
(* refused while the slot is taken. It is refused as well when another     *)
(* session request (a start, a close of the last render) holds the slot or *)
(* no connection is configured, which is left open here.                   *)

RequestRenderAnyTime(p, card, side) ==
  session' = session \cup {[player |-> p, card |-> card, side |-> side]}

RequestRender(p, card, side) ==
  /\ session = {}
  /\ session' = {[player |-> p, card |-> card, side |-> side]}

\* sessionTimeout: a render that times out raises no render event.
RenderTimeout ==
  /\ \E render \in session : session' = session \ {render}
  /\ UNCHANGED <<openReview, openings, misled, txs, client, channels>>

-----------------------------------------------------------------------------
(* Opening a card and showing its sides.                                   *)

\* A refused render withdraws the opening at once: nothing changes.
OpenReviewModeFor(p, card) ==
  /\ openReview = None
  /\ openings < MaxOpenings
  /\ openings' = openings + 1
  /\ RequestRender(p, card, "question")
  /\ openReview' = [player |-> p, card |-> card, opened |-> FALSE, opening |-> openings + 1]
  /\ UNCHANGED <<misled, txs, client, channels>>

\* The render came back: the first opens Review Mode, a later one turns the page.
Rendered(p, card, side) ==
  /\ openReview' = [openReview EXCEPT !.opened = TRUE]
  /\ Tell(p, IF openReview.opened THEN <<SideEvent(card, side)>> ELSE <<OpenEvent(openReview.card)>>)
  /\ UNCHANGED misled

RenderFailedClosing(p) ==
  /\ Tell(p, <<ResultEvent("rejected")>>)
  /\ misled' = misled \cup {openReview.opening}
  /\ openReview' = None

\* The failure is told in the event that tells a rating's result.
RenderFailed(p) ==
  /\ Tell(p, <<ResultEvent("rejected")>>)
  /\ misled' = misled \cup {openReview.opening}
  /\ UNCHANGED openReview

RenderIssued ==
  /\ \E render \in session :
       LET p == render.player
       IN /\ session' = session \ {render}
          /\ IF OpenFor(p)
             THEN /\ Len(toClient[p]) < MaxBacklog
                  /\ Rendered(p, render.card, render.side) \/ RenderFailed(p)
             ELSE UNCHANGED <<openReview, misled, toClient>>
  /\ UNCHANGED <<openings, txs, client, toServer>>

\* Reveal, the first page and a return to the card: a fresh capability. The
\* server ignores a request that comes while the slot is taken.
ServePage(p) ==
  /\ Arrives(toServer, p, "page")
  /\ toServer' = Took(toServer, p)
  /\ LET request == Head(toServer[p])
     IN \/ /\ OpenFor(p) /\ request.card = openReview.card
           /\ RequestRender(p, openReview.card, request.side)
        \/ UNCHANGED session
  /\ UNCHANGED <<openReview, openings, misled, txs, client, toClient>>

\* The close of the render is a session request like any other.
ServeClosed(p) ==
  /\ Arrives(toServer, p, "closed")
  /\ toServer' = Took(toServer, p)
  /\ IF OpenFor(p)
     THEN openReview' = None
     ELSE UNCHANGED openReview
  /\ UNCHANGED <<openings, misled, session, txs, client, toClient>>

-----------------------------------------------------------------------------
(* Rating.                                                                 *)

SameRating(tx, card, rating) == tx.card = card /\ tx.rating = rating

\* A second click while the rating is in flight is the same request.
SamePending(card, rating) == \E t \in Pending : SameRating(txs[t], card, rating)

\* And so is one for a card and a rating that have been settled before.
Repeated(card, rating) ==
  \E t \in DOMAIN txs : txs[t].outcome \in Settled /\ SameRating(txs[t], card, rating)

Fresh(request, outcome) ==
  [card |-> openReview.card, rating |-> request.rating, opening |-> openReview.opening,
   answer |-> request.answer, sent |-> TRUE, inAnki |-> FALSE, outcome |-> outcome]

RequestRating(p, request) ==
  LET card == openReview.card
      Refused == Tell(p, <<ResultEvent("rejected")>>) /\ UNCHANGED txs
  IN CASE SamePending(card, request.rating) -> UNCHANGED <<txs, toClient>>
       [] ~SamePending(card, request.rating) /\ Pending # {} -> Refused
       [] Pending = {} /\ Repeated(card, request.rating) -> UNCHANGED <<txs, toClient>>
       [] OTHER ->
            \/ txs' = Append(txs, Fresh(request, "pending")) /\ UNCHANGED toClient
            \* No connection is configured.
            \/ Refused
            \* fetchRemote refuses: the transaction settles, then the request fails.
            \/ /\ txs' = Append(txs, [Fresh(request, "outcome_unknown") EXCEPT !.sent = FALSE])
               /\ Tell(p, <<ResultEvent("outcome_unknown"), ResultEvent("rejected")>>)

ServeRate(p) ==
  /\ Arrives(toServer, p, "rate")
  /\ toServer' = Took(toServer, p)
  /\ LET request == Head(toServer[p])
     IN IF ~OpenFor(p) THEN UNCHANGED <<txs, toClient>>
        ELSE IF request.card # openReview.card
             THEN Tell(p, <<ResultEvent("rejected")>>) /\ UNCHANGED txs
             ELSE RequestRating(p, request)
  /\ UNCHANGED <<openReview, openings, misled, session, client>>

\* The companion applies a rating or, never taking this step, refuses it: code
\* of the add-on's process, modelled in ReviewCoordinator. It goes on with a request the server has stopped waiting for.
CompanionRates(t) ==
  /\ txs[t].sent /\ ~txs[t].inAnki
  /\ txs' = [txs EXCEPT ![t].inAnki = TRUE]
  /\ UNCHANGED <<openReview, openings, misled, session, client, channels>>

\* settleReview, and main.lua passing its event on to whoever reviews the card.
SettleReview(t, outcome) ==
  /\ txs' = [txs EXCEPT ![t].outcome = outcome]
  /\ IF openReview # None /\ openReview.card = txs[t].card
     THEN Tell(openReview.player, <<ResultEvent(outcome)>>)
     ELSE UNCHANGED toClient
  /\ UNCHANGED <<openReview, openings, misled, session, client, toServer>>

ReviewCallbackAnyStatus(t) ==
  /\ txs[t].outcome = "pending"
  /\ \/ SettleReview(t, "applied")
     \/ SettleReview(t, "outcome_unknown")

\* Only an answer that says so is an applied rating; a refusal, a garbled
\* answer and a broken connection prove nothing.
ReviewCallback(t) ==
  /\ txs[t].outcome = "pending"
  /\ \/ txs[t].inAnki /\ SettleReview(t, "applied")
     \/ SettleReview(t, "outcome_unknown")

ReviewTimeout(t) ==
  /\ txs[t].outcome = "pending"
  /\ SettleReview(t, "outcome_unknown")

-----------------------------------------------------------------------------
(* The client.                                                             *)

Become(p, review) == client' = [client EXCEPT ![p] = review]

HearOpen(p) ==
  /\ Arrives(toClient, p, "open")
  /\ toClient' = Took(toClient, p)
  /\ IF client[p].active THEN UNCHANGED <<client, toServer>>
     ELSE \/ Become(p, Opened(Head(toClient[p]).card)) /\ UNCHANGED toServer
          \* createBrowser fails: closed again before anything is shown.
          \/ Ask(p, ClosedEvent) /\ UNCHANGED client
  /\ UNCHANGED <<openReview, openings, misled, session, txs>>

HearSide(p) ==
  /\ Arrives(toClient, p, "side")
  /\ toClient' = Took(toClient, p)
  /\ LET page == Head(toClient[p])
     IN IF client[p].active
        THEN Become(p, [client[p] EXCEPT !.side = page.side,
                          !.answer = IF page.side = "answer" THEN page.card ELSE None])
        ELSE UNCHANGED client
  /\ UNCHANGED <<openReview, openings, misled, session, txs, toServer>>

CloseStayingActive(p) == Ask(p, ClosedEvent) /\ UNCHANGED client

\* closeReviewMode
Close(p) == Become(p, Closed) /\ Ask(p, ClosedEvent)

HearResult(p) ==
  /\ Arrives(toClient, p, "result")
  /\ toClient' = Took(toClient, p)
  /\ LET state == Head(toClient[p]).state
         heard == [client[p] EXCEPT !.awaitingResult = FALSE]
     IN IF ~client[p].active THEN UNCHANGED <<client, toServer>>
        ELSE CASE state = "applied" ->
                    \* closeAfterRating is the player's own setting.
                    \/ Close(p)
                    \/ /\ Become(p, [heard EXCEPT !.submitted = TRUE, !.applied = TRUE])
                       /\ UNCHANGED toServer
               [] state = "outcome_unknown" ->
                    /\ Become(p, [heard EXCEPT !.submitted = TRUE, !.applied = FALSE])
                    /\ UNCHANGED toServer
               [] OTHER -> Become(p, heard) /\ UNCHANGED toServer
  /\ UNCHANGED <<openReview, openings, misled, session, txs>>

\* The reveal button shows the answer; the browser's first page, and a return
\* from an external one, ask for the side the card is on.
AskPage(p) ==
  /\ client[p].active
  /\ Len(toServer[p]) < MaxBacklog
  /\ \E side \in {"question", client[p].side} \cup
                 (IF client[p].side # "answer" THEN {"answer"} ELSE {}) :
       Ask(p, PageRequest(client[p].card, side))
  /\ UNCHANGED <<openReview, openings, misled, session, txs, client, toClient>>

RateClicks == UNION {{<<p, i>> : i \in {j \in DOMAIN toServer[p] : toServer[p][j].kind = "rate"}} :
                       p \in Players}

ClickUnguarded(p, rating) ==
  /\ client[p].active /\ client[p].side = "answer"
  /\ Len(toServer[p]) < MaxBacklog
  /\ Len(txs) + Cardinality(RateClicks) < MaxRatings
  /\ Become(p, [client[p] EXCEPT !.awaitingResult = TRUE])
  /\ Ask(p, RateRequest(client[p].card, rating, client[p].answer))
  /\ UNCHANGED <<openReview, openings, misled, session, txs, toClient>>

ClickRating(p, rating) ==
  /\ client[p].active /\ client[p].side = "answer"
  /\ ~client[p].submitted /\ ~client[p].awaitingResult
  /\ Len(toServer[p]) < MaxBacklog
  /\ Len(txs) + Cardinality(RateClicks) < MaxRatings
  /\ Become(p, [client[p] EXCEPT !.awaitingResult = TRUE])
  /\ Ask(p, RateRequest(client[p].card, rating, client[p].answer))
  /\ UNCHANGED <<openReview, openings, misled, session, txs, toClient>>

\* requestCloseReviewMode: not while a rating is in flight.
Dismiss(p) ==
  /\ client[p].active /\ ~client[p].awaitingResult
  /\ Close(p)
  /\ UNCHANGED <<openReview, openings, misled, session, txs, toClient>>

\* The study right is withdrawn: closed whatever is in flight.
Revoked(p) ==
  /\ client[p].active
  /\ Close(p)
  /\ UNCHANGED <<openReview, openings, misled, session, txs, toClient>>

\* onPlayerQuit; the player may join again with nothing on screen.
Quit(p) ==
  /\ client[p].active \/ OpenFor(p)
  /\ Become(p, Closed)
  /\ toClient' = [toClient EXCEPT ![p] = <<>>]
  /\ toServer' = [toServer EXCEPT ![p] = <<>>]
  /\ openReview' = IF OpenFor(p) THEN None ELSE openReview
  /\ UNCHANGED <<openings, misled, session, txs>>

-----------------------------------------------------------------------------

Deliver(p) == ServePage(p) \/ ServeClosed(p) \/ ServeRate(p)
Hear(p)    == HearOpen(p) \/ HearSide(p) \/ HearResult(p)

Next ==
  \/ RenderTimeout \/ RenderIssued
  \/ \E p \in Players :
       \/ \E card \in Cards : OpenReviewModeFor(p, card)
       \/ ServePage(p) \/ ServeClosed(p) \/ ServeRate(p)
       \/ HearOpen(p) \/ HearSide(p) \/ HearResult(p)
       \/ AskPage(p) \/ Dismiss(p) \/ Revoked(p) \/ Quit(p)
       \/ \E rating \in Ratings : ClickRating(p, rating)
  \/ \E t \in DOMAIN txs : CompanionRates(t) \/ ReviewCallback(t) \/ ReviewTimeout(t)

Spec == Init /\ [][Next]_vars

\* MTA delivers its events, and every request has a timer.
Fairness ==
  /\ \A p \in Players : WF_vars(Deliver(p)) /\ WF_vars(Hear(p))
  /\ WF_vars(\E t \in DOMAIN txs : ReviewTimeout(t))
  /\ WF_vars(RenderTimeout)

FairSpec == Spec /\ Fairness

-----------------------------------------------------------------------------
(* Properties.                                                             *)

\* A player who has a card on screen is the one the server holds it open for:
\* nobody else is in Review Mode, and no rating can be refused as being for
\* another card. (openReview, set and cleared in main.lua; closeReviewMode.)
ExclusiveReviewMode ==
  \A p \in Players : client[p].active =>
    OpenFor(p) /\ openReview.opened /\ openReview.card = client[p].card

\* A rating is sent to the companion only for a card whose own answer the
\* player had on screen: no page of an earlier opening or of another card is
\* ever shown under the open card's rating buttons.
AnswerSeenFirst ==
  \A t \in DOMAIN txs : txs[t].answer = txs[t].card

\* "Applied" on screen is true: Anki applied a rating of that very card. A
\* timeout, a lost or a late answer never makes it so. (settleReview,
\* reviewCallback, REVIEW_RESULT.)
AppliedIsTrue ==
  \A p \in Players : client[p].active /\ client[p].applied =>
    \E t \in DOMAIN txs : txs[t].card = client[p].card /\ txs[t].inAnki

\* Once a rating given in one Review Mode is known to be applied, that Review
\* Mode sends no other, unless a failed render was told to the client as a
\* rejected rating. (review_mode.lua, handleReviewClick.)
OneAcceptedRating ==
  \A t, u \in DOMAIN txs :
    t < u /\ txs[t].opening = txs[u].opening /\ txs[t].outcome = "applied" =>
      txs[t].opening \in misled

\* A player who clicked a rating is told its result, so the card he cannot
\* dismiss meanwhile does not stay on his screen for good. (handleReviewClick,
\* requestCloseReviewMode, and the event every settled rating raises.) Violated:
\* requestRating takes a rating given before as settled and raises no event.
EveryRatingAnswered ==
  \A p \in Players : client[p].awaitingResult ~> ~client[p].awaitingResult
=============================================================================
