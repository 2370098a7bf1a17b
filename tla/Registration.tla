---------------------------- MODULE Registration ----------------------------
(* The registration page: a form, then a choice of account numbers that    *)
(* the server has reserved for a selection token, then the registration    *)
(* and a first login.  The page does not wait for one request before it    *)
(* allows the next.  Of the server it needs what becomes of a selection;   *)
(* AccountPool has the whole of it.  A batch is the numbers that a         *)
(* selection stands for after some refreshes.                              *)
EXTENDS Naturals

CONSTANTS Tokens,    \* bound: draws
          MaxRedraws, NoOffer

Offers == [sel : Tokens, gen : 0..MaxRedraws]

ASSUME RegistrationAssumption == NoOffer \notin Tokens \union Offers /\ MaxRedraws \in Nat

VARIABLES
  page,        \* the state of the component
  asked,       \* its requests, with their answers once they have one
  selections,  \* account_no_selections
  registered,  \* the account exists
  overlapped,  \* history: since the last lone draw two requests ran at a time
  lost         \* history: since the last draw an answer got lost

registrationVars == <<page, asked, selections, registered, overlapped, lost>>

RegisterPages == [step : {"form", "pick", "home", "login"}, loading : BOOLEAN, drawing : BOOLEAN,
          token : Tokens \union {NoOffer}, left : 0..MaxRedraws,
          shown : Offers \union {NoOffer}, picked : Offers \union {NoOffer}]
\* first: the draw that leads to the second step.
Requests == [op : {"draw", "refresh", "register"}, first : BOOLEAN,
             token : Tokens \union {NoOffer}, batch : Offers \union {NoOffer},
             answer : {"none", "ok", "number", "name", "other"}]

Fresh == [step |-> "form", loading |-> FALSE, drawing |-> FALSE, token |-> NoOffer, left |-> 0,
          shown |-> NoOffer, picked |-> NoOffer]

RegistrationInit ==
  /\ page = Fresh /\ asked = {}
  /\ selections = [s \in Tokens |-> [state |-> "new", gen |-> 0]]
  /\ registered = FALSE /\ overlapped = FALSE /\ lost = FALSE

-----------------------------------------------------------------------------
(* The page *)

Ask(op, first, token, batch) ==
  /\ asked' = asked \union {[op |-> op, first |-> first, token |-> token, batch |-> batch,
                             answer |-> "none"]}
  /\ overlapped' = (overlapped \/ asked # {})
  /\ UNCHANGED <<selections, registered, lost>>

\* proceedToPick, with a form that passes the checks.
Proceed ==
  /\ page.step = "form" /\ ~page.loading
  /\ page' = [page EXCEPT !.loading = TRUE, !.drawing = TRUE]
  /\ Ask("draw", TRUE, NoOffer, NoOffer)

Back ==
  /\ page.step = "pick" /\ ~page.loading
  /\ page' = [page EXCEPT !.step = "form"]
  /\ UNCHANGED <<asked, selections, registered, overlapped, lost>>

\* The link to the login page, and back: the page starts anew.
Restart ==
  /\ page.step \in {"form", "login"}
  /\ page' = Fresh /\ asked' = {} /\ overlapped' = FALSE /\ lost' = FALSE
  /\ UNCHANGED <<selections, registered>>

Pick ==
  /\ page.step = "pick" /\ ~page.drawing /\ page.shown # NoOffer
  /\ page' = [page EXCEPT !.picked = page.shown]
  /\ UNCHANGED <<asked, selections, registered, overlapped, lost>>

\* doRefresh
AskRefresh ==
  /\ page.step = "pick" /\ ~page.drawing /\ page.token # NoOffer /\ page.left > 0
  /\ page' = [page EXCEPT !.drawing = TRUE]
  /\ Ask("refresh", FALSE, page.token, NoOffer)

\* confirmRegister: canSubmit does not look at "drawing".
Confirm ==
  /\ page.step = "pick" /\ ~page.loading /\ page.picked # NoOffer
  /\ page' = [page EXCEPT !.loading = TRUE]
  /\ Ask("register", FALSE, page.token, page.picked)

-----------------------------------------------------------------------------
(* The server *)

\* The answer to r; it may get lost.
Reply(r, answered) ==
  /\ \/ asked' = (asked \ {r}) \union {answered} /\ UNCHANGED lost
     \/ asked' = (asked \ {r}) \union {[r EXCEPT !.answer = "other"]} /\ lost' = TRUE
  /\ UNCHANGED <<page, overlapped>>

\* Refused, for one of the reasons that the page tells apart.
Refuse(r, why) ==
  /\ asked' = (asked \ {r}) \union {[r EXCEPT !.answer = why]}
  /\ UNCHANGED <<page, selections, registered, overlapped, lost>>

DrawServed(r) ==
  \/ \E s \in Tokens :
       /\ selections[s].state = "new"
       /\ selections' = [selections EXCEPT ![s].state = "live"]
       /\ Reply(r, [r EXCEPT !.token = s, !.batch = [sel |-> s, gen |-> 0], !.answer = "ok"])
       /\ UNCHANGED registered
  \/ Refuse(r, "other")

RefreshServed(r) ==
  LET s == selections[r.token]
  IN \/ /\ s.state = "live" /\ s.gen < MaxRedraws
        /\ selections' = [selections EXCEPT ![r.token].gen = @ + 1]
        /\ Reply(r, [r EXCEPT !.batch = [sel |-> r.token, gen |-> s.gen + 1], !.answer = "ok"])
        /\ UNCHANGED registered
     \/ Refuse(r, "other")

\* The names are looked at before the selection.
RegisterServed(r) ==
  LET s == selections[r.token]
      offered == s.state = "live" /\ r.batch = [sel |-> r.token, gen |-> s.gen]
  IN \/ /\ ~registered /\ offered
        /\ registered' = TRUE
        /\ selections' = [selections EXCEPT ![r.token].state = "gone"]
        /\ Reply(r, [r EXCEPT !.answer = "ok"])
     \/ ~registered /\ ~offered /\ Refuse(r, "number")
     \/ Refuse(r, "name")
     \/ ~registered /\ Refuse(r, "other")

OfferExpires(s) ==
  /\ selections[s].state = "live"
  /\ selections' = [selections EXCEPT ![s].state = "gone"]
  /\ UNCHANGED <<page, asked, registered, overlapped, lost>>

-----------------------------------------------------------------------------
(* The answers *)

Took(r, p) ==
  /\ r.answer # "none" /\ page' = p /\ asked' = asked \ {r}
  /\ UNCHANGED <<selections, registered>>

Drawn(r) ==
  LET p == [page EXCEPT !.drawing = FALSE, !.loading = @ /\ ~r.first,
                        !.step = IF r.first THEN "pick" ELSE @]
  IN IF r.answer = "ok"
     THEN /\ Took(r, [p EXCEPT !.shown = r.batch, !.token = r.token, !.left = MaxRedraws,
                               !.picked = NoOffer])
          /\ overlapped' = (asked # {r}) /\ lost' = (lost /\ asked # {r})
     ELSE Took(r, p) /\ UNCHANGED <<overlapped, lost>>

\* Mutant: the pick stays.
Refreshed_KeepsPick(r) ==
  /\ Took(r, IF r.answer = "ok"
             THEN [page EXCEPT !.drawing = FALSE, !.shown = r.batch, !.left = MaxRedraws - r.batch.gen]
             ELSE [page EXCEPT !.drawing = FALSE])
  /\ UNCHANGED <<overlapped, lost>>

\* The token of the page is left as it is, whatever was refreshed.
Refreshed(r) ==
  /\ Took(r, IF r.answer = "ok"
             THEN [page EXCEPT !.drawing = FALSE, !.shown = r.batch, !.picked = NoOffer,
                               !.left = MaxRedraws - r.batch.gen]
             ELSE [page EXCEPT !.drawing = FALSE])
  /\ UNCHANGED <<overlapped, lost>>

\* The account is there: log in, or leave that to the login page.
Created(r) ==
  /\ \E next \in {"home", "login"} : Took(r, [page EXCEPT !.loading = FALSE, !.step = next])
  /\ UNCHANGED <<overlapped, lost>>

\* The number is not to be had: draw again; a name is: back to the form.
Refused(r) ==
  /\ r.answer # "none"
  /\ UNCHANGED <<selections, registered, lost>>
  /\ IF r.answer = "number"
     THEN /\ page' = [page EXCEPT !.loading = FALSE, !.drawing = TRUE]
          /\ asked' = (asked \ {r}) \union {[op |-> "draw", first |-> FALSE, token |-> NoOffer,
                                             batch |-> NoOffer, answer |-> "none"]}
          /\ overlapped' = (overlapped \/ asked # {r})
     ELSE /\ page' = [page EXCEPT !.loading = FALSE, !.step = IF r.answer = "name" THEN "form" ELSE @]
          /\ asked' = asked \ {r} /\ UNCHANGED overlapped

Registered(r) == IF r.answer = "ok" THEN Created(r) ELSE Refused(r)

-----------------------------------------------------------------------------
Serve(r) ==
  /\ r.answer = "none"
  /\ CASE r.op = "draw" -> DrawServed(r)
       [] r.op = "refresh" -> RefreshServed(r)
       [] r.op = "register" -> RegisterServed(r)

Show(r) ==
  CASE r.op = "draw" -> Drawn(r)
    [] r.op = "refresh" -> Refreshed(r)
    [] r.op = "register" -> Registered(r)

RegistrationNext ==
  \/ Proceed \/ Back \/ Restart \/ Pick \/ AskRefresh \/ Confirm
  \/ \E r \in asked : Serve(r) \/ Show(r)
  \/ \E s \in Tokens : OfferExpires(s)

-----------------------------------------------------------------------------
(* Properties *)

RegistrationTypeOK ==
  /\ page \in RegisterPages /\ asked \subseteq Requests
  /\ selections \in [Tokens -> [state : {"new", "live", "gone"}, gen : 0..MaxRedraws]]
  /\ registered \in BOOLEAN /\ overlapped \in BOOLEAN /\ lost \in BOOLEAN

\* At rest the picked number is one that the server keeps for the token it is
\* sent with, unless requests overlapped or an answer was lost since the last
\* draw (client/src/pages/Register.tsx:95-126).
OfferStands ==
  page.picked # NoOffer /\ asked = {} /\ selections[page.token].state = "live" /\ ~overlapped /\ ~lost
    => page.picked = [sel |-> page.token, gen |-> selections[page.token].gen]
=============================================================================
