--------------------------- MODULE AccountsProofs ---------------------------
(* Proofs about the pages before and beside the chat, for any number of    *)
(* clients, selections and requests: the numbers that the registration     *)
(* offers, the profile and its copy, and the ways in and out.              *)
EXTENDS Registration, Profile, SignIn, FiniteSetTheorems, TLAPS

(* The router shows one of the three at a time, and they share no state.   *)
RegistrationSpec == RegistrationInit /\ [][RegistrationNext]_registrationVars
ProfileSpec == ProfileInit /\ [][ProfileNext]_profileVars
SignInSpec == SignInInit /\ [][SignInNext]_signInVars

-----------------------------------------------------------------------------
(* Registration: the kinds of what is asked and shown.                     *)

Held(s) == s \in Tokens /\ selections[s].state # "new"
Selections == [Tokens -> [state : {"new", "live", "gone"}, gen : 0..MaxRedraws]]
Answers == {"none", "ok", "number", "name", "other"}

(* A request is there, with these fields and without an answer.            *)
Sent(n, op, token) == n \in Requests /\ n.op = op /\ n.token = token /\ n.answer = "none"

(* What a request and its answer are.                                      *)
LEMMA RequestFields ==
  ASSUME NEW r \in Requests
  PROVE  /\ r.op \in {"draw", "refresh", "register"} /\ r.first \in BOOLEAN
         /\ r.token \in Tokens \union {NoOffer} /\ r.batch \in Offers \union {NoOffer}
         /\ r.answer \in Answers
  BY DEF Requests, Answers

LEMMA RequestSent ==
  ASSUME NEW op \in {"draw", "refresh", "register"}, NEW first \in BOOLEAN,
         NEW token \in Tokens \union {NoOffer}, NEW batch \in Offers \union {NoOffer}
  PROVE  Sent([op |-> op, first |-> first, token |-> token, batch |-> batch, answer |-> "none"], op, token)
  BY DEF Requests, Sent

(* n is r with an answer.                                                  *)
Filled(r, n, s, b, a) == n \in Requests /\ n.op = r.op /\ n.token = s /\ n.batch = b /\ n.answer = a

LEMMA RequestAnswered ==
  ASSUME NEW r \in Requests
  PROVE  /\ \A a \in Answers : Filled(r, [r EXCEPT !.answer = a], r.token, r.batch, a)
         /\ \A s \in Tokens, b \in Offers :
              /\ Filled(r, [r EXCEPT !.batch = b, !.answer = "ok"], r.token, b, "ok")
              /\ Filled(r, [r EXCEPT !.token = s, !.batch = b, !.answer = "ok"], s, b, "ok")
  <1>1. ASSUME NEW a \in Answers PROVE Filled(r, [r EXCEPT !.answer = a], r.token, r.batch, a)
    BY DEF Requests, Answers, Filled
  <1>2. ASSUME NEW s \in Tokens, NEW b \in Offers
        PROVE  /\ Filled(r, [r EXCEPT !.batch = b, !.answer = "ok"], r.token, b, "ok")
               /\ Filled(r, [r EXCEPT !.token = s, !.batch = b, !.answer = "ok"], s, b, "ok")
    BY DEF Requests, Filled
  <1> QED
    BY <1>1, <1>2

LEMMA SelectionsKept ==
  ASSUME selections \in Selections, NEW s \in Tokens
  PROVE  /\ \A v \in {"new", "live", "gone"} : [selections EXCEPT ![s].state = v] \in Selections
         /\ selections[s].gen < MaxRedraws => [selections EXCEPT ![s].gen = @ + 1] \in Selections
  BY RegistrationAssumption DEF Selections

LEMMA PageFields ==
  ASSUME page \in RegisterPages
  PROVE /\ page.step \in {"form", "pick", "home", "login"} /\ page.loading \in BOOLEAN /\ page.drawing \in BOOLEAN
        /\ page.token \in Tokens \union {NoOffer} /\ page.left \in 0..MaxRedraws
        /\ page.shown \in Offers \union {NoOffer} /\ page.picked \in Offers \union {NoOffer}
  BY DEF RegisterPages

LEMMA OfferFields ==
  /\ \A o \in Offers : o.sel \in Tokens /\ o.gen \in 0..MaxRedraws /\ o = [sel |-> o.sel, gen |-> o.gen]
  /\ \A s \in Tokens, g \in 0..MaxRedraws : [sel |-> s, gen |-> g] \in Offers
  BY DEF Offers

LEMMA AskEffect ==
  ASSUME NEW op \in {"draw", "refresh", "register"}, NEW first \in BOOLEAN,
         NEW token \in Tokens \union {NoOffer}, NEW batch \in Offers \union {NoOffer},
         Ask(op, first, token, batch)
  PROVE  \E n : Sent(n, op, token) /\ asked' = asked \union {n}
  BY RequestSent DEF Ask

(* The page's tokens and numbers are left alone.                           *)
Steady == page'.token = page.token /\ page'.shown = page.shown /\ page'.picked = page.picked

LEMMA PageSteps ==
  ASSUME RegistrationTypeOK
  PROVE  /\ Proceed \/ Back \/ AskRefresh \/ Confirm => page' \in RegisterPages /\ Steady
         /\ Pick => page' \in RegisterPages /\ page'.token = page.token /\ page'.shown = page.shown
                    /\ page'.picked = page.shown
  BY DEF RegistrationTypeOK, RegisterPages, Proceed, Back, AskRefresh, Confirm, Pick, Steady

Offer(s, b, p) == page'.token = s /\ page'.shown = b /\ page'.picked = p

LEMMA DrawnPage ==
  ASSUME page \in RegisterPages, NEW r \in Requests, r.op = "draw", Drawn(r)
  PROVE  /\ r.answer = "ok" => Offer(r.token, r.batch, NoOffer)
         /\ r.answer # "ok" => Offer(page.token, page.shown, page.picked)
         /\ page' \in RegisterPages
  <1> DEFINE p == [page EXCEPT !.drawing = FALSE, !.loading = @ /\ ~r.first,
                        !.step = IF r.first THEN "pick" ELSE @]
             q == [p EXCEPT !.shown = r.batch, !.token = r.token, !.left = MaxRedraws,
                               !.picked = NoOffer]
  <1>0. (page.loading /\ ~r.first) \in BOOLEAN /\ (IF r.first THEN "pick" ELSE page.step) \in {"form", "pick", "home", "login"}
    BY DEF RegisterPages
  <1>1. p \in RegisterPages /\ p.token = page.token /\ p.shown = page.shown /\ p.picked = page.picked
    BY <1>0 DEF RegisterPages
  <1>2. page' = IF r.answer = "ok" THEN q ELSE p
    BY DEF Drawn, Took
  <1> HIDE DEF p
  <1>3. /\ r.token \in Tokens \union {NoOffer} /\ r.batch \in Offers \union {NoOffer}
        /\ MaxRedraws \in 0..MaxRedraws
    BY RequestFields, RegistrationAssumption
  <1>4. q \in RegisterPages /\ q.token = r.token /\ q.shown = r.batch /\ q.picked = NoOffer
    BY <1>1, <1>3 DEF RegisterPages
  <1> HIDE DEF q
  <1> QED
    BY <1>1, <1>2, <1>4 DEF Offer

LEMMA RefreshedPage ==
  ASSUME page \in RegisterPages, NEW r \in Requests, r.op = "refresh", Refreshed(r), r.answer = "ok" => r.batch \in Offers
  PROVE  /\ r.answer = "ok" => Offer(page.token, r.batch, NoOffer)
         /\ r.answer # "ok" => Offer(page.token, page.shown, page.picked)
         /\ page' \in RegisterPages
  <1>1. CASE r.answer = "ok"
    <2>1. MaxRedraws - r.batch.gen \in 0..MaxRedraws
      BY <1>1, OfferFields, RegistrationAssumption
    <2> QED
      BY <1>1, <2>1 DEF Refreshed, Took, RegisterPages, Offer
  <1>2. CASE r.answer # "ok"
    BY <1>2 DEF Refreshed, Took, RegisterPages, Offer
  <1> QED
    BY <1>1, <1>2

LEMMA RegisteredPage ==
  ASSUME page \in RegisterPages, NEW r \in Requests, Registered(r)
  PROVE  page' \in RegisterPages /\ Steady
  <1>1. CASE r.answer = "ok"
    BY <1>1 DEF Registered, Created, Took, RegisterPages, Steady
  <1>2. CASE r.answer = "number"
    BY <1>2 DEF Registered, Refused, RegisterPages, Steady
  <1>3. CASE r.answer \notin {"ok", "number"}
    <2>1. page.step \in {"form", "pick", "home", "login"}
      BY DEF RegisterPages
    <2>2. \E next \in {"form", page.step} : page' = [page EXCEPT !.loading = FALSE, !.step = next]
      BY <1>3 DEF Registered, Refused
    <2> QED
      BY <2>1, <2>2 DEF RegisterPages, Steady
  <1> QED
    BY <1>1, <1>2, <1>3

(* r is replaced by its answer n.                                          *)
Replaced(r, n, s, b, a) == asked' = (asked \ {r}) \union {n} /\ Filled(r, n, s, b, a)

LEMMA ReplyEffect ==
  ASSUME NEW r \in Requests, NEW s, NEW b, NEW m, Filled(r, m, s, b, "ok"), Reply(r, m)
  PROVE  /\ \E n : \/ Replaced(r, n, s, b, "ok") /\ lost' = lost
                   \/ Replaced(r, n, r.token, r.batch, "other") /\ lost' = TRUE
         /\ UNCHANGED <<page, overlapped>>
  <1>1. "other" \in Answers
    BY DEF Answers
  <1>2. Filled(r, [r EXCEPT !.answer = "other"], r.token, r.batch, "other")
    BY <1>1, RequestAnswered
  <1> QED
    BY <1>2 DEF Reply, Replaced

LEMMA RefuseEffect ==
  ASSUME NEW r \in Requests, NEW why \in {"number", "name", "other"}, Refuse(r, why)
  PROVE  /\ \E n : Replaced(r, n, r.token, r.batch, why)
         /\ UNCHANGED <<page, selections, registered, overlapped, lost>>
  <1>1. why \in Answers
    BY DEF Answers
  <1>2. Filled(r, [r EXCEPT !.answer = why], r.token, r.batch, why)
    BY <1>1, RequestAnswered
  <1> QED
    BY <1>2 DEF Refuse, Replaced

LEMMA DrawEffect ==
  ASSUME RegistrationTypeOK, NEW r \in asked, r.op = "draw", DrawServed(r)
  PROVE  \/ /\ \E n : Replaced(r, n, r.token, r.batch, "other")
            /\ UNCHANGED <<page, selections, registered, overlapped, lost>>
         \/ \E s \in Tokens : \E n :
              /\ selections[s].state = "new" /\ selections' = [selections EXCEPT ![s].state = "live"]
              /\ \/ Replaced(r, n, s, [sel |-> s, gen |-> 0], "ok") /\ lost' = lost
                 \/ Replaced(r, n, r.token, r.batch, "other") /\ lost' = TRUE
              /\ UNCHANGED <<page, registered, overlapped>>
  <1>0. r \in Requests
    BY DEF RegistrationTypeOK
  <1>1. CASE Refuse(r, "other")
    BY <1>0, <1>1, RefuseEffect
  <1>2. ASSUME NEW s \in Tokens, selections[s].state = "new",
               selections' = [selections EXCEPT ![s].state = "live"],
               Reply(r, [r EXCEPT !.token = s, !.batch = [sel |-> s, gen |-> 0], !.answer = "ok"]),
               UNCHANGED registered
        PROVE  \E n : /\ \/ Replaced(r, n, s, [sel |-> s, gen |-> 0], "ok") /\ lost' = lost
                         \/ Replaced(r, n, r.token, r.batch, "other") /\ lost' = TRUE
                      /\ UNCHANGED <<page, registered, overlapped>>
    <2> DEFINE m == [r EXCEPT !.token = s, !.batch = [sel |-> s, gen |-> 0], !.answer = "ok"]
    <2>1. [sel |-> s, gen |-> 0] \in Offers
      BY OfferFields, RegistrationAssumption
    <2>2. Filled(r, m, s, [sel |-> s, gen |-> 0], "ok")
      BY <1>0, <2>1, RequestAnswered
    <2>3. Reply(r, m)
      BY <1>2
    <2> QED
      BY <1>0, <1>2, <2>2, <2>3, ReplyEffect
  <1> QED
    BY <1>1, <1>2 DEF DrawServed

LEMMA RefreshEffect ==
  ASSUME RegistrationTypeOK, NEW r \in asked, r.op = "refresh", r.token \in Tokens, RefreshServed(r)
  PROVE  LET g == selections[r.token].gen + 1
         IN  \/ /\ \E n : Replaced(r, n, r.token, r.batch, "other")
                /\ UNCHANGED <<page, selections, registered, overlapped, lost>>
             \/ /\ selections[r.token].state = "live" /\ g \in 0..MaxRedraws
                /\ selections' = [selections EXCEPT ![r.token].gen = @ + 1]
                /\ \E n : \/ Replaced(r, n, r.token, [sel |-> r.token, gen |-> g], "ok") /\ lost' = lost
                          \/ Replaced(r, n, r.token, r.batch, "other") /\ lost' = TRUE
                /\ UNCHANGED <<page, registered, overlapped>>
  <1>0. r \in Requests /\ selections[r.token].gen \in 0..MaxRedraws
    BY DEF RegistrationTypeOK
  <1>1. CASE Refuse(r, "other")
    BY <1>0, <1>1, RefuseEffect
  <1>2. CASE ~Refuse(r, "other")
    <2> DEFINE g == selections[r.token].gen + 1
    <2>0. /\ selections[r.token].state = "live" /\ selections[r.token].gen < MaxRedraws
          /\ selections' = [selections EXCEPT ![r.token].gen = @ + 1]
          /\ Reply(r, [r EXCEPT !.batch = [sel |-> r.token, gen |-> g], !.answer = "ok"])
          /\ UNCHANGED registered
      BY <1>2 DEF RefreshServed
    <2>1. g \in 0..MaxRedraws
      BY <1>0, <2>0, RegistrationAssumption
    <2>2. [sel |-> r.token, gen |-> g] \in Offers
      BY <2>1, OfferFields
    <2> HIDE DEF g
    <2>3. /\ \E n : \/ Replaced(r, n, r.token, [sel |-> r.token, gen |-> g], "ok") /\ lost' = lost
                    \/ Replaced(r, n, r.token, r.batch, "other") /\ lost' = TRUE
          /\ UNCHANGED <<page, overlapped>>
      <3> DEFINE m == [r EXCEPT !.batch = [sel |-> r.token, gen |-> g], !.answer = "ok"]
      <3>1. Filled(r, m, r.token, [sel |-> r.token, gen |-> g], "ok")
        BY <1>0, <2>2, RequestAnswered
      <3>2. Reply(r, m)
        BY <2>0 DEF g
      <3> QED
        BY <1>0, <3>1, <3>2, ReplyEffect
    <2> QED
      BY <2>0, <2>1, <2>3 DEF g
  <1> QED
    BY <1>1, <1>2

LEMMA RegisterEffect ==
  ASSUME RegistrationTypeOK, NEW r \in asked, r.op = "register", RegisterServed(r)
  PROVE  /\ selections' \in {selections, [selections EXCEPT ![r.token].state = "gone"]}
         /\ \E n, a : Replaced(r, n, r.token, r.batch, a)
         /\ registered' \in BOOLEAN /\ (lost' = TRUE \/ lost' = lost)
         /\ UNCHANGED <<page, overlapped>>
  <1>0. r \in Requests /\ registered \in BOOLEAN /\ lost \in BOOLEAN
    BY DEF RegistrationTypeOK
  <1>1. CASE \E why \in {"number", "name", "other"} : Refuse(r, why)
    BY <1>0, <1>1, RefuseEffect
  <1>2. CASE ~ \E why \in {"number", "name", "other"} : Refuse(r, why)
    <2>1. /\ registered' = TRUE /\ selections' = [selections EXCEPT ![r.token].state = "gone"]
          /\ Reply(r, [r EXCEPT !.answer = "ok"])
      BY <1>2 DEF RegisterServed
    <2>2. Filled(r, [r EXCEPT !.answer = "ok"], r.token, r.batch, "ok")
      BY <1>0, RequestAnswered DEF Answers
    <2>3. /\ \E n, a : Replaced(r, n, r.token, r.batch, a)
          /\ UNCHANGED <<page, overlapped>> /\ (lost' = TRUE \/ lost' = lost)
      BY <1>0, <2>1, <2>2, ReplyEffect
    <2> QED
      BY <2>1, <2>3
  <1> QED
    BY <1>1, <1>2

LEMMA RegisteredEffect ==
  ASSUME page \in RegisterPages, NEW r \in Requests, Registered(r)
  PROVE  /\ page' \in RegisterPages /\ Steady /\ UNCHANGED <<selections, registered, lost>>
         /\ \/ asked' = asked \ {r} /\ UNCHANGED overlapped
            \/ /\ \E n : Sent(n, "draw", NoOffer) /\ asked' = (asked \ {r}) \union {n}
               /\ overlapped' = (overlapped \/ asked # {r})
  <1>1. CASE r.answer = "number"
    <2>1. Sent([op |-> "draw", first |-> FALSE, token |-> NoOffer, batch |-> NoOffer, answer |-> "none"],
               "draw", NoOffer)
      BY RequestSent
    <2> QED
      BY <1>1, <2>1, RegisteredPage DEF Registered, Refused
  <1>2. CASE r.answer # "number"
    BY <1>2, RegisteredPage DEF Registered, Created, Refused, Took
  <1> QED
    BY <1>1, <1>2

OfferShaped ==
  /\ page.token # NoOffer => Held(page.token)
  /\ page.shown # NoOffer <=> page.token # NoOffer
  /\ page.picked \in {NoOffer, page.shown}
  /\ \A s \in Tokens : selections[s].state = "new" => selections[s].gen = 0
  /\ \A r \in asked :
       /\ r.op = "draw" /\ r.answer # "ok" => r.token = NoOffer
       /\ r.op # "draw" => Held(r.token) /\ page.token # NoOffer
       /\ r.op = "refresh" /\ r.answer = "ok" => r.batch \in Offers /\ r.batch.sel = r.token

(* A selection that was drawn, and is not on the page yet, was not         *)
(* refreshed, and no other request is about it.                            *)
DrawnUnseen ==
  \A r \in asked : r.op = "draw" /\ r.answer = "ok" =>
    /\ Held(r.token) /\ selections[r.token].gen = 0 /\ r.batch = [sel |-> r.token, gen |-> 0]
    /\ page.token # r.token
    /\ \A u \in asked : u.token = r.token => u = r

(* One request at a time, about the token of the page.                     *)
OneRequest ==
  ~overlapped => /\ \A r, u \in asked : r = u
                 /\ \A r \in asked : r.op # "draw" => r.token = page.token

(* The numbers on the page are those that the server keeps, or a refresh   *)
(* that brings them is on its way.                                         *)
Kept(s) == [sel |-> s, gen |-> selections[s].gen]
RefreshCame(r) == r.op = "refresh" /\ r.answer = "ok"
OfferCurrent ==
  ~overlapped /\ ~lost /\ page.shown # NoOffer /\ selections[page.token].state = "live" =>
    /\ \A r \in asked : RefreshCame(r) => r.batch = Kept(page.token)
    /\ (\A r \in asked : ~RefreshCame(r)) => page.shown = Kept(page.token)

OfferInv == OfferShaped /\ DrawnUnseen /\ OneRequest /\ OfferCurrent


LEMMA RegistrationTyped ==
  RegistrationTypeOK /\ OfferShaped /\ [RegistrationNext]_registrationVars => RegistrationTypeOK'
  <1> SUFFICES ASSUME RegistrationTypeOK, OfferShaped, [RegistrationNext]_registrationVars
               PROVE  RegistrationTypeOK'
    OBVIOUS
  <1> DEFINE Bools == registered' \in BOOLEAN /\ overlapped' \in BOOLEAN /\ lost' \in BOOLEAN
  <1>0. /\ page \in RegisterPages /\ asked \subseteq Requests /\ selections \in Selections
        /\ registered \in BOOLEAN /\ overlapped \in BOOLEAN /\ lost \in BOOLEAN
    BY DEF RegistrationTypeOK, Selections
  <1>a. SUFFICES page' \in RegisterPages /\ asked' \subseteq Requests /\ selections' \in Selections /\ Bools
    BY DEF RegistrationTypeOK, Selections
  <1>1. CASE Proceed
    <2>1. \E n : Sent(n, "draw", NoOffer) /\ asked' = asked \union {n}
      BY <1>1, AskEffect DEF Proceed
    <2> QED
      BY <1>0, <1>1, <2>1, PageSteps DEF Proceed, Ask, Sent
  <1>2. CASE Back \/ Pick
    BY <1>0, <1>2, PageSteps DEF Back, Pick
  <1>3. CASE Restart
    <2>1. Fresh \in RegisterPages
      BY RegistrationAssumption DEF Fresh, RegisterPages
    <2> QED
      BY <1>0, <1>3, <2>1 DEF Restart
  <1>4. CASE AskRefresh
    <2>1. page.token \in Tokens \union {NoOffer}
      BY <1>0, PageFields
    <2>2. \E n : Sent(n, "refresh", page.token) /\ asked' = asked \union {n}
      BY <1>4, <2>1, AskEffect DEF AskRefresh
    <2> QED
      BY <1>0, <1>4, <2>2, PageSteps DEF AskRefresh, Ask, Sent
  <1>5. CASE Confirm
    <2>1. page.token \in Tokens \union {NoOffer} /\ page.picked \in Offers \union {NoOffer}
      BY <1>0, PageFields
    <2>2. \E n : Sent(n, "register", page.token) /\ asked' = asked \union {n}
      BY <1>5, <2>1, AskEffect DEF Confirm
    <2> QED
      BY <1>0, <1>5, <2>2, PageSteps DEF Confirm, Ask, Sent
  <1>6. ASSUME NEW r \in asked, r.op = "draw", DrawServed(r)
        PROVE page' \in RegisterPages /\ asked' \subseteq Requests /\ selections' \in Selections /\ Bools
    <2>1. \A s \in Tokens : [selections EXCEPT ![s].state = "live"] \in Selections
      BY <1>0, SelectionsKept
    <2> QED
      BY <1>0, <1>6, <2>1, DrawEffect DEF Replaced, Filled
  <1>7. ASSUME NEW r \in asked, r.op = "refresh", RefreshServed(r)
        PROVE page' \in RegisterPages /\ asked' \subseteq Requests /\ selections' \in Selections /\ Bools
    <2>1. r.token \in Tokens
      BY <1>7 DEF OfferShaped, Held
    <2>2. selections[r.token].gen + 1 \in 0..MaxRedraws => [selections EXCEPT ![r.token].gen = @ + 1] \in Selections
      BY <1>0, <2>1 DEF Selections
    <2> QED
      BY <1>0, <1>7, <2>1, <2>2, RefreshEffect DEF Replaced, Filled
  <1>8. ASSUME NEW r \in asked, r.op = "register", RegisterServed(r)
        PROVE page' \in RegisterPages /\ asked' \subseteq Requests /\ selections' \in Selections /\ Bools
    <2>1. r.token \in Tokens
      BY <1>8 DEF OfferShaped, Held
    <2>2. [selections EXCEPT ![r.token].state = "gone"] \in Selections
      BY <1>0, <2>1, SelectionsKept
    <2> QED
      BY <1>0, <1>8, <2>2, RegisterEffect DEF Replaced, Filled
  <1>9. ASSUME NEW r \in asked, r.op = "draw", Drawn(r)
        PROVE page' \in RegisterPages /\ asked' \subseteq Requests /\ selections' \in Selections /\ Bools
    BY <1>0, <1>9, DrawnPage DEF Drawn, Took
  <1>10. ASSUME NEW r \in asked, r.op = "refresh", Refreshed(r)
         PROVE page' \in RegisterPages /\ asked' \subseteq Requests /\ selections' \in Selections /\ Bools
    <2>1. r.answer = "ok" => r.batch \in Offers
      BY <1>10 DEF OfferShaped
    <2> QED
      BY <1>0, <1>10, <2>1, RefreshedPage DEF Refreshed, Took
  <1>11. ASSUME NEW r \in asked, r.op = "register", Registered(r)
         PROVE page' \in RegisterPages /\ asked' \subseteq Requests /\ selections' \in Selections /\ Bools
    <2>1. /\ page' \in RegisterPages /\ UNCHANGED <<selections, registered, lost>>
          /\ \/ asked' = asked \ {r} /\ UNCHANGED overlapped
             \/ /\ \E n : Sent(n, "draw", NoOffer) /\ asked' = (asked \ {r}) \union {n}
                /\ overlapped' = (overlapped \/ asked # {r})
      BY <1>0, <1>11, RegisteredEffect
    <2> QED
      BY <1>0, <2>1 DEF Sent
  <1>12. ASSUME NEW s \in Tokens, OfferExpires(s)
         PROVE page' \in RegisterPages /\ asked' \subseteq Requests /\ selections' \in Selections /\ Bools
    BY <1>0, <1>12, SelectionsKept DEF OfferExpires
  <1>13. CASE UNCHANGED registrationVars
    BY <1>0, <1>13 DEF registrationVars
  <1> QED
    BY <1>0, <1>1, <1>2, <1>3, <1>4, <1>5, <1>6, <1>7, <1>8, <1>9, <1>10, <1>11, <1>12, <1>13, RequestFields
    DEF RegistrationNext, Serve, Show

(* What the steps do to the offers: with the page left as it is, ...       *)
StaysAsIs == Steady /\ UNCHANGED <<asked, selections, overlapped, lost>>
Picks == /\ page'.token = page.token /\ page'.shown = page.shown /\ page'.picked = page.shown
         /\ UNCHANGED <<asked, selections, overlapped, lost>>
Restarts == Offer(NoOffer, NoOffer, NoOffer) /\ asked' = {} /\ UNCHANGED selections
Asks(n) ==
  /\ \/ Sent(n, "draw", NoOffer)
     \/ n.op # "draw" /\ Sent(n, n.op, page.token) /\ page.token # NoOffer
  /\ asked' = asked \union {n} /\ overlapped' = (overlapped \/ asked # {})
  /\ Steady /\ UNCHANGED <<selections, lost>>
(* ... a request that gets an answer, ...                                  *)
Changed(s, state, gen) ==
  /\ selections'[s].state = state /\ selections'[s].gen = gen
  /\ \A t \in Tokens \ {s} : selections'[t] = selections[t]
Fails(r, n) ==
  /\ r.answer = "none" /\ (n.answer = "ok" => r.op = "register")
  /\ Replaced(r, n, r.token, r.batch, n.answer)
  /\ Steady /\ UNCHANGED overlapped
FailsQuietly(r, n) ==
  /\ Fails(r, n) /\ (lost' = TRUE \/ lost' = lost)
  /\ \/ UNCHANGED selections
     \/ r.op = "register" /\ Changed(r.token, "gone", selections[r.token].gen)
DrawLost(r, n, s) ==
  /\ Fails(r, n) /\ lost' = TRUE /\ selections[s].state = "new" /\ Changed(s, "live", selections[s].gen)
RefreshLost(r, n) ==
  /\ Fails(r, n) /\ lost' = TRUE /\ r.op = "refresh" /\ selections[r.token].state = "live"
  /\ Changed(r.token, "live", selections[r.token].gen + 1)
Draws(r, n, s) ==
  /\ r.op = "draw" /\ r.answer = "none" /\ Replaced(r, n, s, [sel |-> s, gen |-> 0], "ok")
  /\ selections[s].state = "new" /\ Changed(s, "live", selections[s].gen)
  /\ Steady /\ UNCHANGED <<overlapped, lost>>
Refreshes(r, n) ==
  /\ r.op = "refresh" /\ r.answer = "none"
  /\ Replaced(r, n, r.token, [sel |-> r.token, gen |-> selections[r.token].gen + 1], "ok")
  /\ selections[r.token].state = "live" /\ Changed(r.token, "live", selections[r.token].gen + 1)
  /\ selections[r.token].gen + 1 \in 0..MaxRedraws
  /\ Steady /\ UNCHANGED <<overlapped, lost>>
(* ... and an answer that is shown.                                        *)
ShowsDraw(r) ==
  /\ r.op = "draw" /\ r.answer = "ok" /\ Offer(r.token, r.batch, NoOffer) /\ asked' = asked \ {r}
  /\ overlapped' = (asked # {r}) /\ UNCHANGED selections
ShowsRefresh(r) ==
  /\ r.op = "refresh" /\ r.answer = "ok" /\ Offer(page.token, r.batch, NoOffer) /\ asked' = asked \ {r}
  /\ UNCHANGED <<selections, overlapped, lost>>
Ends(r) ==
  /\ r.op = "register" \/ r.answer # "ok"
  /\ Steady /\ asked' = asked \ {r} /\ UNCHANGED <<selections, overlapped, lost>>
DrawsAgain(r, n) ==
  /\ Steady /\ UNCHANGED <<selections, lost>> /\ r.op = "register"
  /\ Sent(n, "draw", NoOffer) /\ asked' = (asked \ {r}) \union {n} /\ overlapped' = (overlapped \/ asked # {r})
Expires(s) ==
  /\ selections[s].state = "live" /\ Changed(s, "gone", selections[s].gen)
  /\ Steady /\ UNCHANGED <<asked, overlapped, lost>>

(* A step is one of these.                                                 *)
OfferStep ==
  \/ StaysAsIs \/ Picks \/ Restarts \/ \E n : Asks(n)
  \/ \E r \in asked : \E n : FailsQuietly(r, n) \/ RefreshLost(r, n) \/ Refreshes(r, n) \/ DrawsAgain(r, n)
  \/ \E r \in asked, s \in Tokens : \E n : DrawLost(r, n, s) \/ Draws(r, n, s)
  \/ \E r \in asked : ShowsDraw(r) \/ ShowsRefresh(r) \/ Ends(r)
  \/ \E s \in Tokens : Expires(s)

LEMMA SelectionChanges ==
  ASSUME selections \in Selections, NEW s \in Tokens
  PROVE  /\ \A v \in {"live", "gone"} :
              selections' = [selections EXCEPT ![s].state = v] => Changed(s, v, selections[s].gen)
         /\ selections' = [selections EXCEPT ![s].gen = @ + 1]
              => Changed(s, selections[s].state, selections[s].gen + 1)
  BY DEF Selections, Changed

LEMMA OfferSteps ==
  RegistrationTypeOK /\ OfferShaped /\ [RegistrationNext]_registrationVars => OfferStep
  <1> SUFFICES ASSUME RegistrationTypeOK, OfferShaped, [RegistrationNext]_registrationVars PROVE OfferStep
    OBVIOUS
  <1>0. /\ page \in RegisterPages /\ asked \subseteq Requests /\ selections \in Selections
        /\ page.token \in Tokens \union {NoOffer} /\ page.picked \in Offers \union {NoOffer}
    BY PageFields DEF RegistrationTypeOK, Selections
  <1>1. CASE Proceed
    <2>1. PICK n : Sent(n, "draw", NoOffer) /\ asked' = asked \union {n}
      BY <1>1, AskEffect DEF Proceed
    <2>2. Asks(n)
      BY <1>1, <2>1, PageSteps DEF Proceed, Ask, Asks, Sent
    <2> QED
      BY <2>2 DEF OfferStep
  <1>2. CASE Back \/ Pick
    BY <1>2, PageSteps DEF Back, Pick, OfferStep, StaysAsIs, Picks
  <1>3. CASE Restart
    BY <1>3 DEF Restart, Fresh, Offer, OfferStep, Restarts
  <1>4. CASE AskRefresh
    <2>1. \E n : Sent(n, "refresh", page.token) /\ asked' = asked \union {n}
      BY <1>0, <1>4, AskEffect DEF AskRefresh
    <2>2. \E n : Asks(n)
      BY <1>4, <2>1, PageSteps DEF AskRefresh, Ask, Asks, Sent
    <2> QED
      BY <2>2 DEF OfferStep
  <1>5. CASE Confirm
    <2>1. \E n : Sent(n, "register", page.token) /\ asked' = asked \union {n}
      BY <1>0, <1>5, AskEffect DEF Confirm
    <2>2. \E n : Asks(n)
      BY <1>5, <2>1, PageSteps DEF Confirm, Ask, Asks, Sent, OfferShaped
    <2> QED
      BY <2>2 DEF OfferStep
  <1>6. ASSUME NEW r \in asked, r.answer = "none", r.op = "draw", DrawServed(r) PROVE OfferStep
    <2>1. CASE /\ \E n : Replaced(r, n, r.token, r.batch, "other")
               /\ UNCHANGED <<page, selections, registered, overlapped, lost>>
      <3>1. PICK n : Replaced(r, n, r.token, r.batch, "other")
        BY <2>1
      <3>2. FailsQuietly(r, n)
        BY <1>6, <2>1, <3>1 DEF FailsQuietly, Fails, Steady, Replaced, Filled
      <3> QED
        BY <3>2 DEF OfferStep
    <2>2. ASSUME NEW s \in Tokens, NEW n,
                 selections[s].state = "new", selections' = [selections EXCEPT ![s].state = "live"],
                 \/ Replaced(r, n, s, [sel |-> s, gen |-> 0], "ok") /\ lost' = lost
                 \/ Replaced(r, n, r.token, r.batch, "other") /\ lost' = TRUE,
                 UNCHANGED <<page, registered, overlapped>>
          PROVE  OfferStep
      <3>1. Changed(s, "live", selections[s].gen)
        BY <1>0, <2>2, SelectionChanges DEF Selections
      <3>2. DrawLost(r, n, s) \/ Draws(r, n, s)
        BY <1>6, <2>2, <3>1 DEF Fails, DrawLost, Draws, Steady, Replaced, Filled
      <3> QED
        BY <3>2 DEF OfferStep
    <2> QED
      BY <1>6, <2>1, <2>2, DrawEffect
  <1>7. ASSUME NEW r \in asked, r.answer = "none", r.op = "refresh", RefreshServed(r) PROVE OfferStep
    <2>0. r.token \in Tokens
      BY <1>7 DEF OfferShaped, Held
    <2>1. CASE /\ \E n : Replaced(r, n, r.token, r.batch, "other")
               /\ UNCHANGED <<page, selections, registered, overlapped, lost>>
      <3>1. PICK n : Replaced(r, n, r.token, r.batch, "other")
        BY <2>1
      <3>2. FailsQuietly(r, n)
        BY <1>7, <2>1, <3>1 DEF FailsQuietly, Fails, Steady, Replaced, Filled
      <3> QED
        BY <3>2 DEF OfferStep
    <2>2. ASSUME NEW g \in 0..MaxRedraws, g = selections[r.token].gen + 1, NEW n,
                 selections[r.token].state = "live", selections' = [selections EXCEPT ![r.token].gen = @ + 1],
                 \/ Replaced(r, n, r.token, [sel |-> r.token, gen |-> g], "ok") /\ lost' = lost
                 \/ Replaced(r, n, r.token, r.batch, "other") /\ lost' = TRUE,
                 UNCHANGED <<page, registered, overlapped>>
          PROVE  OfferStep
      <3>1. Changed(r.token, "live", g)
        BY <1>0, <2>0, <2>2, SelectionChanges DEF Selections
      <3>2. RefreshLost(r, n) \/ Refreshes(r, n)
        BY <1>7, <2>2, <3>1 DEF Fails, RefreshLost, Refreshes, Steady, Replaced, Filled
      <3> QED
        BY <3>2 DEF OfferStep
    <2> QED
      BY <1>7, <2>0, <2>1, <2>2, RefreshEffect
  <1>8. ASSUME NEW r \in asked, r.answer = "none", r.op = "register", RegisterServed(r) PROVE OfferStep
    <2>0. r.token \in Tokens
      BY <1>8 DEF OfferShaped, Held
    <2>1. UNCHANGED selections \/ Changed(r.token, "gone", selections[r.token].gen)
      BY <1>0, <1>8, <2>0, SelectionChanges, RegisterEffect
    <2>2. PICK n, a : Replaced(r, n, r.token, r.batch, a)
      BY <1>8, RegisterEffect
    <2>3. FailsQuietly(r, n)
      BY <1>8, <2>1, <2>2, RegisterEffect DEF FailsQuietly, Fails, Steady, Replaced, Filled
    <2> QED
      BY <2>3 DEF OfferStep
  <1>9. ASSUME NEW r \in asked, r.op = "draw", Drawn(r) PROVE OfferStep
    <2>1. r \in Requests
      BY <1>0
    <2>2. ShowsDraw(r) \/ Ends(r)
      BY <1>0, <1>9, <2>1, DrawnPage DEF Drawn, Took, ShowsDraw, Ends, Offer, Steady
    <2> QED
      BY <2>2 DEF OfferStep
  <1>10. ASSUME NEW r \in asked, r.op = "refresh", Refreshed(r) PROVE OfferStep
    <2>1. r \in Requests /\ (r.answer = "ok" => r.batch \in Offers)
      BY <1>0, <1>10 DEF OfferShaped
    <2>2. ShowsRefresh(r) \/ Ends(r)
      BY <1>0, <1>10, <2>1, RefreshedPage DEF Refreshed, Took, ShowsRefresh, Ends, Offer, Steady
    <2> QED
      BY <2>2 DEF OfferStep
  <1>11. ASSUME NEW r \in asked, r.op = "register", Registered(r) PROVE OfferStep
    <2>1. r \in Requests
      BY <1>0
    <2>2. Ends(r) \/ \E n : DrawsAgain(r, n)
      BY <1>0, <1>11, <2>1, RegisteredEffect DEF Ends, DrawsAgain
    <2> QED
      BY <2>2 DEF OfferStep
  <1>12. ASSUME NEW s \in Tokens, OfferExpires(s) PROVE OfferStep
    <2>1. Changed(s, "gone", selections[s].gen)
      BY <1>0, <1>12, SelectionChanges DEF OfferExpires
    <2>2. Expires(s)
      BY <1>12, <2>1 DEF OfferExpires, Expires, Steady
    <2> QED
      BY <2>2 DEF OfferStep
  <1>13. CASE UNCHANGED registrationVars
    BY <1>13 DEF registrationVars, OfferStep, StaysAsIs, Steady
  <1> QED
    BY <1>0, <1>1, <1>2, <1>3, <1>4, <1>5, <1>6, <1>7, <1>8, <1>9, <1>10, <1>11, <1>12, <1>13, RequestFields
    DEF RegistrationNext, Serve, Show

(* Tokens on the page and in requests were drawn.                          *)
(* The facts about types that the following needs.                         *)
Drawings ==
  /\ asked \subseteq Requests /\ NoOffer \notin Tokens \union Offers
  /\ selections \in Selections

LEMMA ShapedKept ==
  Drawings /\ OfferShaped /\ DrawnUnseen /\ OfferStep => OfferShaped'
  <1> SUFFICES ASSUME Drawings /\ OfferShaped /\ DrawnUnseen, OfferStep PROVE OfferShaped'
    OBVIOUS
  <1> USE DEF OfferShaped, DrawnUnseen, Held, Drawings, Changed
  <1>1. CASE StaysAsIs \/ Picks \/ Restarts
    BY <1>1 DEF StaysAsIs, Picks, Restarts, Steady, Offer
  <1>2. ASSUME NEW n, Asks(n) PROVE OfferShaped'
    BY <1>2 DEF Asks, Sent, Steady
  <1>3. ASSUME NEW r \in asked, NEW n, FailsQuietly(r, n) PROVE OfferShaped'
    BY <1>3 DEF FailsQuietly, Fails, Replaced, Filled, Steady
  <1>4. ASSUME NEW r \in asked, NEW n, RefreshLost(r, n) PROVE OfferShaped'
    BY <1>4 DEF RefreshLost, Fails, Replaced, Filled, Steady
  <1>5. ASSUME NEW r \in asked, NEW n, Refreshes(r, n) PROVE OfferShaped'
    <2>1. \A g \in 0..MaxRedraws : [sel |-> r.token, gen |-> g] \in Offers
      BY <1>5, OfferFields DEF Refreshes
    <2> QED
      BY <1>5, <2>1 DEF Refreshes, Replaced, Filled, Steady
  <1>6. ASSUME NEW r \in asked, NEW n, DrawsAgain(r, n) PROVE OfferShaped'
    BY <1>6 DEF DrawsAgain, Sent, Steady
  <1>7. ASSUME NEW r \in asked, NEW n, NEW s \in Tokens, DrawLost(r, n, s) PROVE OfferShaped'
    BY <1>7 DEF DrawLost, Fails, Replaced, Filled, Steady
  <1>8. ASSUME NEW r \in asked, NEW n, NEW s \in Tokens, Draws(r, n, s) PROVE OfferShaped'
    BY <1>8 DEF Draws, Replaced, Filled, Steady
  <1>9. ASSUME NEW r \in asked, ShowsDraw(r) PROVE OfferShaped'
    <2>0. 0 \in 0..MaxRedraws
      BY RegistrationAssumption
    <2>1. r.token \in Tokens
      BY <1>9 DEF ShowsDraw
    <2>2. [sel |-> r.token, gen |-> 0] \in Offers
      BY <2>0, <2>1, OfferFields
    <2> QED
      BY <1>9, <2>1, <2>2 DEF ShowsDraw, Offer
  <1>10. ASSUME NEW r \in asked, ShowsRefresh(r) PROVE OfferShaped'
    BY <1>10 DEF ShowsRefresh, Offer
  <1>11. ASSUME NEW r \in asked, Ends(r) PROVE OfferShaped'
    BY <1>11 DEF Ends, Steady
  <1>12. ASSUME NEW s \in Tokens, Expires(s) PROVE OfferShaped'
    BY <1>12 DEF Expires, Steady
  <1> QED
    BY <1>1, <1>2, <1>3, <1>4, <1>5, <1>6, <1>7, <1>8, <1>9, <1>10, <1>11, <1>12 DEF OfferStep

(* The selection of a draw that is not shown yet is nobody else's.         *)
LEMMA UnseenKept ==
  Drawings /\ OfferShaped /\ DrawnUnseen /\ OfferStep => DrawnUnseen'
  <1> SUFFICES ASSUME Drawings /\ OfferShaped /\ DrawnUnseen, OfferStep PROVE DrawnUnseen'
    OBVIOUS
  <1> USE DEF OfferShaped, DrawnUnseen, Held, Drawings, Changed
  <1>1. CASE StaysAsIs \/ Picks \/ Restarts
    BY <1>1 DEF StaysAsIs, Picks, Restarts, Steady, Offer
  <1>2. ASSUME NEW n, Asks(n) PROVE DrawnUnseen'
    BY <1>2 DEF Asks, Sent, Steady
  <1>3. ASSUME NEW r \in asked, NEW n, FailsQuietly(r, n) PROVE DrawnUnseen'
    BY <1>3 DEF FailsQuietly, Fails, Replaced, Filled, Steady
  <1>4. ASSUME NEW r \in asked, NEW n, RefreshLost(r, n) PROVE DrawnUnseen'
    BY <1>4 DEF RefreshLost, Fails, Replaced, Filled, Steady
  <1>5. ASSUME NEW r \in asked, NEW n, Refreshes(r, n) PROVE DrawnUnseen'
    BY <1>5 DEF Refreshes, Replaced, Filled, Steady
  <1>6. ASSUME NEW r \in asked, NEW n, DrawsAgain(r, n) PROVE DrawnUnseen'
    BY <1>6 DEF DrawsAgain, Sent, Steady
  <1>7. ASSUME NEW r \in asked, NEW n, NEW s \in Tokens, DrawLost(r, n, s) PROVE DrawnUnseen'
    BY <1>7 DEF DrawLost, Fails, Replaced, Filled, Steady
  <1>8. ASSUME NEW r \in asked, NEW n, NEW s \in Tokens, Draws(r, n, s) PROVE DrawnUnseen'
    BY <1>8 DEF Draws, Replaced, Filled, Steady
  <1>9. ASSUME NEW r \in asked, ShowsDraw(r) PROVE DrawnUnseen'
    BY <1>9 DEF ShowsDraw, Offer
  <1>10. ASSUME NEW r \in asked, ShowsRefresh(r) PROVE DrawnUnseen'
    BY <1>10 DEF ShowsRefresh, Offer
  <1>11. ASSUME NEW r \in asked, Ends(r) PROVE DrawnUnseen'
    BY <1>11 DEF Ends, Steady
  <1>12. ASSUME NEW s \in Tokens, Expires(s) PROVE DrawnUnseen'
    BY <1>12 DEF Expires, Steady
  <1> QED
    BY <1>1, <1>2, <1>3, <1>4, <1>5, <1>6, <1>7, <1>8, <1>9, <1>10, <1>11, <1>12 DEF OfferStep

(* Without a note no two requests run.                                     *)
LEMMA OneKept ==
  Drawings /\ OneRequest /\ OfferStep => OneRequest'
  <1> SUFFICES ASSUME Drawings /\ OneRequest, OfferStep PROVE OneRequest'
    OBVIOUS
  <1> USE DEF OneRequest, Drawings
  <1>1. CASE StaysAsIs \/ Picks \/ Restarts
    BY <1>1 DEF StaysAsIs, Picks, Restarts, Steady, Offer
  <1>2. ASSUME NEW n, Asks(n) PROVE OneRequest'
    BY <1>2 DEF Asks, Sent, Steady
  <1>3. ASSUME NEW r \in asked, NEW n, FailsQuietly(r, n) PROVE OneRequest'
    BY <1>3 DEF FailsQuietly, Fails, Replaced, Filled, Steady
  <1>4. ASSUME NEW r \in asked, NEW n, RefreshLost(r, n) PROVE OneRequest'
    BY <1>4 DEF RefreshLost, Fails, Replaced, Filled, Steady
  <1>5. ASSUME NEW r \in asked, NEW n, Refreshes(r, n) PROVE OneRequest'
    BY <1>5 DEF Refreshes, Replaced, Filled, Steady
  <1>6. ASSUME NEW r \in asked, NEW n, DrawsAgain(r, n) PROVE OneRequest'
    BY <1>6 DEF DrawsAgain, Sent, Steady
  <1>7. ASSUME NEW r \in asked, NEW n, NEW s \in Tokens, DrawLost(r, n, s) PROVE OneRequest'
    BY <1>7 DEF DrawLost, Fails, Replaced, Filled, Steady
  <1>8. ASSUME NEW r \in asked, NEW n, NEW s \in Tokens, Draws(r, n, s) PROVE OneRequest'
    BY <1>8 DEF Draws, Replaced, Filled, Steady
  <1>9. ASSUME NEW r \in asked, ShowsDraw(r) PROVE OneRequest'
    BY <1>9 DEF ShowsDraw, Offer
  <1>10. ASSUME NEW r \in asked, ShowsRefresh(r) PROVE OneRequest'
    BY <1>10 DEF ShowsRefresh, Offer
  <1>11. ASSUME NEW r \in asked, Ends(r) PROVE OneRequest'
    BY <1>11 DEF Ends, Steady
  <1>12. ASSUME NEW s \in Tokens, Expires(s) PROVE OneRequest'
    BY <1>12 DEF Expires, Steady
  <1> QED
    BY <1>1, <1>2, <1>3, <1>4, <1>5, <1>6, <1>7, <1>8, <1>9, <1>10, <1>11, <1>12 DEF OfferStep

(* The page has the present batch, or its answer is on the way.            *)
LEMMA CurrentKept ==
  Drawings /\ OfferInv /\ OfferStep => OfferCurrent'
  <1> SUFFICES ASSUME Drawings /\ OfferInv, OfferStep PROVE OfferCurrent'
    OBVIOUS
  <1> USE DEF OfferInv, OfferShaped, DrawnUnseen, OneRequest, OfferCurrent, Kept, Held, Drawings, Changed, RefreshCame
  <1>1. CASE StaysAsIs \/ Picks \/ Restarts
    BY <1>1 DEF StaysAsIs, Picks, Restarts, Steady, Offer
  <1>2. ASSUME NEW n, Asks(n) PROVE OfferCurrent'
    BY <1>2 DEF Asks, Sent, Steady
  <1>3. ASSUME NEW r \in asked, NEW n, FailsQuietly(r, n) PROVE OfferCurrent'
    BY <1>3 DEF FailsQuietly, Fails, Replaced, Filled, Steady
  <1>4. ASSUME NEW r \in asked, NEW n, RefreshLost(r, n) PROVE OfferCurrent'
    BY <1>4 DEF RefreshLost, Fails, Replaced, Filled, Steady
  <1>5. ASSUME NEW r \in asked, NEW n, Refreshes(r, n) PROVE OfferCurrent'
    BY <1>5 DEF Refreshes, Replaced, Filled, Steady
  <1>6. ASSUME NEW r \in asked, NEW n, DrawsAgain(r, n) PROVE OfferCurrent'
    BY <1>6 DEF DrawsAgain, Sent, Steady
  <1>7. ASSUME NEW r \in asked, NEW n, NEW s \in Tokens, DrawLost(r, n, s) PROVE OfferCurrent'
    BY <1>7 DEF DrawLost, Fails, Replaced, Filled, Steady
  <1>8. ASSUME NEW r \in asked, NEW n, NEW s \in Tokens, Draws(r, n, s) PROVE OfferCurrent'
    BY <1>8 DEF Draws, Replaced, Filled, Steady
  <1>9. ASSUME NEW r \in asked, ShowsDraw(r) PROVE OfferCurrent'
    <2>1. r.batch = [sel |-> r.token, gen |-> selections[r.token].gen]
      BY <1>9 DEF ShowsDraw
    <2>2. ~overlapped' => asked' = {}
      BY <1>9 DEF ShowsDraw
    <2>3. page'.token = r.token /\ page'.shown = r.batch /\ selections' = selections
      BY <1>9 DEF ShowsDraw, Offer
    <2> QED
      BY <2>1, <2>2, <2>3
  <1>10. ASSUME NEW r \in asked, ShowsRefresh(r) PROVE OfferCurrent'
    BY <1>10 DEF ShowsRefresh, Offer
  <1>11. ASSUME NEW r \in asked, Ends(r) PROVE OfferCurrent'
    BY <1>11 DEF Ends, Steady
  <1>12. ASSUME NEW s \in Tokens, Expires(s) PROVE OfferCurrent'
    BY <1>12 DEF Expires, Steady
  <1> QED
    BY <1>1, <1>2, <1>3, <1>4, <1>5, <1>6, <1>7, <1>8, <1>9, <1>10, <1>11, <1>12 DEF OfferStep

(* All of it together, initially and from step to step.                    *)
LEMMA RegistrationStarts == RegistrationInit => RegistrationTypeOK /\ OfferInv
  <1> SUFFICES ASSUME RegistrationInit PROVE RegistrationTypeOK /\ OfferInv
    OBVIOUS
  <1>1. RegistrationTypeOK
    <2>1. Fresh \in RegisterPages
      BY RegistrationAssumption DEF Fresh, RegisterPages
    <2>2. selections \in [Tokens -> [state : {"new", "live", "gone"}, gen : 0..MaxRedraws]]
      BY RegistrationAssumption DEF RegistrationInit
    <2> QED
      BY <2>1, <2>2 DEF RegistrationInit, RegistrationTypeOK
  <1>2. page.token = NoOffer /\ page.shown = NoOffer /\ page.picked = NoOffer /\ asked = {}
    BY DEF RegistrationInit, Fresh
  <1>3. \A s \in Tokens : selections[s].gen = 0
    BY DEF RegistrationInit
  <1> QED
    BY <1>1, <1>2, <1>3 DEF OfferInv, OfferShaped, DrawnUnseen, OneRequest, OfferCurrent

LEMMA RegistrationKept ==
  RegistrationTypeOK /\ OfferInv /\ [RegistrationNext]_registrationVars => (RegistrationTypeOK /\ OfferInv)'
  <1> SUFFICES ASSUME RegistrationTypeOK, OfferInv, [RegistrationNext]_registrationVars
               PROVE  (RegistrationTypeOK /\ OfferInv)'
    OBVIOUS
  <1>1. RegistrationTypeOK'
    BY RegistrationTyped DEF OfferInv
  <1>2. OfferStep /\ Drawings
    BY OfferSteps, RegistrationAssumption DEF OfferInv, Drawings, RegistrationTypeOK, Selections
  <1> QED
    BY <1>1, <1>2, ShapedKept, UnseenKept, OneKept, CurrentKept DEF OfferInv

\* The page, the requests and the selections stay what they are declared to be.
THEOREM RegistrationTypes == RegistrationSpec => []RegistrationTypeOK
  BY RegistrationStarts, RegistrationKept, PTL DEF RegistrationSpec

\* However draws, refreshes, picks and registrations overtake each other, and
\* whatever expires meanwhile, a number that is picked when all is quiet is one
\* that the server keeps, unless requests overlapped or an answer was lost.
THEOREM OffersStand == RegistrationSpec => []OfferStands
  <1>1. RegistrationTypeOK /\ OfferInv => OfferStands
    BY DEF OfferInv, OfferShaped, OfferCurrent, OfferStands, Kept
  <1> QED
    BY <1>1, RegistrationStarts, RegistrationKept, PTL DEF RegistrationSpec

-----------------------------------------------------------------------------
(* Profile: calls, links and the copy of the row.                          *)

(* Profile: what the calls carry.                                          *)
CallShaped ==
  /\ \A c \in calls : /\ c.op = "verify" => c.seen \in Copies
                      /\ c.op \in {"verify", "read"} => c.nick = NoValue /\ c.avatar = NoValue
  /\ me = NoValue => settings = NoValue

(* A link to verify goes to the address of the row, until one is verified. *)
LinksFit == \A l \in links : l.op = "verify" => l.to = email \/ row.verified

(* After a logout nothing comes that is not noted.                         *)
LoggedOut == me = NoValue /\ ~late => calls = {}

(* One call at a time: it brings the row, and the copy is that of the row  *)
(* as long as no change of it has been answered.                           *)
Same(c) == c.nick = row.nick /\ c.avatar = row.avatar
Changes(c) == c.op \in {"save", "upload"} /\ c.answer # NoValue
CopyKept ==
  ~raced =>
    /\ \A c, d \in calls : c = d
    /\ \A c \in calls : IF c.op = "verify" THEN Same(c.seen) ELSE c.answer # NoValue => Same(c.answer)
    /\ me # NoValue /\ (\A c \in calls : ~Changes(c)) => Same(me)

LEMMA CopyFields ==
  /\ \A k \in Copies : k.nick \in Values /\ k.avatar \in Values /\ k.verified \in BOOLEAN
  /\ \A k \in Copies : [k EXCEPT !.verified = TRUE] \in Copies /\ [k EXCEPT !.verified = TRUE].nick = k.nick
                       /\ [k EXCEPT !.verified = TRUE].avatar = k.avatar /\ [k EXCEPT !.verified = TRUE].verified
  BY DEF Copies

(* The call d as it goes on, with another answer or without its page.      *)
GoesOn(c, d) ==
  d \in Calls /\ d.op = c.op /\ d.nick = c.nick /\ d.avatar = c.avatar /\ d.seen = c.seen

LEMMA CallsGoOn ==
  ASSUME NEW c \in Calls
  PROVE  /\ GoesOn(c, [c EXCEPT !.mine = FALSE]) /\ [c EXCEPT !.mine = FALSE].answer = c.answer
         /\ \A k \in Copies : GoesOn(c, [c EXCEPT !.answer = k]) /\ [c EXCEPT !.answer = k].answer = k
  BY DEF Calls, GoesOn

LEMMA CallFields ==
  ASSUME NEW c \in Calls
  PROVE  /\ c.op \in {"save", "upload", "verify", "read"} /\ c.nick \in Values \union {NoValue}
         /\ c.avatar \in Values \union {NoValue} /\ c.seen \in Copies \union {NoValue}
         /\ c.answer \in Copies \union {NoValue}
  BY DEF Calls

LEMMA UnmountedCalls ==
  ASSUME calls \subseteq Calls
  PROVE  /\ \A d \in Unmounted : \E c \in calls : GoesOn(c, d) /\ d.answer = c.answer /\ c.op # "read"
         /\ \A c \in calls : c.op # "read" => Unmounted # {}
         /\ Unmounted \subseteq Calls
  BY CallsGoOn DEF Unmounted, GoesOn

(* A call is made: k.                                                      *)
NewCall(k, op, nick, avatar) ==
  /\ k \in Calls /\ k.op = op /\ k.nick = nick /\ k.avatar = avatar /\ k.answer = NoValue
  /\ k.seen = IF op = "verify" THEN me ELSE NoValue

LEMMA Called ==
  ASSUME ProfileTypeOK, NEW op \in {"save", "upload", "verify"}, NEW nick \in Values \union {NoValue},
         NEW avatar \in Values \union {NoValue}, Call(op, nick, avatar)
  PROVE  /\ \E k : NewCall(k, op, nick, avatar) /\ calls' = calls \union {k}
         /\ raced' = (raced \/ calls # {}) /\ UNCHANGED <<row, email, me, links, proved, late>>
  <1> DEFINE seen == IF op = "verify" THEN me ELSE NoValue
             k == [op |-> op, nick |-> nick, avatar |-> avatar, mine |-> TRUE,
                   seen |-> seen, answer |-> NoValue]
  <1>1. seen \in Copies \union {NoValue}
    BY DEF ProfileTypeOK
  <1> HIDE DEF seen
  <1>2. k \in Calls /\ k.op = op /\ k.nick = nick /\ k.avatar = avatar /\ k.answer = NoValue /\ k.seen = seen
    BY <1>1 DEF Calls
  <1>3. calls' = calls \union {k}
    BY DEF Call, seen
  <1> HIDE DEF k
  <1>4. NewCall(k, op, nick, avatar)
    BY <1>2 DEF NewCall, seen
  <1> QED
    BY <1>3, <1>4 DEF Call

LEMMA Home ==
  ASSUME ProfileTypeOK, GoHome
  PROVE  /\ \E k : NewCall(k, "read", NoValue, NoValue) /\ calls' = Unmounted \union {k}
         /\ raced' = (raced \/ Unmounted # {}) /\ UNCHANGED <<row, email, me, links, proved, late>>
  <1> DEFINE k == [op |-> "read", nick |-> NoValue, avatar |-> NoValue, seen |-> NoValue,
                   mine |-> TRUE, answer |-> NoValue]
  <1>1. k \in Calls /\ NewCall(k, "read", NoValue, NoValue)
    BY DEF Calls, NewCall
  <1>2. calls' = Unmounted \union {k}
    BY DEF GoHome
  <1> HIDE DEF k
  <1> QED
    BY <1>1, <1>2 DEF GoHome

(* A call c is answered with the row, which it may have changed.           *)
LEMMA AnsweredCall ==
  ASSUME ProfileTypeOK, NEW c \in calls, Answered(c)
  PROVE  /\ row' \in Copies /\ row'.verified = row.verified /\ c.answer = NoValue
         /\ c.nick = NoValue => row'.nick = row.nick
         /\ c.avatar = NoValue => row'.avatar = row.avatar
         /\ UNCHANGED <<email, me, settings, proved, raced, late>>
         /\ \/ /\ \E d : GoesOn(c, d) /\ d.answer = row' /\ calls' = (calls \ {c}) \union {d}
               /\ UNCHANGED links
            \/ /\ c.op = "verify" /\ calls' = calls \ {c}
               /\ links' = links \union {[op |-> "verify", to |-> email]}
  <1> DEFINE nick == IF c.nick # NoValue THEN c.nick ELSE row.nick
             avatar == IF c.avatar # NoValue THEN c.avatar ELSE row.avatar
  <1>1. c \in Calls /\ row \in Copies
    BY DEF ProfileTypeOK
  <1>2. nick \in Values /\ avatar \in Values
    BY <1>1, CallFields, CopyFields
  <1>3. row' = [row EXCEPT !.nick = nick, !.avatar = avatar]
    BY DEF Answered
  <1>4. /\ c.nick = NoValue => nick = row.nick
        /\ c.avatar = NoValue => avatar = row.avatar
    OBVIOUS
  <1> HIDE DEF nick, avatar
  <1>5. row' \in Copies /\ row'.verified = row.verified /\ row'.nick = nick /\ row'.avatar = avatar
    BY <1>1, <1>2, <1>3 DEF Copies
  <1> DEFINE d == [c EXCEPT !.answer = row']
  <1>6. GoesOn(c, d) /\ d.answer = row'
    BY <1>1, <1>5, CallsGoOn
  <1>7. /\ c.answer = NoValue /\ UNCHANGED <<email, me, settings, proved, raced, late>>
        /\ calls' = (calls \ {c}) \union (IF c.op = "verify" /\ ~row.verified THEN {} ELSE {d})
        /\ links' = IF c.op = "verify" /\ ~row.verified
                    THEN links \union {[op |-> "verify", to |-> email]} ELSE links
    BY DEF Answered
  <1> HIDE DEF d
  <1> QED
    BY <1>4, <1>5, <1>6, <1>7

(* The copy that an answer brings.                                         *)
LEMMA ShownCopy ==
  ASSUME ProfileTypeOK, CallShaped, NEW c \in calls, Shown(c)
  PROVE  /\ me' \in Copies /\ c.answer # NoValue /\ calls' = calls \ {c}
         /\ c.op = "verify" => me'.nick = c.seen.nick /\ me'.avatar = c.seen.avatar
         /\ c.op # "verify" => me' = c.answer
         /\ UNCHANGED <<row, email, settings, links, proved, raced, late>>
  <1>1. c \in Calls /\ c.answer \in Copies \union {NoValue} /\ (c.op = "verify" => c.seen \in Copies)
    BY CallFields DEF ProfileTypeOK, CallShaped
  <1> QED
    BY <1>1, CopyFields DEF Shown

LEMMA FormsShown ==
  /\ \A n \in Values, a \in Values : [nick |-> n, avatar |-> a, editing |-> FALSE] \in ProfileForms
  /\ \A f \in ProfileForms, v \in Values :
       /\ [f EXCEPT !["nick"] = v] \in ProfileForms /\ [f EXCEPT !["avatar"] = v] \in ProfileForms
       /\ [f EXCEPT !.avatar = v] \in ProfileForms
  /\ \A f \in ProfileForms :
       /\ [f EXCEPT !.editing = TRUE] \in ProfileForms /\ [f EXCEPT !.editing = FALSE] \in ProfileForms
       /\ f.nick \in Values /\ f.avatar \in Values
  BY DEF ProfileForms

(* The row, the copy, the form, the calls and the links are of their kinds. *)
LEMMA ProfileTyped ==
  ProfileTypeOK /\ CallShaped /\ [ProfileNext]_profileVars => (ProfileTypeOK /\ CallShaped)'
  <1> SUFFICES ASSUME ProfileTypeOK /\ CallShaped, [ProfileNext]_profileVars PROVE (ProfileTypeOK /\ CallShaped)'
    OBVIOUS
  <1> USE DEF ProfileTypeOK, CallShaped
  <1>1. CASE OpenSettings
    BY <1>1, CopyFields, FormsShown DEF OpenSettings
  <1>2. CASE GoHome
    <2>1. /\ \E k : NewCall(k, "read", NoValue, NoValue) /\ calls' = Unmounted \union {k}
          /\ raced' = (raced \/ Unmounted # {}) /\ UNCHANGED <<row, email, me, links, proved, late>>
      BY <1>2, Home
    <2>2. calls \subseteq Calls
      BY DEF ProfileTypeOK
    <2> QED
      BY <1>2, <2>1, <2>2, UnmountedCalls DEF GoHome, GoesOn, NewCall, ProfileTypeOK, CallShaped
  <1>3. CASE Logout
    <2>1. calls \subseteq Calls
      BY DEF ProfileTypeOK
    <2> QED
      BY <1>3, <2>1, UnmountedCalls DEF Logout, GoesOn, ProfileTypeOK, CallShaped
  <1>4. CASE Save
    <2>0. settings \in ProfileForms /\ me \in Copies
      BY <1>4 DEF Save, ProfileTypeOK, CallShaped
    <2> DEFINE nick == IF settings.nick # me.nick THEN settings.nick ELSE NoValue
               avatar == IF settings.avatar # me.avatar THEN settings.avatar ELSE NoValue
    <2>1. nick \in Values \union {NoValue} /\ avatar \in Values \union {NoValue} /\ Call("save", nick, avatar)
      BY <1>4, <2>0, FormsShown DEF Save
    <2> HIDE DEF nick, avatar
    <2>2. (\E k : NewCall(k, "save", nick, avatar) /\ calls' = calls \union {k})
          /\ raced' = (raced \/ calls # {}) /\ UNCHANGED <<row, email, me, links, proved, late>>
      BY <2>1, Called
    <2> QED
      BY <1>4, <2>0, <2>2 DEF Save, NewCall, ProfileTypeOK, CallShaped
  <1>5. CASE SendVerify
    <2>0. settings \in ProfileForms /\ me \in Copies /\ Call("verify", NoValue, NoValue)
      BY <1>5 DEF SendVerify, ProfileTypeOK, CallShaped
    <2>2. (\E k : NewCall(k, "verify", NoValue, NoValue) /\ calls' = calls \union {k})
          /\ raced' = (raced \/ calls # {}) /\ UNCHANGED <<row, email, me, links, proved, late>>
      BY <2>0, Called
    <2> QED
      BY <1>5, <2>0, <2>2 DEF SendVerify, NewCall, ProfileTypeOK, CallShaped
  <1>6. CASE EditEmail
    <2>1. settings \in ProfileForms /\ settings' = [settings EXCEPT !.editing = TRUE]
      BY <1>6 DEF EditEmail, ProfileTypeOK
    <2>2. settings' \in ProfileForms
      BY <2>1, FormsShown
    <2> QED
      BY <1>6, <2>2 DEF EditEmail
  <1>7. ASSUME NEW v \in Values, Edit("nick", v) \/ Edit("avatar", v) PROVE (ProfileTypeOK /\ CallShaped)'
    BY <1>7, FormsShown DEF Edit
  <1>8. ASSUME NEW v \in Values, PickAvatar(v) PROVE (ProfileTypeOK /\ CallShaped)'
    <2>0. settings \in ProfileForms /\ me \in Copies /\ Call("upload", NoValue, v)
      BY <1>8 DEF PickAvatar, ProfileTypeOK, CallShaped
    <2>1. settings' \in ProfileForms
      BY <1>8, <2>0, FormsShown DEF PickAvatar
    <2>2. (\E k : NewCall(k, "upload", NoValue, v) /\ calls' = calls \union {k})
          /\ raced' = (raced \/ calls # {}) /\ UNCHANGED <<row, email, me, links, proved, late>>
      BY <2>0, Called
    <2> QED
      BY <1>8, <2>0, <2>1, <2>2, ProfileAssumption DEF NewCall, ProfileTypeOK, CallShaped
  <1>9. ASSUME NEW e \in Emails, AskChange(e) PROVE (ProfileTypeOK /\ CallShaped)'
    <2>1. settings \in ProfileForms /\ settings' = [settings EXCEPT !.editing = FALSE]
      BY <1>9 DEF AskChange, ProfileTypeOK
    <2>2. settings' \in ProfileForms /\ [op |-> "change", to |-> e] \in MailLinks
      BY <2>1, FormsShown DEF MailLinks
    <2> QED
      BY <1>9, <2>2 DEF AskChange, Mails
  <1>10. ASSUME NEW l \in links, ClickVerify(l) PROVE (ProfileTypeOK /\ CallShaped)'
    BY <1>10, CopyFields DEF ClickVerify, Mails, MailLinks
  <1>11. ASSUME NEW l \in links, ClickChange(l) PROVE (ProfileTypeOK /\ CallShaped)'
    BY <1>11, CopyFields DEF ClickChange, Mails, MailLinks
  <1>12. ASSUME NEW l \in links, LinkLapses(l) PROVE (ProfileTypeOK /\ CallShaped)'
    BY <1>12 DEF LinkLapses, Mails
  <1>13. ASSUME NEW c \in calls, Answered(c) PROVE (ProfileTypeOK /\ CallShaped)'
    <2>1. links' \subseteq MailLinks
      BY <1>13, AnsweredCall DEF MailLinks, ProfileTypeOK
    <2> QED
      BY <1>13, <2>1, AnsweredCall DEF GoesOn, ProfileTypeOK, CallShaped
  <1>14. ASSUME NEW c \in calls, Fail(c) PROVE (ProfileTypeOK /\ CallShaped)'
    BY <1>14 DEF Fail
  <1>15. ASSUME NEW c \in calls, Shown(c) PROVE (ProfileTypeOK /\ CallShaped)'
    BY <1>15, ShownCopy, ProfileAssumption DEF ProfileTypeOK, CallShaped
  <1>0. CASE UNCHANGED profileVars
    BY <1>0 DEF profileVars
  <1> QED
    BY <1>0, <1>1, <1>2, <1>3, <1>4, <1>5, <1>6, <1>7, <1>8, <1>9, <1>10, <1>11,
       <1>12, <1>13, <1>14, <1>15
    DEF ProfileNext

(* The links to verify are for the present address.                       *)
LEMMA LinksKept ==
  ProfileTypeOK /\ CallShaped /\ LinksFit /\ VerifiedIsProved /\ [ProfileNext]_profileVars => (LinksFit /\ VerifiedIsProved)'
  <1> SUFFICES ASSUME ProfileTypeOK /\ CallShaped /\ LinksFit /\ VerifiedIsProved, [ProfileNext]_profileVars PROVE (LinksFit /\ VerifiedIsProved)'
    OBVIOUS
  <1> USE DEF LinksFit, VerifiedIsProved
  <1>1. CASE OpenSettings
    BY <1>1 DEF OpenSettings
  <1>2. CASE GoHome
    BY <1>2 DEF GoHome
  <1>3. CASE Logout
    BY <1>3 DEF Logout
  <1>4. CASE Save
    BY <1>4 DEF Save, Call
  <1>5. CASE SendVerify
    BY <1>5 DEF SendVerify, Call
  <1>6. CASE EditEmail
    BY <1>6 DEF EditEmail
  <1>7. ASSUME NEW v \in Values, Edit("nick", v) \/ Edit("avatar", v) PROVE (LinksFit /\ VerifiedIsProved)'
    BY <1>7 DEF Edit
  <1>8. ASSUME NEW v \in Values, PickAvatar(v) PROVE (LinksFit /\ VerifiedIsProved)'
    BY <1>8 DEF PickAvatar, Call
  <1>9. ASSUME NEW e \in Emails, AskChange(e) PROVE (LinksFit /\ VerifiedIsProved)'
    BY <1>9 DEF AskChange, Mails
  <1>10. ASSUME NEW l \in links, ClickVerify(l) PROVE (LinksFit /\ VerifiedIsProved)'
    BY <1>10, CopyFields DEF ClickVerify, Mails, ProfileTypeOK
  <1>11. ASSUME NEW l \in links, ClickChange(l) PROVE (LinksFit /\ VerifiedIsProved)'
    BY <1>11, CopyFields DEF ClickChange, Mails, ProfileTypeOK
  <1>12. ASSUME NEW l \in links, LinkLapses(l) PROVE (LinksFit /\ VerifiedIsProved)'
    BY <1>12 DEF LinkLapses, Mails
  <1>13. ASSUME NEW c \in calls, Answered(c) PROVE (LinksFit /\ VerifiedIsProved)'
    <2>1. /\ row'.verified = row.verified /\ email' = email /\ proved' = proved
          /\ links' = links \/ links' = links \union {[op |-> "verify", to |-> email]}
      BY <1>13, AnsweredCall
    <2> QED
      BY <2>1
  <1>14. ASSUME NEW c \in calls, Fail(c) PROVE (LinksFit /\ VerifiedIsProved)'
    BY <1>14 DEF Fail
  <1>15. ASSUME NEW c \in calls, Shown(c) PROVE (LinksFit /\ VerifiedIsProved)'
    BY <1>15 DEF Shown
  <1>0. CASE UNCHANGED profileVars
    BY <1>0 DEF profileVars
  <1> QED
    BY <1>0, <1>1, <1>2, <1>3, <1>4, <1>5, <1>6, <1>7, <1>8, <1>9, <1>10, <1>11,
       <1>12, <1>13, <1>14, <1>15
    DEF ProfileNext

(* Nothing is asked for by nobody.                                         *)
LEMMA LoggedOutKept ==
  ProfileTypeOK /\ CallShaped /\ LoggedOut /\ [ProfileNext]_profileVars => LoggedOut'
  <1> SUFFICES ASSUME ProfileTypeOK /\ CallShaped /\ LoggedOut, [ProfileNext]_profileVars PROVE LoggedOut'
    OBVIOUS
  <1> USE DEF LoggedOut, CallShaped
  <1>1. CASE OpenSettings
    BY <1>1 DEF OpenSettings
  <1>2. CASE GoHome
    BY <1>2 DEF GoHome
  <1>3. CASE Logout
    BY <1>3, UnmountedCalls DEF Logout, ProfileTypeOK
  <1>4. CASE Save
    BY <1>4 DEF Save, Call
  <1>5. CASE SendVerify
    BY <1>5 DEF SendVerify, Call
  <1>6. CASE EditEmail
    BY <1>6 DEF EditEmail
  <1>7. ASSUME NEW v \in Values, Edit("nick", v) \/ Edit("avatar", v) PROVE LoggedOut'
    BY <1>7 DEF Edit
  <1>8. ASSUME NEW v \in Values, PickAvatar(v) PROVE LoggedOut'
    BY <1>8 DEF PickAvatar, Call
  <1>9. ASSUME NEW e \in Emails, AskChange(e) PROVE LoggedOut'
    BY <1>9 DEF AskChange, Mails
  <1>10. ASSUME NEW l \in links, ClickVerify(l) PROVE LoggedOut'
    BY <1>10 DEF ClickVerify, Mails
  <1>11. ASSUME NEW l \in links, ClickChange(l) PROVE LoggedOut'
    BY <1>11 DEF ClickChange, Mails
  <1>12. ASSUME NEW l \in links, LinkLapses(l) PROVE LoggedOut'
    BY <1>12 DEF LinkLapses, Mails
  <1>13. ASSUME NEW c \in calls, Answered(c) PROVE LoggedOut'
    BY <1>13 DEF Answered
  <1>14. ASSUME NEW c \in calls, Fail(c) PROVE LoggedOut'
    BY <1>14 DEF Fail
  <1>15. ASSUME NEW c \in calls, Shown(c) PROVE LoggedOut'
    BY <1>15, ShownCopy, ProfileAssumption DEF Shown
  <1>0. CASE UNCHANGED profileVars
    BY <1>0 DEF profileVars
  <1> QED
    BY <1>0, <1>1, <1>2, <1>3, <1>4, <1>5, <1>6, <1>7, <1>8, <1>9, <1>10, <1>11,
       <1>12, <1>13, <1>14, <1>15
    DEF ProfileNext

(* One more call, for somebody who is logged in.                           *)
AddsCall ==
  /\ \E k : k.answer = NoValue /\ (k.op = "verify" => k.seen = me) /\ calls' = calls \union {k}
  /\ raced' = (raced \/ calls # {}) /\ row' = row /\ me' = me /\ me # NoValue

LEMMA CallAdded == CopyKept /\ AddsCall => CopyKept'
  BY DEF CopyKept, AddsCall, Changes, Same

(* Calls that go on without their page are as many as they were.           *)
LEMMA UnmountedOne ==
  ASSUME calls \subseteq Calls, \A c, d \in calls : c = d
  PROVE  /\ \A c, d \in Unmounted : c = d
         /\ \A d \in Unmounted : \E c \in calls : GoesOn(c, d) /\ d.answer = c.answer
  <1>1. \A d \in Unmounted : \E c \in calls : d = [c EXCEPT !.mine = FALSE]
    BY DEF Unmounted
  <1>2. \A c, d \in Unmounted : c = d
    BY <1>1
  <1> QED
    BY <1>2, UnmountedCalls

(* The only call brings what the row is.                                   *)
LEMMA CopyKeeps ==
  ProfileTypeOK /\ CallShaped /\ CopyKept /\ [ProfileNext]_profileVars => CopyKept'
  <1> SUFFICES ASSUME ProfileTypeOK /\ CallShaped /\ CopyKept, [ProfileNext]_profileVars PROVE CopyKept'
    OBVIOUS
  <1> USE DEF CopyKept, Changes, Same
  <1>1. CASE OpenSettings
    BY <1>1 DEF OpenSettings
  <1>2. CASE GoHome
    <2>1. \E k : NewCall(k, "read", NoValue, NoValue) /\ calls' = Unmounted \union {k}
      BY <1>2, Home
    <2>2. /\ raced' = (raced \/ Unmounted # {}) /\ row' = row /\ me' = me
          /\ calls \subseteq Calls
      BY <1>2 DEF GoHome, ProfileTypeOK
    <2>3. \A c \in calls : Changes(c) => Unmounted # {}
      BY <2>2, UnmountedCalls DEF Changes
    <2> QED
      BY <2>1, <2>2, <2>3 DEF NewCall
  <1>3. CASE Logout
    <2>1. /\ me' = NoValue /\ calls' = Unmounted /\ row' = row /\ raced' = raced
          /\ calls \subseteq Calls
      BY <1>3 DEF Logout, ProfileTypeOK
    <2> QED
      BY <2>1, UnmountedOne DEF GoesOn
  <1>4. CASE Save
    <2> DEFINE nick == IF settings.nick # me.nick THEN settings.nick ELSE NoValue
               avatar == IF settings.avatar # me.avatar THEN settings.avatar ELSE NoValue
    <2>0. /\ settings \in ProfileForms /\ me \in Copies
          /\ Call("save", nick, avatar) /\ nick \in Values \union {NoValue} /\ avatar \in Values \union {NoValue}
      BY <1>4, FormsShown DEF Save, ProfileTypeOK, CallShaped
    <2> HIDE DEF nick, avatar
    <2>1. AddsCall
      BY <2>0, Called, ProfileAssumption DEF AddsCall, NewCall
    <2> QED
      BY <2>1, CallAdded DEF CopyKept
  <1>5. CASE SendVerify
    <2>1. me \in Copies /\ Call("verify", NoValue, NoValue)
      BY <1>5 DEF SendVerify, ProfileTypeOK, CallShaped
    <2>2. AddsCall
      BY <2>1, Called, ProfileAssumption DEF AddsCall, NewCall
    <2> QED
      BY <2>2, CallAdded DEF CopyKept
  <1>6. CASE EditEmail
    BY <1>6 DEF EditEmail
  <1>7. ASSUME NEW v \in Values, Edit("nick", v) \/ Edit("avatar", v) PROVE CopyKept'
    BY <1>7 DEF Edit
  <1>8. ASSUME NEW v \in Values, PickAvatar(v) PROVE CopyKept'
    <2>1. me \in Copies /\ Call("upload", NoValue, v)
      BY <1>8 DEF PickAvatar, ProfileTypeOK, CallShaped
    <2>2. AddsCall
      BY <2>1, Called, ProfileAssumption DEF AddsCall, NewCall
    <2> QED
      BY <2>2, CallAdded DEF CopyKept
  <1>9. ASSUME NEW e \in Emails, AskChange(e) PROVE CopyKept'
    BY <1>9 DEF AskChange, Mails
  <1>10. ASSUME NEW l \in links, ClickVerify(l) PROVE CopyKept'
    BY <1>10 DEF ClickVerify, Mails
  <1>11. ASSUME NEW l \in links, ClickChange(l) PROVE CopyKept'
    <2>1. row'.nick = row.nick /\ row'.avatar = row.avatar
      BY <1>11, CopyFields DEF ClickChange, Mails, ProfileTypeOK
    <2>2. UNCHANGED <<calls, me, raced>>
      BY <1>11 DEF ClickChange, Mails
    <2> QED
      BY <2>1, <2>2
  <1>12. ASSUME NEW l \in links, LinkLapses(l) PROVE CopyKept'
    BY <1>12 DEF LinkLapses, Mails
  <1>13. ASSUME NEW c \in calls, Answered(c) PROVE CopyKept'
    <2>1. c \in Calls /\ (c.op \in {"verify", "read"} => row'.nick = row.nick /\ row'.avatar = row.avatar)
      BY <1>13, AnsweredCall DEF ProfileTypeOK, CallShaped
    <2>2. c.op \in {"save", "upload", "verify", "read"}
      BY <2>1, CallFields
    <2>3. raced' = raced /\ me' = me /\ row' \in Copies /\ c.answer = NoValue
      BY <1>13, AnsweredCall
    <2>4. CASE c.op = "verify" /\ calls' = calls \ {c}
      BY <2>1, <2>3, <2>4
    <2>5. ASSUME NEW d, GoesOn(c, d), d.answer = row', calls' = (calls \ {c}) \union {d}
          PROVE  CopyKept'
      BY <2>1, <2>2, <2>3, <2>5, ProfileAssumption DEF GoesOn
    <2> QED
      BY <1>13, <2>4, <2>5, AnsweredCall
  <1>14. ASSUME NEW c \in calls, Fail(c) PROVE CopyKept'
    BY <1>14 DEF Fail
  <1>15. ASSUME NEW c \in calls, Shown(c) PROVE CopyKept'
    <2>1. /\ me' \in Copies /\ c.answer # NoValue /\ calls' = calls \ {c}
          /\ (c.op = "verify" => me'.nick = c.seen.nick /\ me'.avatar = c.seen.avatar)
          /\ (c.op # "verify" => me' = c.answer)
          /\ row' = row /\ raced' = raced
      BY <1>15, ShownCopy
    <2> QED
      BY <2>1
  <1>0. CASE UNCHANGED profileVars
    BY <1>0 DEF profileVars
  <1> QED
    BY <1>0, <1>1, <1>2, <1>3, <1>4, <1>5, <1>6, <1>7, <1>8, <1>9, <1>10, <1>11,
       <1>12, <1>13, <1>14, <1>15
    DEF ProfileNext

LEMMA ProfileStarts ==
  ProfileInit => /\ ProfileTypeOK /\ CallShaped
                 /\ LinksFit /\ VerifiedIsProved /\ LoggedOut /\ CopyKept
  <1> SUFFICES ASSUME ProfileInit
               PROVE  /\ ProfileTypeOK /\ CallShaped
                      /\ LinksFit /\ VerifiedIsProved /\ LoggedOut /\ CopyKept
    OBVIOUS
  <1>1. PICK v \in Values : row = [nick |-> v, avatar |-> v, verified |-> FALSE]
    BY DEF ProfileInit
  <1>2. row \in Copies /\ row.verified = FALSE /\ me = row
    BY <1>1 DEF ProfileInit, Copies
  <1> QED
    BY <1>2, ProfileAssumption
    DEF ProfileInit, ProfileTypeOK, CallShaped, LinksFit, VerifiedIsProved, LoggedOut, CopyKept, Same

\* The row, its copy, the form, the calls and the links stay what they are
\* declared to be.
THEOREM ProfileTypes == ProfileSpec => []ProfileTypeOK
  BY ProfileStarts, ProfileTyped, PTL DEF ProfileSpec

\* However links are used late, twice or after another address was asked for,
\* an address counts as verified only when its owner clicked a link to it.
THEOREM VerifiedAlwaysProved == ProfileSpec => []VerifiedIsProved
  BY ProfileStarts, ProfileTyped, LinksKept, PTL DEF ProfileSpec

\* Whichever way a lone request ends, and whether its page is still there, the
\* copy at rest shows what the row has.
THEOREM CopiesMatch == ProfileSpec => []CopyMatchesRow
  <1>1. ProfileTypeOK /\ CopyKept => CopyMatchesRow
    BY DEF CopyKept, CopyMatchesRow, Same
  <1> QED
    BY <1>1, ProfileStarts, ProfileTyped, CopyKeeps, PTL DEF ProfileSpec

\* Once logged out the store is not filled again by any answer, unless the
\* logout came while a request was on its way.
THEOREM NobodyComesBack == ProfileSpec => StaysLoggedOut
  <1>1. ProfileTypeOK /\ CallShaped /\ LoggedOut /\ [ProfileNext]_profileVars
          => (me = NoValue /\ ~late => me' = NoValue)
    <2> SUFFICES ASSUME CallShaped, LoggedOut, [ProfileNext]_profileVars, me = NoValue, ~late PROVE me' = NoValue
      OBVIOUS
    <2>1. settings = NoValue /\ calls = {}
      BY DEF CallShaped, LoggedOut
    <2> QED
      BY <2>1 DEF ProfileNext, profileVars, OpenSettings, GoHome, Logout, Save, SendVerify, EditEmail, Edit, PickAvatar,
                  AskChange, ClickVerify, ClickChange, LinkLapses, Mails
  <1> QED
    BY <1>1, ProfileStarts, ProfileTyped, LoggedOutKept, PTL DEF ProfileSpec, StaysLoggedOut

-----------------------------------------------------------------------------
(* Signing in and being logged out.                                        *)

(* The password was right in an earlier era: that is noted.                *)
RightsCrossed ==
  \A c \in Clients :
    attempts[c] # None /\ attempts[c].op = "right" /\ attempts[c].era # credentials.era => attempts[c].crossed
(* Clients whose password is being checked.                                *)
Judging == {c \in Clients : attempts[c] # None /\ attempts[c].op = "login"}
(* A page that sets a new password was opened by a link.                   *)
LinkShown == \A c \in Clients : pages[c].at = "reset" => pages[c].link \in Links
(* The lock falls at the limit, not after it.                              *)
LockedInTime == ~fails.locked => fails.count < FailLimit

(* The forms by what they ask for.                                         *)
LEMMA FormKinds ==
  ASSUME NEW a \in Forms
  PROVE  /\ a.op = "login" => a.password \in Passwords
         /\ a.op = "right" => a.era \in 0..MaxEras /\ a.crossed \in BOOLEAN
                              /\ [a EXCEPT !.crossed = TRUE] \in Forms
                              /\ [a EXCEPT !.crossed = TRUE].op = "right"
                              /\ [a EXCEPT !.crossed = TRUE].crossed = TRUE
         /\ a.op = "reset" => a.password \in Passwords /\ a.link \in Links
         /\ a.op \in {"login", "right", "reset", "revoke"}
  BY DEF Forms

LEMMA FormsMade ==
  /\ \A p \in Passwords : [op |-> "login", password |-> p] \in Forms
  /\ \A e \in 0..MaxEras, x \in BOOLEAN : [op |-> "right", era |-> e, crossed |-> x] \in Forms
  /\ \A p \in Passwords, l \in Links : [op |-> "reset", password |-> p, link |-> l] \in Forms
  /\ [op |-> "revoke"] \in Forms
  BY DEF Forms

LEMMA CrossingTyped ==
  ASSUME NEW as \in [Clients -> Forms \union {None}]
  PROVE  /\ Crossing(as) \in [Clients -> Forms \union {None}]
         /\ \A c \in Clients :
              /\ as[c] # None /\ as[c].op = "right" => Crossing(as)[c].op = "right" /\ Crossing(as)[c].crossed = TRUE
              /\ ~(as[c] # None /\ as[c].op = "right") => Crossing(as)[c] = as[c]
  <1>1. ASSUME NEW c \in Clients
        PROVE  /\ Crossing(as)[c] \in Forms \union {None}
               /\ as[c] # None /\ as[c].op = "right" => Crossing(as)[c].op = "right" /\ Crossing(as)[c].crossed = TRUE
               /\ ~(as[c] # None /\ as[c].op = "right") => Crossing(as)[c] = as[c]
    <2>1. CASE as[c] # None /\ as[c].op = "right"
      <3> DEFINE b == [as[c] EXCEPT !.crossed = TRUE]
      <3>1. Crossing(as)[c] = b /\ as[c] \in Forms
        BY <2>1 DEF Crossing
      <3>2. b \in Forms /\ b.op = "right" /\ b.crossed = TRUE
        BY <2>1, <3>1, FormKinds
      <3> HIDE DEF b
      <3> QED
        BY <2>1, <3>1, <3>2
    <2>2. CASE ~(as[c] # None /\ as[c].op = "right")
      <3>1. Crossing(as)[c] = as[c]
        BY <2>2 DEF Crossing
      <3> QED
        BY <2>2, <3>1
    <2> QED
      BY <2>1, <2>2
  <1>2. Crossing(as) = [c \in Clients |-> Crossing(as)[c]]
    BY DEF Crossing
  <1> QED
    BY <1>1, <1>2

LEMMA PagesMade ==
  /\ \A p \in {"login", "forgot", "home"} : At(p) \in Pages /\ At(p).at # "reset"
  /\ \A l \in Links : [At("reset") EXCEPT !.link = l] \in Pages /\ [At("reset") EXCEPT !.link = l].link = l
  /\ \A p \in Pages, S \in SUBSET Clients :
       [p EXCEPT !.list = S] \in Pages /\ [p EXCEPT !.list = S].at = p.at /\ [p EXCEPT !.list = S].link = p.link
  BY DEF At, Pages
LEMMA AccountsMade ==
  ASSUME credentials \in Accounts
  PROVE  /\ credentials.era \in 0..MaxEras
         /\ \A p \in Passwords : [credentials EXCEPT !.password = p] \in Accounts
         /\ [credentials EXCEPT !.password = None, !.deleted = TRUE] \in Accounts
         /\ credentials.era < MaxEras =>
              /\ [credentials EXCEPT !.era = @ + 1] \in Accounts
              /\ \A p \in Passwords : [credentials EXCEPT !.password = p, !.era = @ + 1] \in Accounts
  <1>1. credentials.era \in 0..MaxEras /\ (credentials.era < MaxEras => credentials.era + 1 \in 0..MaxEras)
    BY SignInAssumption DEF Accounts
  <1> QED
    BY <1>1 DEF Accounts

LEMMA SessionsMade ==
  /\ \A c \in Clients, e \in 0..MaxEras, x \in BOOLEAN : [who |-> c, era |-> e, crossed |-> x] \in SignedIn
  /\ \A s \in SignedIn : s.who \in Clients
  BY DEF SignedIn

LEMMA CrossedAll ==
  ASSUME attempts \in [Clients -> Forms \union {None}], NEW c \in Clients,
         attempts' = Crossing([attempts EXCEPT ![c] = None])
  PROVE  /\ attempts' \in [Clients -> Forms \union {None}]
         /\ \A d \in Clients : attempts'[d] # None /\ attempts'[d].op = "right" => attempts'[d].crossed = TRUE
         /\ \A d \in Clients : attempts'[d] # None /\ attempts'[d].op = "login" =>
              d # c /\ attempts[d] # None /\ attempts[d].op = "login"
  <1> DEFINE as == [attempts EXCEPT ![c] = None]
  <1>1. as \in [Clients -> Forms \union {None}] /\ as[c] = None /\ \A d \in Clients \ {c} : as[d] = attempts[d]
    OBVIOUS
  <1> HIDE DEF as
  <1>2. attempts' = Crossing(as)
    BY DEF as
  <1>3. attempts' \in [Clients -> Forms \union {None}]
    BY <1>1, <1>2, CrossingTyped
  <1>4. ASSUME NEW d \in Clients, attempts'[d] # None
        PROVE  /\ attempts'[d].op = "right" => attempts'[d].crossed = TRUE
               /\ attempts'[d].op = "login" => d # c /\ attempts[d] # None /\ attempts[d].op = "login"
    <2>1. CASE as[d] # None /\ as[d].op = "right"
      BY <1>1, <1>2, <2>1, CrossingTyped
    <2>2. CASE ~(as[d] # None /\ as[d].op = "right")
      <3>0. \A e \in Clients : ~(as[e] # None /\ as[e].op = "right") => Crossing(as)[e] = as[e]
        BY <1>1, CrossingTyped
      <3>1. attempts'[d] = as[d]
        BY <1>2, <2>2, <3>0
      <3> QED
        BY <1>1, <1>4, <2>2, <3>1
    <2> QED
      BY <2>1, <2>2
  <1> QED
    BY <1>3, <1>4

(* The forms, pages and sessions are of their kinds.                       *)
LEMMA SignInTyped ==
  SignInTypeOK /\ LinkShown /\ [SignInNext]_signInVars => (SignInTypeOK /\ LinkShown)'
  <1> SUFFICES ASSUME SignInTypeOK /\ LinkShown, [SignInNext]_signInVars PROVE (SignInTypeOK /\ LinkShown)'
    OBVIOUS
  <1> USE DEF SignInTypeOK, LinkShown
  <1>1. CASE Forget
    BY <1>1 DEF Forget
  <1>2. ASSUME NEW c \in Clients, NEW p \in Passwords, Login(c, p) PROVE (SignInTypeOK /\ LinkShown)'
    BY <1>2, FormsMade DEF Login, Submit
  <1>3. ASSUME NEW c \in Clients, NEW p \in Passwords, ResetChecked(c, p) PROVE (SignInTypeOK /\ LinkShown)'
    BY <1>3, FormsMade DEF ResetChecked, Submit
  <1>4. ASSUME NEW c \in Clients, NEW p \in Passwords, ChangePassword(c, p) PROVE (SignInTypeOK /\ LinkShown)'
    BY <1>4, AccountsMade DEF ChangePassword
  <1>5. ASSUME NEW c \in Clients, Check(c) PROVE (SignInTypeOK /\ LinkShown)'
    <2>1. PICK a : a = attempts[c] /\ a \in Forms /\ a.op = "login"
      BY <1>5 DEF Check
    <2>2. [op |-> "right", era |-> credentials.era, crossed |-> FALSE] \in Forms
      BY FormsMade, AccountsMade
    <2>3. Failed \in [count : Nat, locked : BOOLEAN]
      BY DEF Failed
    <2> QED
      BY <1>5, <2>1, <2>2, <2>3 DEF Check, Submit
  <1>6. ASSUME NEW c \in Clients, Issue(c) PROVE (SignInTypeOK /\ LinkShown)'
    <2> DEFINE a == attempts[c]
               s == [who |-> c, era |-> a.era, crossed |-> a.crossed]
    <2>1. a \in Forms /\ a.op = "right"
      BY <1>6 DEF Issue
    <2>2. s \in SignedIn
      BY <2>1, FormKinds, SessionsMade
    <2>3. sessions' \subseteq SignedIn
      BY <1>6, <2>2 DEF Issue
    <2> QED
      BY <1>6, <2>3, PagesMade DEF Issue, Submit, Goes
  <1>7. ASSUME NEW c \in Clients, ResetDone(c) PROVE (SignInTypeOK /\ LinkShown)'
    <2>0. attempts[c] \in Forms /\ attempts[c].op = "reset"
      BY <1>7 DEF ResetDone
    <2>1. attempts[c].password \in Passwords /\ attempts[c].link \in Links
      BY <2>0, FormKinds
    <2>2. attempts' \in [Clients -> Forms \union {None}]
      BY <1>7, CrossedAll DEF ResetDone
    <2>3. credentials' \in Accounts
      BY <1>7, <2>1, AccountsMade DEF ResetDone, LogOutAll
    <2> QED
      BY <1>7, <2>1, <2>2, <2>3, PagesMade DEF ResetDone, LogOutAll, Goes
  <1>8. ASSUME NEW c \in Clients, NEW from, NEW to \in {"login", "forgot"}, Navigate(c, from, to) PROVE (SignInTypeOK /\ LinkShown)'
    BY <1>8, PagesMade DEF Navigate, Goes
  <1>9. ASSUME NEW c \in Clients, NEW l \in Links, Forgot(c, l) PROVE (SignInTypeOK /\ LinkShown)'
    BY <1>9 DEF Forgot
  <1>10. ASSUME NEW c \in Clients, NEW l \in Links, OpenLink(c, l) PROVE (SignInTypeOK /\ LinkShown)'
    BY <1>10, PagesMade DEF OpenLink, Goes
  <1>11. ASSUME NEW c \in Clients, DeleteRow(c) PROVE (SignInTypeOK /\ LinkShown)'
    BY <1>11, FormsMade, AccountsMade DEF DeleteRow, Submit
  <1>12. ASSUME NEW c \in Clients, DeleteSessions(c) PROVE (SignInTypeOK /\ LinkShown)'
    <2>1. attempts' \in [Clients -> Forms \union {None}]
      BY <1>12, CrossedAll DEF DeleteSessions, Submit
    <2>2. credentials' \in Accounts /\ sessions' \subseteq SignedIn
      BY <1>12, AccountsMade DEF DeleteSessions, LogOutAll
    <2> QED
      BY <1>12, <2>1, <2>2, PagesMade DEF DeleteSessions, Goes
  <1>13. ASSUME NEW c \in Clients, ListDevices(c) PROVE (SignInTypeOK /\ LinkShown)'
    <2> DEFINE L == {s.who : s \in sessions}
    <2>1. L \in SUBSET Clients
      BY SessionsMade
    <2> HIDE DEF L
    <2>2. pages' = [pages EXCEPT ![c] = [pages[c] EXCEPT !.list = L]]
      BY <1>13 DEF ListDevices, Goes, L
    <2>3. [pages[c] EXCEPT !.list = L] \in Pages /\ [pages[c] EXCEPT !.list = L].at = pages[c].at
          /\ [pages[c] EXCEPT !.list = L].link = pages[c].link
      BY <2>1, PagesMade
    <2> QED
      BY <1>13, <2>2, <2>3 DEF ListDevices
  <1>14. ASSUME NEW c \in Clients, NEW ended, EndSessions(c, ended) PROVE (SignInTypeOK /\ LinkShown)'
    <2> DEFINE L == {s.who : s \in sessions'}
    <2>1. L \in SUBSET Clients /\ sessions' \subseteq SignedIn
      BY <1>14, SessionsMade DEF EndSessions
    <2> HIDE DEF L
    <2>2. pages' = [pages EXCEPT ![c] = [pages[c] EXCEPT !.list = L]]
      BY <1>14 DEF EndSessions, Goes, L
    <2>3. [pages[c] EXCEPT !.list = L] \in Pages /\ [pages[c] EXCEPT !.list = L].at = pages[c].at
          /\ [pages[c] EXCEPT !.list = L].link = pages[c].link
      BY <2>1, PagesMade
    <2> QED
      BY <1>14, <2>1, <2>2, <2>3 DEF EndSessions
  <1>15. ASSUME NEW c \in Clients, SignOut(c) PROVE (SignInTypeOK /\ LinkShown)'
    BY <1>15, PagesMade DEF SignOut, Goes
  <1>16. ASSUME NEW l \in Links, Lapses(l) PROVE (SignInTypeOK /\ LinkShown)'
    BY <1>16 DEF Lapses
  <1>0. CASE UNCHANGED signInVars
    BY <1>0 DEF signInVars
  <1> QED
    BY <1>0, <1>1, <1>2, <1>3, <1>4, <1>5, <1>6, <1>7, <1>8, <1>9, <1>10, <1>11,
       <1>12, <1>13, <1>14, <1>15, <1>16
    DEF SignInNext, Revoke, RevokeOthers

(* Whoever could be back without being noted has been noted.               *)
LEMMA OutKept ==
  SignInTypeOK /\ RightsCrossed /\ LoggedOutStaysOut /\ [SignInNext]_signInVars => (RightsCrossed /\ LoggedOutStaysOut)'
  <1> SUFFICES ASSUME SignInTypeOK /\ RightsCrossed /\ LoggedOutStaysOut, [SignInNext]_signInVars PROVE (RightsCrossed /\ LoggedOutStaysOut)'
    OBVIOUS
  <1> USE DEF SignInTypeOK, Accounts, RightsCrossed, LoggedOutStaysOut
  <1>1. CASE Forget
    BY <1>1 DEF Forget
  <1>2. ASSUME NEW c \in Clients, NEW p \in Passwords, Login(c, p) PROVE (RightsCrossed /\ LoggedOutStaysOut)'
    BY <1>2 DEF Login, Submit
  <1>3. ASSUME NEW c \in Clients, NEW p \in Passwords, ResetChecked(c, p) PROVE (RightsCrossed /\ LoggedOutStaysOut)'
    BY <1>3 DEF ResetChecked, Submit
  <1>4. ASSUME NEW c \in Clients, NEW p \in Passwords, ChangePassword(c, p) PROVE (RightsCrossed /\ LoggedOutStaysOut)'
    BY <1>4 DEF ChangePassword
  <1>5. ASSUME NEW c \in Clients, Check(c) PROVE (RightsCrossed /\ LoggedOutStaysOut)'
    BY <1>5 DEF Check, Submit, Failed
  <1>6. ASSUME NEW c \in Clients, Issue(c) PROVE (RightsCrossed /\ LoggedOutStaysOut)'
    BY <1>6 DEF Issue, Submit, Goes
  <1>7. ASSUME NEW c \in Clients, ResetDone(c) PROVE (RightsCrossed /\ LoggedOutStaysOut)'
    <2>1. \A d \in Clients : attempts'[d] # None /\ attempts'[d].op = "right" => attempts'[d].crossed
      BY <1>7, CrossedAll DEF ResetDone
    <2> QED
      BY <1>7, <2>1 DEF ResetDone, LogOutAll
  <1>8. ASSUME NEW c \in Clients, NEW from, NEW to \in {"login", "forgot"}, Navigate(c, from, to) PROVE (RightsCrossed /\ LoggedOutStaysOut)'
    BY <1>8 DEF Navigate, Goes
  <1>9. ASSUME NEW c \in Clients, NEW l \in Links, Forgot(c, l) PROVE (RightsCrossed /\ LoggedOutStaysOut)'
    BY <1>9 DEF Forgot
  <1>10. ASSUME NEW c \in Clients, NEW l \in Links, OpenLink(c, l) PROVE (RightsCrossed /\ LoggedOutStaysOut)'
    BY <1>10 DEF OpenLink, Goes
  <1>11. ASSUME NEW c \in Clients, DeleteRow(c) PROVE (RightsCrossed /\ LoggedOutStaysOut)'
    BY <1>11 DEF DeleteRow, Submit
  <1>12. ASSUME NEW c \in Clients, DeleteSessions(c) PROVE (RightsCrossed /\ LoggedOutStaysOut)'
    <2>1. CASE attempts' = Crossing([attempts EXCEPT ![c] = None]) /\ sessions' = {}
      <3>1. \A d \in Clients : attempts'[d] # None /\ attempts'[d].op = "right" => attempts'[d].crossed
        BY <2>1, CrossedAll
      <3> QED
        BY <2>1, <3>1
    <2>2. CASE attempts' = [attempts EXCEPT ![c] = None] /\ UNCHANGED <<credentials, sessions>>
      BY <2>2
    <2> QED
      BY <1>12, <2>1, <2>2 DEF DeleteSessions, LogOutAll, Submit
  <1>13. ASSUME NEW c \in Clients, ListDevices(c) PROVE (RightsCrossed /\ LoggedOutStaysOut)'
    BY <1>13 DEF ListDevices, Goes
  <1>14. ASSUME NEW c \in Clients, NEW ended, EndSessions(c, ended) PROVE (RightsCrossed /\ LoggedOutStaysOut)'
    BY <1>14 DEF EndSessions, Goes
  <1>15. ASSUME NEW c \in Clients, SignOut(c) PROVE (RightsCrossed /\ LoggedOutStaysOut)'
    BY <1>15 DEF SignOut, Goes
  <1>16. ASSUME NEW l \in Links, Lapses(l) PROVE (RightsCrossed /\ LoggedOutStaysOut)'
    BY <1>16 DEF Lapses
  <1>0. CASE UNCHANGED signInVars
    BY <1>0 DEF signInVars
  <1> QED
    BY <1>0, <1>1, <1>2, <1>3, <1>4, <1>5, <1>6, <1>7, <1>8, <1>9, <1>10, <1>11,
       <1>12, <1>13, <1>14, <1>15, <1>16
    DEF SignInNext, Revoke, RevokeOthers


LEMMA JudgingCounts ==
  /\ IsFiniteSet(Judging) /\ Cardinality(Judging) \in Nat /\ Cardinality(Judging) <= Cardinality(Clients)
  /\ \A S : S \subseteq Judging => Cardinality(S) <= Cardinality(Judging) /\ Cardinality(S) \in Nat
  /\ \A S, c : S \subseteq Judging \ {c} /\ c \in Judging => Cardinality(S) + 1 <= Cardinality(Judging)
  <1>1. IsFiniteSet(Clients) /\ Judging \subseteq Clients /\ Cardinality(Clients) \in Nat
    BY SignInAssumption, FS_CardinalityType DEF Judging
  <1>2. /\ IsFiniteSet(Judging) /\ Cardinality(Judging) \in Nat /\ Cardinality(Judging) <= Cardinality(Clients)
    BY <1>1, FS_Subset, FS_CardinalityType
  <1>3. ASSUME NEW S, S \subseteq Judging PROVE Cardinality(S) <= Cardinality(Judging) /\ Cardinality(S) \in Nat
    BY <1>2, <1>3, FS_Subset, FS_CardinalityType
  <1>4. ASSUME NEW S, NEW c, S \subseteq Judging \ {c}, c \in Judging
        PROVE  Cardinality(S) + 1 <= Cardinality(Judging)
    <2>1. IsFiniteSet(Judging \ {c}) /\ Cardinality(Judging \ {c}) = Cardinality(Judging) - 1
      BY <1>2, <1>4, FS_RemoveElement
    <2>2. Cardinality(S) <= Cardinality(Judging \ {c}) /\ Cardinality(S) \in Nat
      BY <1>4, <2>1, FS_Subset, FS_CardinalityType
    <2> QED
      BY <1>2, <2>1, <2>2
  <1> QED
    BY <1>2, <1>3, <1>4

(* A step that starts no login and makes no mistake.                       *)
Calm == Judging' \subseteq Judging /\ fails' \in {fails, [count |-> 0, locked |-> FALSE]}

LEMMA Calmly ==
  ASSUME SignInTypeOK, LockedInTime, GuessesBounded, Calm
  PROVE  (LockedInTime /\ GuessesBounded)'
  <1>1. /\ Cardinality(Judging') <= Cardinality(Judging) /\ Cardinality(Judging') \in Nat
        /\ Cardinality(Judging) \in Nat /\ Cardinality(Judging) <= Cardinality(Clients)
    BY JudgingCounts DEF Calm
  <1>2. fails.count \in Nat /\ FailLimit \in Nat \ {0} /\ Cardinality(Clients) \in Nat
    BY SignInAssumption, FS_CardinalityType DEF SignInTypeOK
  <1>3. fails.count + Cardinality(Judging) <= FailLimit - 1 + Cardinality(Clients)
    BY DEF GuessesBounded, Judging
  <1>4. \/ fails' = fails
        \/ fails'.count = 0 /\ fails'.locked = FALSE
    BY DEF Calm
  <1>5. fails'.count + Cardinality(Judging') <= FailLimit - 1 + Cardinality(Clients)
    BY <1>1, <1>2, <1>3, <1>4
  <1>6. LockedInTime'
    BY <1>2, <1>4 DEF LockedInTime
  <1> QED
    BY <1>5, <1>6 DEF GuessesBounded, Judging

(* A mistake ends a login, and no login starts once there are too many.    *)
LEMMA GuessesKept ==
  SignInTypeOK /\ LockedInTime /\ GuessesBounded /\ [SignInNext]_signInVars => (LockedInTime /\ GuessesBounded)'
  <1> SUFFICES ASSUME SignInTypeOK /\ LockedInTime /\ GuessesBounded, [SignInNext]_signInVars PROVE (LockedInTime /\ GuessesBounded)'
    OBVIOUS
  <1> USE DEF SignInTypeOK
  <1>1. CASE Forget
    <2>1. Calm
      BY <1>1 DEF Forget, Calm, Judging
    <2> QED
      BY <2>1, Calmly
  <1>2. ASSUME NEW c \in Clients, NEW p \in Passwords, Login(c, p) PROVE (LockedInTime /\ GuessesBounded)'
    <2>1. Judging' \subseteq Clients /\ fails' = fails /\ ~fails.locked
      BY <1>2 DEF Login, Judging
    <2>2. Cardinality(Judging') <= Cardinality(Clients) /\ Cardinality(Judging') \in Nat /\ Cardinality(Clients) \in Nat
      BY <2>1, SignInAssumption, FS_Subset, FS_CardinalityType
    <2>3. fails.count < FailLimit /\ fails.count \in Nat /\ FailLimit \in Nat
      BY <2>1, SignInAssumption DEF LockedInTime
    <2>4. fails'.count + Cardinality(Judging') <= FailLimit - 1 + Cardinality(Clients)
      BY <2>1, <2>2, <2>3
    <2> QED
      BY <2>1, <2>3, <2>4 DEF LockedInTime, GuessesBounded, Judging
  <1>3. ASSUME NEW c \in Clients, NEW p \in Passwords, ResetChecked(c, p) PROVE (LockedInTime /\ GuessesBounded)'
    <2>1. Calm
      BY <1>3 DEF ResetChecked, Submit, Calm, Judging
    <2> QED
      BY <2>1, Calmly
  <1>4. ASSUME NEW c \in Clients, NEW p \in Passwords, ChangePassword(c, p) PROVE (LockedInTime /\ GuessesBounded)'
    <2>1. Calm
      BY <1>4 DEF ChangePassword, Calm, Judging
    <2> QED
      BY <2>1, Calmly
  <1>5. ASSUME NEW c \in Clients, Check(c) PROVE (LockedInTime /\ GuessesBounded)'
    <2>1. CASE fails' = fails
      <3>1. Calm
        BY <1>5, <2>1 DEF Check, Submit, Calm, Judging
      <3> QED
        BY <3>1, Calmly
    <2>2. CASE fails' = Failed /\ attempts' = [attempts EXCEPT ![c] = None]
      <3>1. c \in Judging /\ Judging' \subseteq Judging \ {c}
        BY <1>5, <2>2 DEF Check, Judging
      <3>2. Cardinality(Judging') + 1 <= Cardinality(Judging) /\ Cardinality(Judging) \in Nat
            /\ Cardinality(Judging') \in Nat
        BY <3>1, JudgingCounts
      <3>a. fails.count \in Nat /\ FailLimit \in Nat /\ Cardinality(Clients) \in Nat
        BY SignInAssumption, FS_CardinalityType
      <3>3. fails'.count = fails.count + 1 /\ (~fails'.locked => fails.count + 1 < FailLimit)
        <4>1. fails'.count = fails.count + 1
          BY <2>2 DEF Failed
        <4>2. fails.count + 1 >= FailLimit => fails'.locked
          BY <2>2 DEF Failed
        <4> QED
          BY <3>a, <4>1, <4>2
      <3>4. fails.count + Cardinality(Judging) <= FailLimit - 1 + Cardinality(Clients)
        BY DEF GuessesBounded, Judging
      <3>5. fails'.count + Cardinality(Judging') <= FailLimit - 1 + Cardinality(Clients)
        BY <3>a, <3>2, <3>3, <3>4
      <3> QED
        BY <3>a, <3>3, <3>5 DEF LockedInTime, GuessesBounded, Judging
    <2> QED
      BY <1>5, <2>1, <2>2 DEF Check, Submit
  <1>6. ASSUME NEW c \in Clients, Issue(c) PROVE (LockedInTime /\ GuessesBounded)'
    <2>1. Calm
      BY <1>6 DEF Issue, Submit, Goes, Calm, Judging
    <2> QED
      BY <2>1, Calmly
  <1>7. ASSUME NEW c \in Clients, ResetDone(c) PROVE (LockedInTime /\ GuessesBounded)'
    <2>1. Judging' \subseteq Judging
      BY <1>7, CrossedAll DEF ResetDone, Judging
    <2> QED
      BY <1>7, <2>1, Calmly DEF ResetDone, Calm
  <1>8. ASSUME NEW c \in Clients, NEW from, NEW to \in {"login", "forgot"}, Navigate(c, from, to) PROVE (LockedInTime /\ GuessesBounded)'
    <2>1. Calm
      BY <1>8 DEF Navigate, Goes, Calm, Judging
    <2> QED
      BY <2>1, Calmly
  <1>9. ASSUME NEW c \in Clients, NEW l \in Links, Forgot(c, l) PROVE (LockedInTime /\ GuessesBounded)'
    <2>1. Calm
      BY <1>9 DEF Forgot, Calm, Judging
    <2> QED
      BY <2>1, Calmly
  <1>10. ASSUME NEW c \in Clients, NEW l \in Links, OpenLink(c, l) PROVE (LockedInTime /\ GuessesBounded)'
    <2>1. Calm
      BY <1>10 DEF OpenLink, Goes, Calm, Judging
    <2> QED
      BY <2>1, Calmly
  <1>11. ASSUME NEW c \in Clients, DeleteRow(c) PROVE (LockedInTime /\ GuessesBounded)'
    <2>1. Calm
      BY <1>11 DEF DeleteRow, Submit, Calm, Judging
    <2> QED
      BY <2>1, Calmly
  <1>12. ASSUME NEW c \in Clients, DeleteSessions(c) PROVE (LockedInTime /\ GuessesBounded)'
    <2>1. Judging' \subseteq Judging
      BY <1>12, CrossedAll DEF DeleteSessions, Submit, Judging
    <2> QED
      BY <1>12, <2>1, Calmly DEF DeleteSessions, Calm
  <1>13. ASSUME NEW c \in Clients, ListDevices(c) PROVE (LockedInTime /\ GuessesBounded)'
    <2>1. Calm
      BY <1>13 DEF ListDevices, Goes, Calm, Judging
    <2> QED
      BY <2>1, Calmly
  <1>14. ASSUME NEW c \in Clients, NEW ended, EndSessions(c, ended) PROVE (LockedInTime /\ GuessesBounded)'
    <2>1. Calm
      BY <1>14 DEF EndSessions, Goes, Calm, Judging
    <2> QED
      BY <2>1, Calmly
  <1>15. ASSUME NEW c \in Clients, SignOut(c) PROVE (LockedInTime /\ GuessesBounded)'
    <2>1. Calm
      BY <1>15 DEF SignOut, Goes, Calm, Judging
    <2> QED
      BY <2>1, Calmly
  <1>16. ASSUME NEW l \in Links, Lapses(l) PROVE (LockedInTime /\ GuessesBounded)'
    <2>1. Calm
      BY <1>16 DEF Lapses, Calm, Judging
    <2> QED
      BY <2>1, Calmly
  <1>0. CASE UNCHANGED signInVars
    BY <1>0, Calmly DEF signInVars, Calm, Judging
  <1> QED
    BY <1>0, <1>1, <1>2, <1>3, <1>4, <1>5, <1>6, <1>7, <1>8, <1>9, <1>10, <1>11,
       <1>12, <1>13, <1>14, <1>15, <1>16
    DEF SignInNext, Revoke, RevokeOthers


LEMMA SignInStarts == SignInInit => SignInTypeOK /\ LinkShown /\ RightsCrossed /\ LoggedOutStaysOut /\ LockedInTime /\ GuessesBounded
  <1> SUFFICES ASSUME SignInInit
               PROVE  SignInTypeOK /\ LinkShown /\ RightsCrossed /\ LoggedOutStaysOut /\ LockedInTime /\ GuessesBounded
    OBVIOUS
  <1>1. SignInTypeOK /\ LinkShown
    <2>1. PICK p \in Passwords : credentials = [password |-> p, deleted |-> FALSE, era |-> 0]
      BY DEF SignInInit
    <2>2. credentials \in Accounts
      BY <2>1, SignInAssumption DEF Accounts
    <2>3. pages \in [Clients -> Pages] /\ \A c \in Clients : pages[c] = At("login")
      BY PagesMade DEF SignInInit
    <2> QED
      BY <2>2, <2>3, PagesMade DEF SignInInit, SignInTypeOK, LinkShown
  <1>2. RightsCrossed /\ LoggedOutStaysOut
    BY DEF SignInInit, RightsCrossed, LoggedOutStaysOut
  <1>3. Judging = {} /\ fails.count = 0
    BY DEF SignInInit, Judging
  <1>4. Cardinality({}) = 0 /\ Cardinality(Clients) \in Nat /\ FailLimit \in Nat \ {0}
    BY SignInAssumption, FS_EmptySet, FS_CardinalityType
  <1>5. LockedInTime /\ GuessesBounded
    BY <1>3, <1>4 DEF LockedInTime, GuessesBounded, Judging
  <1> QED
    BY <1>1, <1>2, <1>5

\* Credentials, sessions, links and pages stay what they are declared to be.
THEOREM SignInTypes == SignInSpec => []SignInTypeOK
  BY SignInStarts, SignInTyped, PTL DEF SignInSpec

\* Whenever everybody is logged out, by a reset or a deletion, no session of
\* before is left and none comes back, except of a login that was checked
\* before and is stored after.
THEOREM NobodyStaysIn == SignInSpec => []LoggedOutStaysOut
  BY SignInStarts, SignInTyped, OutKept, PTL DEF SignInSpec

\* However many clients try at once, the wrong passwords between two pauses
\* of the lock are no more than the limit and one for each other client.
THEOREM GuessesStayBounded == SignInSpec => []GuessesBounded
  BY SignInStarts, SignInTyped, GuessesKept, PTL DEF SignInSpec
=============================================================================
