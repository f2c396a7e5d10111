----------------------------- MODULE LocationForm ------------------------------
(***************************************************************************)
(* How a merchant says where a delivery goes to, or where a branch is: the *)
(* forms of a new order, of a new branch and of the registration           *)
(* (new-order.tsx, branch-creation-form.tsx, merchant-registration.tsx),   *)
(* the map they share (map-picker.tsx), and the API that opens links of    *)
(* Google Maps and says which points are served (location.service.ts).     *)
(*                                                                         *)
(* Answers come in any order or never, also when the map was closed, the   *)
(* link edited, or another point confirmed meanwhile.  Whether a point is  *)
(* served may change between any two calls: zones are edited elsewhere     *)
(* (ZonePricing), so the API's answer is free.  While the map is open, the *)
(* merchant works on the map: it lies over the form.                       *)
(***************************************************************************)
EXTENDS Naturals, Sequences, FiniteSetsExt

CONSTANTS Point, NoPoint,  \* places, and none
          SixDecimals,     \* a place with its coordinates cut to six decimals
          Fallback,        \* the store's point, where a map opens for want of a better
          Link, NoLink,    \* links of Google Maps, and an empty field
          Trail,           \* the pages that requests for a link are led to
          Call,            \* calls of the form that can be under way at a time
          MaxReviews       \* bound on the points given to the API to validate

\* A page's URL and the answer to a request for it.  "point" stands for the
\* coordinates found in the URL, if they lie in Egypt; a page without any may
\* still refer to a place or a search.
Page == [host: {"short", "google", "other"}, point: Point \cup {NoPoint},
         reference: BOOLEAN, public: BOOLEAN, answer: {"redirect", "page", "error"}]

\* Every redirect leads on, and no link is followed over more pages than these.
maximumRedirects == 3

\* What a module that instantiates this one assumes of its constants.
Assumptions ==
    /\ NoPoint \notin Point /\ NoLink \notin Link
    /\ Fallback \in Point
    /\ SixDecimals \in [Point -> Point]
    /\ \A p \in Point : SixDecimals[SixDecimals[p]] = SixDecimals[p]
    /\ Trail \in [Link -> Seq(Page)]
    /\ \A l \in Link :
          /\ Trail[l] # <<>>
          /\ \A i \in DOMAIN Trail[l] :
                Trail[l][i].answer = "redirect" => i > maximumRedirects \/ i < Len(Trail[l])
    /\ MaxReviews \in Nat

VARIABLES form,    \* which form it is
          stage,   \* what is on the screen: the form, a quote, or the new order
          draft,   \* the place in the form
          map,     \* the map, and what it will confirm
          busy,    \* locationBusy (order), busy (branch, registration)
          call,    \* what has become of each call
          review   \* the points that were given to the API to validate

vars == <<form, stage, draft, map, busy, call, review>>

Form == {"order", "branch", "registration"}
order == form = "order"

MaybePoint == Point \cup {NoPoint}
MaybeLink == Link \cup {NoLink}

\* A branch's form starts with coordinates, which nobody has confirmed.
Unplaced(f) == [point |-> IF f = "order" THEN NoPoint ELSE SixDecimals[Fallback],
                confirmed |-> FALSE, eligibility |-> "UNVALIDATED", link |-> NoLink]

\* "initial" is where the map opened, "asked" the point it waits for the API about.
NoMap == [open |-> FALSE, initial |-> NoPoint, marker |-> NoPoint, touched |-> FALSE,
          link |-> NoLink, asked |-> 0]

\* "spare" is where the map opens if a link names no point.
Idle == [step |-> "idle", kind |-> "device", link |-> NoLink, spare |-> NoPoint,
         answer |-> NoPoint]

Init ==
    /\ form \in Form
    /\ stage = "form"
    /\ draft = Unplaced(form)
    /\ map = NoMap
    /\ busy = FALSE
    /\ call = [c \in Call |-> Idle]
    /\ review = <<>>

-----------------------------------------------------------------------------
(* The API: resolveGoogleMapsLink.                                         *)

\* Only pages of Google Maps at public addresses are asked for.
requested(page) == page.host # "other" /\ page.public

followable(trail, i) ==
    /\ requested(trail[i]) /\ trail[i].answer = "redirect"
    /\ i <= maximumRedirects
    /\ trail[i + 1].host # "other"

\* The first page that settles what a short link is: one with coordinates, or
\* one that leads no further.
settling(trail) ==
    Min({i \in DOMAIN trail : trail[i].point # NoPoint \/ ~followable(trail, i)})

\* A link that is neither found to be a point nor to be looked up is refused.
resolveGoogleMapsLink(link) ==
    LET trail == Trail[link]
        short == trail[1].host = "short"
        last == trail[IF short THEN settling(trail) ELSE 1]
    IN  [point |-> last.point,
         refused |-> \/ trail[1].host = "other"
                     \/ /\ last.point = NoPoint
                        /\ \/ short /\ (~requested(last) \/ last.answer # "page")
                           \/ ~last.reference /\ last.host # "short"]
-----------------------------------------------------------------------------
(* The form and its calls.                                                 *)

onForm == stage = "form" /\ ~map.open

selectedPoint == IF order /\ ~draft.confirmed THEN NoPoint ELSE draft.point

OrFallback(point) == IF point = NoPoint THEN Fallback ELSE point

\* The map opens at a point.  If it is open, an untouched marker moves there.
openMap(point, link) ==
    map' = [map EXCEPT !.open = TRUE, !.initial = point, !.link = link,
                       !.marker = IF map.touched THEN @ ELSE point]

Send(c, kind, link, spare) ==
    /\ call[c].step = "idle"
    /\ call' = [call EXCEPT ![c] = [Idle EXCEPT !.step = "sent", !.kind = kind,
                                               !.link = link, !.spare = spare]]

Done(c) == call' = [call EXCEPT ![c] = Idle]

OpenMap ==
    /\ onForm
    /\ openMap(OrFallback(selectedPoint), NoLink)
    /\ UNCHANGED <<form, stage, draft, busy, call, review>>

UseCurrentLocation(c) ==
    /\ onForm /\ ~busy
    /\ busy' = TRUE
    /\ Send(c, "device", NoLink, NoPoint)
    /\ UNCHANGED <<form, stage, draft, map, review>>

\* The device's point is shown on the map, never taken as it is.
TakeCurrentLocation(c) ==
    /\ call[c].step = "sent" /\ call[c].kind = "device"
    /\ \E point \in Point : openMap(point, NoLink)
    /\ busy' = FALSE
    /\ Done(c)
    /\ UNCHANGED <<form, stage, draft, review>>

\* Mistake: a confirmed place stays confirmed whatever link is then entered.
EditLink_Kept ==
    /\ onForm
    /\ \E link \in MaybeLink \ {draft.link} : draft' = [draft EXCEPT !.link = link]
    /\ UNCHANGED <<form, stage, map, busy, call, review>>

EditLink ==
    /\ onForm
    /\ \E link \in MaybeLink \ {draft.link} :
          draft' = IF order THEN [draft EXCEPT !.link = link, !.confirmed = FALSE,
                                               !.eligibility = "UNVALIDATED"]
                   ELSE [draft EXCEPT !.link = link]
    /\ UNCHANGED <<form, stage, map, busy, call, review>>

\* Where the map is to open if the link names no point is settled on pressing
\* the button, not when the answer comes.
resolveMapsLink(c) ==
    /\ onForm /\ ~busy
    /\ draft.link # NoLink
    /\ busy' = TRUE
    /\ Send(c, "link", draft.link,
            OrFallback(IF form = "branch" /\ ~draft.confirmed THEN NoPoint ELSE selectedPoint))
    /\ UNCHANGED <<form, stage, draft, map, review>>

ServeLink(c) ==
    LET resolved == resolveGoogleMapsLink(call[c].link) IN
    /\ call[c].step = "sent" /\ call[c].kind = "link"
    /\ ~resolved.refused
    /\ call' = [call EXCEPT ![c].step = "answered", ![c].answer = resolved.point]
    /\ UNCHANGED <<form, stage, draft, map, busy, review>>

\* A new order keeps the link beside the point that is confirmed for it.
TakeLink(c) ==
    /\ call[c].step = "answered" /\ call[c].kind = "link"
    /\ openMap(IF call[c].answer = NoPoint THEN call[c].spare ELSE call[c].answer,
               IF order THEN call[c].link ELSE NoLink)
    /\ busy' = FALSE
    /\ Done(c)
    /\ UNCHANGED <<form, stage, draft, review>>

\* The permission is denied, a link refused, a call lost or out of time, a form
\* not accepted: a message, and no more.
Fail(c) ==
    /\ call[c].step # "idle"
    /\ busy' = IF order /\ call[c].kind \in {"submit", "confirm"} THEN busy ELSE FALSE
    /\ Done(c)
    /\ UNCHANGED <<form, stage, draft, map, review>>

\* Coordinates typed by hand, if they are any.
EditCoordinates ==
    /\ onForm /\ ~order
    /\ \E point \in MaybePoint \ {draft.point} :
          draft' = [draft EXCEPT !.point = point, !.confirmed = FALSE,
                                 !.eligibility = "UNVALIDATED"]
    /\ UNCHANGED <<form, stage, map, busy, call, review>>

\* The button that clears the place of a new order.
ClearLocation ==
    /\ onForm /\ order /\ selectedPoint # NoPoint
    /\ draft' = Unplaced(form)
    /\ UNCHANGED <<form, stage, map, busy, call, review>>

-----------------------------------------------------------------------------
(* The map: MapPicker, mapPickerReducer.                                   *)

\* A click, the marker dragged, or the device's location asked for on the map.
MoveMarker ==
    /\ map.open /\ stage = "form"
    /\ \E point \in Point : map' = [map EXCEPT !.marker = point, !.touched = TRUE]
    /\ UNCHANGED <<form, stage, draft, busy, call, review>>

\* Pan, zoom, recenter and reset leave the marker where it is.
Navigate ==
    /\ map.open /\ stage = "form"
    /\ map' = [map EXCEPT !.touched = TRUE]
    /\ UNCHANGED <<form, stage, draft, busy, call, review>>

ClearMarker ==
    /\ map.open /\ stage = "form"
    /\ map' = [map EXCEPT !.marker = NoPoint, !.touched = TRUE]
    /\ UNCHANGED <<form, stage, draft, busy, call, review>>

\* What the map was asked to confirm goes on being confirmed.
CancelMap ==
    /\ map.open /\ stage = "form"
    /\ map' = NoMap
    /\ UNCHANGED <<form, stage, draft, busy, call, review>>

-----------------------------------------------------------------------------
(* Confirming a place: confirmLocation, confirmPoint, LocationService.     *)

Review(point, link) ==
    /\ Len(review) < MaxReviews
    /\ review' = Append(review, [point |-> point, link |-> link,
                                 answer |-> "UNVALIDATED", done |-> FALSE])
    /\ busy' = IF order THEN busy ELSE TRUE

\* The map's own button waits for the answer, a map opened after it does not.
ConfirmMarker ==
    /\ map.open /\ stage = "form"
    /\ map.marker # NoPoint /\ map.asked = 0
    /\ Review(map.marker, map.link)
    /\ map' = [map EXCEPT !.asked = Len(review) + 1]
    /\ UNCHANGED <<form, stage, draft, call>>

validateManualCoordinates ==
    /\ onForm /\ ~order /\ ~busy
    /\ selectedPoint # NoPoint
    /\ Review(selectedPoint, NoLink)
    /\ UNCHANGED <<form, stage, draft, map, call>>

\* LocationService.validate for a new order, validatePickup for a branch.
ServeValidation(i) ==
    /\ ~review[i].done /\ review[i].answer = "UNVALIDATED"
    /\ \E answer \in {"INSIDE", "OUTSIDE"} : review' = [review EXCEPT ![i].answer = answer]
    /\ UNCHANGED <<form, stage, draft, map, busy, call>>

\* Mistake: only the eligibility comes with the answer, the point on pressing.
confirmLocation_Late(i) ==
    /\ ~review[i].done /\ review[i].answer # "UNVALIDATED"
    /\ draft' = [draft EXCEPT !.point = IF map.open /\ map.marker # NoPoint
                                          THEN SixDecimals[map.marker]
                                          ELSE SixDecimals[review[i].point],
                              !.confirmed = TRUE, !.eligibility = review[i].answer,
                              !.link = IF order THEN review[i].link ELSE @]
    /\ review' = [review EXCEPT ![i].done = TRUE]
    /\ map' = NoMap
    /\ stage' = IF stage = "quote" THEN "form" ELSE stage
    /\ busy' = IF order THEN busy ELSE FALSE
    /\ UNCHANGED <<form, call>>

\* Whatever map is open by now closes, and a quote on the screen is dropped.
confirmLocation(i) ==
    /\ ~review[i].done /\ review[i].answer # "UNVALIDATED"
    /\ draft' = [point |-> SixDecimals[review[i].point], confirmed |-> TRUE,
                 eligibility |-> review[i].answer,
                 link |-> IF order THEN review[i].link ELSE draft.link]
    /\ review' = [review EXCEPT ![i].done = TRUE]
    /\ map' = NoMap
    /\ stage' = IF stage = "quote" THEN "form" ELSE stage
    /\ busy' = IF order THEN busy ELSE FALSE
    /\ UNCHANGED <<form, call>>

\* The map stays open, and its button can be pressed again.
ValidationFails(i) ==
    /\ ~review[i].done
    /\ review' = [review EXCEPT ![i] = [@ EXCEPT !.answer = "UNVALIDATED", !.done = TRUE]]
    /\ map' = IF map.asked = i THEN [map EXCEPT !.asked = 0] ELSE map
    /\ busy' = IF order THEN busy ELSE FALSE
    /\ UNCHANGED <<form, stage, draft, call>>

-----------------------------------------------------------------------------
(* The form is sent: submit.                                               *)

canRequestQuote == draft.confirmed /\ draft.eligibility = "INSIDE"

Submit(c) ==
    /\ onForm /\ canRequestQuote
    /\ order \/ ~busy
    /\ busy' = IF order THEN busy ELSE TRUE
    /\ Send(c, "submit", NoLink, NoPoint)
    /\ UNCHANGED <<form, stage, draft, map, review>>

\* The quote takes the place of a form, another quote or an order on the screen.
\* A map that is open will open anew when the form is back.
TakeQuote(c) ==
    /\ order /\ call[c].step = "sent" /\ call[c].kind = "submit"
    /\ stage' = "quote"
    /\ map' = [map EXCEPT !.marker = map.initial, !.touched = FALSE, !.asked = 0]
    /\ Done(c)
    /\ UNCHANGED <<form, draft, busy, review>>

InvalidateQuote ==
    /\ stage = "quote"
    /\ stage' = "form"
    /\ UNCHANGED <<form, draft, map, busy, call, review>>

\* That the quote is still the form's is a matter of Screens.
ConfirmOrder(c) ==
    /\ stage = "quote"
    /\ Send(c, "confirm", NoLink, NoPoint)
    /\ UNCHANGED <<form, stage, draft, map, busy, review>>

\* By then, another quote may be on the screen, or the form.
TakeOrder(c) ==
    /\ order /\ call[c].step = "sent" /\ call[c].kind = "confirm"
    /\ stage' = "created"
    /\ map' = [map EXCEPT !.marker = map.initial, !.touched = FALSE, !.asked = 0]
    /\ Done(c)
    /\ UNCHANGED <<form, draft, busy, review>>

\* The same form, emptied: what is under way goes on.
resetForAnotherOrder ==
    /\ stage = "created"
    /\ stage' = "form"
    /\ draft' = Unplaced(form)
    /\ UNCHANGED <<form, map, busy, call, review>>

\* The form goes away when a branch was accepted, or it is given up: all that is
\* under way ends, but for what the workspace itself asked for (MerchantApp).
Leave ==
    /\ \/ ~map.open \/ stage # "form"
       \/ ~order /\ \E c \in Call : call[c].step = "sent" /\ call[c].kind = "submit"
    /\ draft' = Unplaced(form)
    /\ map' = NoMap
    /\ busy' = FALSE
    /\ call' = [c \in Call |->
                  IF order /\ call[c].kind \in {"submit", "confirm"} THEN call[c] ELSE Idle]
    /\ review' = <<>>
    /\ UNCHANGED <<form, stage>>

-----------------------------------------------------------------------------
Next ==
    \/ OpenMap \/ EditLink \/ EditCoordinates \/ ClearLocation
    \/ MoveMarker \/ Navigate \/ ClearMarker \/ CancelMap
    \/ ConfirmMarker \/ validateManualCoordinates
    \/ InvalidateQuote \/ resetForAnotherOrder \/ Leave
    \/ \E c \in Call :
          \/ UseCurrentLocation(c) \/ TakeCurrentLocation(c)
          \/ resolveMapsLink(c) \/ ServeLink(c) \/ TakeLink(c)
          \/ Submit(c) \/ TakeQuote(c) \/ ConfirmOrder(c) \/ TakeOrder(c) \/ Fail(c)
    \/ \E i \in DOMAIN review :
          ServeValidation(i) \/ confirmLocation(i) \/ ValidationFails(i)

Spec == Init /\ [][Next]_vars

-----------------------------------------------------------------------------
(* Properties.                                                             *)

Row == [point: Point, link: MaybeLink,
        answer: {"UNVALIDATED", "INSIDE", "OUTSIDE"}, done: BOOLEAN]

\* The form, the map and the calls hold what they can hold.
TypeOK ==
    /\ form \in Form
    /\ stage \in (IF order THEN {"form", "quote", "created"} ELSE {"form"})
    /\ draft \in [point: MaybePoint, confirmed: BOOLEAN,
                  eligibility: {"UNVALIDATED", "INSIDE", "OUTSIDE"}, link: MaybeLink]
    /\ map \in [open: BOOLEAN, marker: MaybePoint, touched: BOOLEAN,
                initial: MaybePoint, link: MaybeLink, asked: 0 .. Len(review)]
    /\ busy \in BOOLEAN
    /\ call \in [Call -> [step: {"idle", "sent", "answered"},
                          kind: {"device", "link", "submit", "confirm"}, link: MaybeLink,
                          spare: MaybePoint, answer: MaybePoint]]
    /\ review \in Seq(Row) /\ Len(review) <= MaxReviews

\* "The point is reviewed on the map and must be confirmed"
\* (docs/location-admin-ui-logo-fix-report.md:72): a place that the form would
\* send is one that the merchant confirmed and the API then found served,
\* although answers come late, out of order, and to maps long closed; and a new
\* order's link is the one it was confirmed with, never one entered since.
PlacesAreReviewed ==
    canRequestQuote =>
        \E i \in DOMAIN review :
           /\ review[i].done /\ review[i].answer = "INSIDE"
           /\ SixDecimals[review[i].point] = draft.point
           /\ order => review[i].link = draft.link
=============================================================================
