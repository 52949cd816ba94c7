--------------------------- MODULE KeyInput_proofs ---------------------------
(***************************************************************************)
(* Proofs that a page's report holds nothing that its user does not press, *)
(* that reports, messages and the device stay well formed, and that what   *)
(* the user presses on a page without mishaps is pressed on the device or  *)
(* on its way there.                                                       *)
(***************************************************************************)
EXTENDS KeyInput, Hub_proofs

(***************************************************************************)
(* The inductive invariant.  A code is in one place of its report only,    *)
(* so that releasing it takes it out.  What the report holds is held by    *)
(* keys alone, not by on-screen buttons, and what is repeated is held by   *)
(* an on-screen button.                                                    *)
(***************************************************************************)
Once(places) ==
    \A i, j \in DOMAIN places : places[i] = places[j] /\ places[i] # Vacant => i = j

Own(pg) == KeyboardOf(pg) \cup Moved(pg.bt_mouse)

Pages ==
    /\ page \in [Conns -> Page]
    /\ \A p \in Conns : Once(page[p].bt_keys) /\ Once(page[p].bt_mods)

KeysDown == UNION {[K -> SUBSET Token] : K \in SUBSET Keys}

Hands ==
    /\ down \in [Conns -> KeysDown]
    /\ clicked \in [Conns -> Buttons \cup {NoButton}]

KeysHold == \A p \in Conns : Own(page[p]) \subseteq Held(down[p]) \cup slipped[p]

ClicksHold ==
    \A p \in Conns :
        page[p].intervals => Repetition \in Tokens(clicked[p]) \cup slipped[p]

IInv ==
    /\ Pages
    /\ Hands
    /\ slipped \in [Conns -> SUBSET Token]
    /\ KeysHold
    /\ ClicksHold

-----------------------------------------------------------------------------
(***************************************************************************)
(* Tokens.                                                                 *)
(***************************************************************************)
\* The tokens of different parts of a report have different first components.
LEMMA TokenKinds ==
    /\ \A c \in KeyCodes : c[1] = "usage" /\ c # Vacant
    /\ \A c \in ModCodes : c[1] = "modifier" /\ c # Vacant
    /\ \A c \in ConsumerCodes : c[1] = "consumer"
    /\ \A c \in Axes \X Nat : c[1] \in Axes
    /\ TextModifier # Vacant
    /\ TextModifier[1] = "text" /\ Repetition[1] = "repeat"
BY DEF KeyCodes, ModCodes, ConsumerCodes, Axes, Vacant, TextModifier, Repetition

LEMMA MovedTokens ==
    ASSUME NEW mouse \in [Axes -> Nat]
    PROVE  Moved(mouse) \subseteq Axes \X Nat
BY DEF Moved

\* A code is of one of the kinds, with what belongs to it.
LEMMA CodeKinds ==
    ASSUME NEW b \in Buttons
    PROVE  /\ Code[b].kind \in {"key", "mod", "mouse", "consumer", "ir", "learnt"}
           /\ Code[b].kind = "key"      => Code[b].code \in KeyCodes
           /\ Code[b].kind = "mod"      => Code[b].code \in ModCodes
           /\ Code[b].kind = "consumer" => Code[b].code \in ConsumerCodes
           /\ Code[b].kind = "mouse"    => Code[b].move \in [Axes -> Nat]
<1>1. Code[b] \in Codes
    BY ButtonsAssumption
<1> QED
    BY <1>1 DEF Codes

LEMMA ButtonTokens ==
    ASSUME NEW b \in Buttons \cup {NoButton}
    PROVE  Tokens(b) \subseteq Token /\ KeyTokens(b) \subseteq Token
<1>1. CASE b = NoButton
    BY <1>1 DEF Tokens, KeyTokens
<1>2. CASE b # NoButton
    <2>1. b \in Buttons
        BY <1>2
    <2>2. Code[b].kind = "mouse" => Moved(Code[b].move) \subseteq Axes \X Nat
        BY <2>1, CodeKinds, MovedTokens
    <2>3. Tokens(b) \subseteq Token
        BY <1>2, <2>1, <2>2, CodeKinds DEF Tokens, Token
    <2> QED
        BY <1>2, <2>1, <2>3, CodeKinds DEF KeyTokens, Token
<1> QED
    BY <1>1, <1>2

-----------------------------------------------------------------------------
(***************************************************************************)
(* Places.                                                                 *)
(***************************************************************************)
LEMMA EnterPlaces ==
    ASSUME NEW N \in Nat, NEW C, NEW places \in [1..N -> C \cup {Vacant}],
           NEW c \in C, c # Vacant, Once(places)
    PROVE  /\ enter(places, c) \in [1..N -> C \cup {Vacant}]
           /\ Once(enter(places, c))
           /\ Range(enter(places, c)) \subseteq Range(places) \cup {c}
<1>1. CASE c \in Range(places)
    BY <1>1 DEF enter
<1>2. CASE c \notin Range(places)
    <2> DEFINE first == FirstWith(places, Vacant)
               new   == [i \in 1..N |-> IF i \in first THEN c ELSE places[i]]
    <2>1. enter(places, c) = new
        BY <1>2 DEF enter
    <2>2. \A i, j \in first : i = j
        BY DEF FirstWith
    <2>3. \A i \in 1..N : places[i] # c
        BY <1>2 DEF Range
    <2>4. new \in [1..N -> C \cup {Vacant}]
        OBVIOUS
    <2>5. Once(new)
        BY <2>2, <2>3 DEF Once
    <2>6. Range(new) \subseteq Range(places) \cup {c}
        BY DEF Range
    <2> QED
        BY <2>1, <2>4, <2>5, <2>6
<1> QED
    BY <1>1, <1>2

\* Where a code is in one place only, leaving takes it out altogether.
LEMMA LeavePlaces ==
    ASSUME NEW N \in Nat, NEW C, NEW places \in [1..N -> C \cup {Vacant}],
           NEW c, c # Vacant, Once(places)
    PROVE  /\ leave(places, c) \in [1..N -> C \cup {Vacant}]
           /\ Once(leave(places, c))
           /\ Range(leave(places, c)) \subseteq (Range(places) \ {c}) \cup {Vacant}
<1> DEFINE first == FirstWith(places, c)
           new   == [i \in 1..N |-> IF i \in first THEN Vacant ELSE places[i]]
<1>1. leave(places, c) = new
    BY DEF leave
<1>2. \A i \in 1..N : places[i] = c => i \in first
    BY DEF FirstWith, Once
<1>3. new \in [1..N -> C \cup {Vacant}]
    OBVIOUS
<1>4. Once(new)
    BY DEF Once
<1>5. Range(new) \subseteq (Range(places) \ {c}) \cup {Vacant}
    BY <1>2 DEF Range
<1> QED
    BY <1>1, <1>3, <1>4, <1>5

-----------------------------------------------------------------------------
(***************************************************************************)
(* What a page's report becomes.                                           *)
(***************************************************************************)
\* A press adds the button's tokens at most.
LEMMA PressedPage ==
    ASSUME NEW pg \in Page, Once(pg.bt_keys), Once(pg.bt_mods),
           NEW b \in Buttons, Reported(b)
    PROVE  /\ pressed(pg, b) \in Page
           /\ Once(pressed(pg, b).bt_keys) /\ Once(pressed(pg, b).bt_mods)
           /\ Own(pressed(pg, b)) \subseteq Own(pg) \cup KeyTokens(b)
           /\ pressed(pg, b).intervals = pg.intervals
<1> DEFINE new == pressed(pg, b)
<1>1. /\ pg.bt_keys \in [1..KeyPlaces -> KeyCodes \cup {Vacant}]
      /\ pg.bt_mods \in [1..ModPlaces -> (ModCodes \cup {TextModifier}) \cup {Vacant}]
      /\ pg.bt_mouse \in [Axes -> Nat]
      /\ KeyPlaces \in Nat /\ ModPlaces \in Nat
    BY BoundsAssumption DEF Page
<1>2. b # NoButton
    BY ButtonsAssumption
<1>3. CASE Code[b].kind = "key"
    <2> DEFINE c == Code[b].code
    <2>1. c \in KeyCodes /\ c # Vacant
        BY <1>3, CodeKinds, TokenKinds
    <2>2. /\ enter(pg.bt_keys, c) \in [1..KeyPlaces -> KeyCodes \cup {Vacant}]
          /\ Once(enter(pg.bt_keys, c))
          /\ Range(enter(pg.bt_keys, c)) \subseteq Range(pg.bt_keys) \cup {c}
        <3> HIDE DEF c
        <3> QED
            BY <1>1, <2>1, EnterPlaces
    <2>3. new = [pg EXCEPT !.bt_keys = enter(pg.bt_keys, c)]
        BY <1>3 DEF pressed
    <2>4. KeyTokens(b) = {c}
        BY <1>2, <1>3 DEF KeyTokens, Tokens
    <2> HIDE DEF new, c
    <2>5. /\ new \in Page /\ new.bt_keys = enter(pg.bt_keys, c)
          /\ new.bt_mods = pg.bt_mods /\ new.bt_mouse = pg.bt_mouse
          /\ new.intervals = pg.intervals
        BY <2>2, <2>3 DEF Page
    <2>6. Own(new) \subseteq Own(pg) \cup KeyTokens(b)
        BY <2>2, <2>4, <2>5 DEF Own, KeyboardOf
    <2> QED
        BY <2>2, <2>5, <2>6 DEF new
<1>4. CASE Code[b].kind = "mouse"
    <2> DEFINE move  == Code[b].move
               mouse == [x \in Axes |-> IF move[x] # 0 THEN move[x] ELSE pg.bt_mouse[x]]
    <2>1. move \in [Axes -> Nat]
        BY <1>4, CodeKinds
    <2>2. mouse \in [Axes -> Nat] /\ Moved(mouse) \subseteq Moved(pg.bt_mouse) \cup Moved(move)
        BY <1>1, <2>1 DEF Moved
    <2>3. new = [pg EXCEPT !.bt_mouse = mouse]
        BY <1>4 DEF pressed
    <2>4. KeyTokens(b) = Moved(move)
        BY <1>2, <1>4 DEF KeyTokens, Tokens
    <2> HIDE DEF new, move, mouse
    <2>5. /\ new \in Page /\ new.bt_mouse = mouse
          /\ new.bt_mods = pg.bt_mods /\ new.bt_keys = pg.bt_keys
          /\ new.intervals = pg.intervals
        BY <2>2, <2>3 DEF Page
    <2>6. Own(new) \subseteq Own(pg) \cup KeyTokens(b)
        BY <2>2, <2>4, <2>5 DEF Own, KeyboardOf
    <2> QED
        BY <2>5, <2>6 DEF new
<1>5. CASE Code[b].kind \notin {"key", "mouse"}
    <2> DEFINE c == Modifier(b)
    <2>1. Code[b].kind \in {"mod", "learnt"}
        BY <1>5 DEF Reported
    <2>2. c \in ModCodes \cup {TextModifier} /\ c # Vacant
        BY <2>1, CodeKinds, TokenKinds DEF Modifier
    <2>3. /\ enter(pg.bt_mods, c) \in [1..ModPlaces -> (ModCodes \cup {TextModifier}) \cup {Vacant}]
          /\ Once(enter(pg.bt_mods, c))
          /\ Range(enter(pg.bt_mods, c)) \subseteq Range(pg.bt_mods) \cup {c}
        <3> HIDE DEF c
        <3> QED
            BY <1>1, <2>2, EnterPlaces
    <2>4. new = [pg EXCEPT !.bt_mods = enter(pg.bt_mods, c)]
        BY <1>5 DEF pressed
    <2>5. KeyTokens(b) = {c}
        BY <1>2, <2>1 DEF KeyTokens, Tokens, Modifier
    <2> HIDE DEF new, c
    <2>6. /\ new \in Page /\ new.bt_mods = enter(pg.bt_mods, c)
          /\ new.bt_keys = pg.bt_keys /\ new.bt_mouse = pg.bt_mouse
          /\ new.intervals = pg.intervals
        BY <2>3, <2>4 DEF Page
    <2>7. Own(new) \subseteq Own(pg) \cup KeyTokens(b)
        BY <2>3, <2>5, <2>6 DEF Own, KeyboardOf
    <2> QED
        BY <2>3, <2>6, <2>7 DEF new
<1> QED
    BY <1>3, <1>4, <1>5

\* A release takes all of the button's tokens out, as each is there once only.
LEMMA ReleasedPage ==
    ASSUME NEW pg \in Page, Once(pg.bt_keys), Once(pg.bt_mods),
           NEW b \in Buttons, Reported(b)
    PROVE  /\ released(pg, b) \in Page
           /\ Once(released(pg, b).bt_keys) /\ Once(released(pg, b).bt_mods)
           /\ Own(released(pg, b)) \subseteq Own(pg) \ KeyTokens(b)
           /\ released(pg, b).intervals = pg.intervals
<1> DEFINE new == released(pg, b)
<1>1. /\ pg.bt_keys \in [1..KeyPlaces -> KeyCodes \cup {Vacant}]
      /\ pg.bt_mods \in [1..ModPlaces -> (ModCodes \cup {TextModifier}) \cup {Vacant}]
      /\ pg.bt_mouse \in [Axes -> Nat]
      /\ KeyPlaces \in Nat /\ ModPlaces \in Nat
    BY BoundsAssumption DEF Page
<1>2. b # NoButton
    BY ButtonsAssumption
<1>3. /\ \A c \in Range(pg.bt_keys) : c[1] = "usage" \/ c = Vacant
      /\ \A c \in Range(pg.bt_mods) : c[1] \in {"modifier", "text"} \/ c = Vacant
      /\ \A c \in Moved(pg.bt_mouse) : c[1] \in Axes
    BY <1>1, TokenKinds, MovedTokens DEF Range
<1>4. CASE Code[b].kind = "key"
    <2> DEFINE c == Code[b].code
    <2>1. c[1] = "usage" /\ c # Vacant
        BY <1>4, CodeKinds, TokenKinds
    <2>2. /\ leave(pg.bt_keys, c) \in [1..KeyPlaces -> KeyCodes \cup {Vacant}]
          /\ Once(leave(pg.bt_keys, c))
          /\ Range(leave(pg.bt_keys, c)) \subseteq (Range(pg.bt_keys) \ {c}) \cup {Vacant}
        <3> HIDE DEF c
        <3> QED
            BY <1>1, <2>1, LeavePlaces
    <2>3. new = [pg EXCEPT !.bt_keys = leave(pg.bt_keys, c)]
        BY <1>4 DEF released
    <2>4. KeyTokens(b) = {c}
        BY <1>2, <1>4 DEF KeyTokens, Tokens
    <2> HIDE DEF new, c
    <2>5. /\ new \in Page /\ new.bt_keys = leave(pg.bt_keys, c)
          /\ new.bt_mods = pg.bt_mods /\ new.bt_mouse = pg.bt_mouse
          /\ new.intervals = pg.intervals
        BY <2>2, <2>3 DEF Page
    <2>6. Own(new) \subseteq Own(pg) \ KeyTokens(b)
        BY <1>3, <2>1, <2>2, <2>4, <2>5 DEF Own, KeyboardOf, Axes
    <2> QED
        BY <2>2, <2>5, <2>6 DEF new
<1>5. CASE Code[b].kind = "mouse"
    <2> DEFINE move  == Code[b].move
               mouse == [x \in Axes |-> IF move[x] # 0 THEN 0 ELSE pg.bt_mouse[x]]
    <2>1. move \in [Axes -> Nat]
        BY <1>5, CodeKinds
    <2>2. mouse \in [Axes -> Nat] /\ Moved(mouse) \subseteq Moved(pg.bt_mouse) \ Moved(move)
        <3>1. mouse \in [Axes -> Nat]
            BY <1>1
        <3>2. ASSUME NEW x \in Axes, mouse[x] # 0
              PROVE  mouse[x] = pg.bt_mouse[x] /\ move[x] = 0
            BY <3>2
        <3> HIDE DEF mouse, move
        <3> QED
            BY <3>1, <3>2 DEF Moved
    <2>3. new = [pg EXCEPT !.bt_mouse = mouse]
        BY <1>5 DEF released
    <2>4. KeyTokens(b) = Moved(move) /\ Moved(move) \subseteq Axes \X Nat
        BY <1>2, <1>5, <2>1, MovedTokens DEF KeyTokens, Tokens
    <2> HIDE DEF new, move, mouse
    <2>5. /\ new \in Page /\ new.bt_mouse = mouse
          /\ new.bt_mods = pg.bt_mods /\ new.bt_keys = pg.bt_keys
          /\ new.intervals = pg.intervals
        BY <2>2, <2>3 DEF Page
    <2>6. \A c \in Moved(move) : c[1] \in Axes
        BY <2>4, TokenKinds
    <2>7. Own(new) \subseteq Own(pg) \ KeyTokens(b)
        BY <1>3, <2>2, <2>4, <2>5, <2>6 DEF Own, KeyboardOf, Axes
    <2> QED
        BY <2>5, <2>7 DEF new
<1>6. CASE Code[b].kind \notin {"key", "mouse"}
    <2> DEFINE c == Modifier(b)
    <2>1. Code[b].kind \in {"mod", "learnt"}
        BY <1>6 DEF Reported
    <2>2. c[1] \in {"modifier", "text"} /\ c # Vacant
        BY <2>1, CodeKinds, TokenKinds DEF Modifier
    <2>3. /\ leave(pg.bt_mods, c) \in [1..ModPlaces -> (ModCodes \cup {TextModifier}) \cup {Vacant}]
          /\ Once(leave(pg.bt_mods, c))
          /\ Range(leave(pg.bt_mods, c)) \subseteq (Range(pg.bt_mods) \ {c}) \cup {Vacant}
        <3> DEFINE M == ModCodes \cup {TextModifier}
        <3>1. /\ pg.bt_mods \in [1..ModPlaces -> M \cup {Vacant}]
              /\ ModPlaces \in Nat /\ c # Vacant
            BY <1>1, <2>2
        <3> HIDE DEF c, M
        <3>2. /\ leave(pg.bt_mods, c) \in [1..ModPlaces -> M \cup {Vacant}]
              /\ Once(leave(pg.bt_mods, c))
              /\ Range(leave(pg.bt_mods, c)) \subseteq (Range(pg.bt_mods) \ {c}) \cup {Vacant}
            BY <3>1, LeavePlaces, Zenon
        <3> QED
            BY <3>2 DEF M
    <2>4. new = [pg EXCEPT !.bt_mods = leave(pg.bt_mods, c)]
        BY <1>6 DEF released
    <2>5. KeyTokens(b) = {c}
        BY <1>2, <2>1 DEF KeyTokens, Tokens, Modifier
    <2> HIDE DEF new, c
    <2>6. /\ new \in Page /\ new.bt_mods = leave(pg.bt_mods, c)
          /\ new.bt_keys = pg.bt_keys /\ new.bt_mouse = pg.bt_mouse
          /\ new.intervals = pg.intervals
        BY <2>3, <2>4 DEF Page
    <2>7. Own(new) \subseteq Own(pg) \ KeyTokens(b)
        BY <1>3, <2>2, <2>3, <2>5, <2>6 DEF Own, KeyboardOf, Axes
    <2> QED
        BY <2>3, <2>6, <2>7 DEF new
<1> QED
    BY <1>4, <1>5, <1>6

-----------------------------------------------------------------------------
(***************************************************************************)
(* Keys that are down.                                                     *)
(***************************************************************************)
\* A key that goes down, or repeats.
LEMMA OneMoreDown ==
    ASSUME NEW keys \in KeysDown, NEW k \in Keys, NEW tokens \in SUBSET Token,
           NEW new, new = [j \in DOMAIN keys \cup {k} |-> IF j = k THEN tokens ELSE keys[j]]
    PROVE  /\ new \in KeysDown
           /\ tokens \subseteq Held(new)
           /\ Held(keys) \subseteq Held(new) \cup (IF k \in DOMAIN keys THEN keys[k] ELSE {})
<1>1. PICK K \in SUBSET Keys : keys \in [K -> SUBSET Token]
    BY DEF KeysDown
<1>2. new \in [K \cup {k} -> SUBSET Token] /\ K \cup {k} \in SUBSET Keys
    BY <1>1
<1>3. new \in KeysDown
    BY <1>2 DEF KeysDown
<1>4. \A j \in DOMAIN keys : j # k => new[j] = keys[j]
    OBVIOUS
<1>5. new[k] = tokens
    OBVIOUS
<1>6. DOMAIN new = DOMAIN keys \cup {k}
    OBVIOUS
<1>7. tokens \subseteq Held(new)
    BY <1>5, <1>6 DEF Held
<1>8. Held(keys) \subseteq Held(new) \cup (IF k \in DOMAIN keys THEN keys[k] ELSE {})
    BY <1>4, <1>6 DEF Held
<1> QED
    BY <1>3, <1>7, <1>8

\* A key that goes up.
LEMMA OneLessDown ==
    ASSUME NEW keys \in KeysDown, NEW k \in DOMAIN keys
    PROVE  /\ Restrict(keys, DOMAIN keys \ {k}) \in KeysDown
           /\ Held(keys) \subseteq Held(Restrict(keys, DOMAIN keys \ {k})) \cup keys[k]
           /\ keys[k] \in SUBSET Token
<1> DEFINE new == Restrict(keys, DOMAIN keys \ {k})
<1>1. PICK K \in SUBSET Keys : keys \in [K -> SUBSET Token]
    BY DEF KeysDown
<1>2. new \in [K \ {k} -> SUBSET Token] /\ K \ {k} \in SUBSET Keys
    BY <1>1 DEF Restrict
<1>3. new \in KeysDown
    BY <1>2 DEF KeysDown
<1>4. Held(keys) \subseteq Held(new) \cup keys[k]
    BY DEF Held, Restrict
<1> QED
    BY <1>1, <1>3, <1>4

-----------------------------------------------------------------------------
(***************************************************************************)
(* Steps.                                                                  *)
(***************************************************************************)
\* The page of p becomes pg: enough that what pg holds and repeats is pressed now,
\* or was let go of unseen.
LEMMA BecomeKeeps ==
    ASSUME IInv, NEW p \in Conns, NEW pg \in Page, Once(pg.bt_keys), Once(pg.bt_mods),
           NEW missed \in SUBSET Token,
           NEW keys \in KeysDown, NEW b \in Buttons \cup {NoButton},
           Become(p, pg, missed),
           down' = [down EXCEPT ![p] = keys],
           clicked' = [clicked EXCEPT ![p] = b],
           Own(pg) \subseteq Held(keys) \cup slipped[p] \cup missed,
           pg.intervals => Repetition \in Tokens(b) \cup slipped[p] \cup missed
    PROVE  IInv'
<1> DEFINE due == Entered(pg) \cup IF pg.bt_pressed THEN AllTokens ELSE {}
           now == (slipped[p] \cup missed) \cap due
<1>1. /\ page' = [page EXCEPT ![p] = pg]
      /\ slipped' = [slipped EXCEPT ![p] = now]
    BY DEF Become, IInv
<1>2. Own(pg) \subseteq due /\ (pg.intervals => Repetition \in due)
    BY DEF Own, Entered
<1>3. now \in SUBSET Token
    BY DEF IInv
<1>4. Own(pg) \subseteq Held(keys) \cup now
    BY <1>2
<1>5. pg.intervals => Repetition \in Tokens(b) \cup now
    BY <1>2
<1> HIDE DEF now, due
<1>6. Pages'
    BY <1>1 DEF IInv, Pages
<1>7. Hands' /\ slipped' \in [Conns -> SUBSET Token]
    BY <1>1, <1>3 DEF IInv, Hands, KeysDown
<1>8. ASSUME NEW q \in Conns, q # p
      PROVE  /\ page'[q] = page[q] /\ down'[q] = down[q] /\ clicked'[q] = clicked[q]
             /\ slipped'[q] = slipped[q]
    BY <1>1, <1>8 DEF IInv, Pages, Hands
<1>9. page'[p] = pg /\ down'[p] = keys /\ clicked'[p] = b /\ slipped'[p] = now
    BY <1>1 DEF IInv, Pages, Hands
<1>10. KeysHold'
    BY <1>4, <1>8, <1>9 DEF IInv, KeysHold
<1>11. ClicksHold'
    BY <1>5, <1>8, <1>9 DEF IInv, ClicksHold
<1> QED
    BY <1>6, <1>7, <1>10, <1>11 DEF IInv

\* What the invariant says of one page.
LEMMA OnePage ==
    ASSUME IInv, NEW p \in Conns
    PROVE  /\ page[p] \in Page /\ Once(page[p].bt_keys) /\ Once(page[p].bt_mods)
           /\ down[p] \in KeysDown /\ clicked[p] \in Buttons \cup {NoButton}
           /\ slipped[p] \in SUBSET Token
           /\ Own(page[p]) \subseteq Held(down[p]) \cup slipped[p]
           /\ page[p].intervals => Repetition \in Tokens(clicked[p]) \cup slipped[p]
           /\ down = [down EXCEPT ![p] = down[p]]
           /\ clicked = [clicked EXCEPT ![p] = clicked[p]]
BY DEF IInv, Pages, Hands, KeysHold, ClicksHold, KeysDown

LEMMA PageStands ==
    ASSUME IInv, UNCHANGED <<page, clicked, slipped>>,
           down' = down
    PROVE  IInv'
BY DEF IInv, Pages, Hands, KeysHold, ClicksHold

\* clear_presses repeats nothing any more, and leaves the report as it is.
LEMMA ClearPressesKeeps ==
    ASSUME IInv, NEW p \in Conns, NEW pg \in Page, Once(pg.bt_keys), Once(pg.bt_mods),
           NEW missed \in SUBSET Token,
           NEW keys \in KeysDown, NEW b \in Buttons \cup {NoButton},
           ClearPresses(p, pg, missed),
           down' = [down EXCEPT ![p] = keys],
           clicked' = [clicked EXCEPT ![p] = b],
           Own(pg) \subseteq Held(keys) \cup slipped[p] \cup missed
    PROVE  IInv'
<1>1. PICK ready \in BOOLEAN : Become(p, clear_presses(pg, ready), missed)
    BY DEF ClearPresses, Ready
<1> DEFINE new == clear_presses(pg, ready)
<1>2. new = [pg EXCEPT !.intervals = FALSE, !.bt_pressed = pg.bt_pressed /\ ~ ready]
    BY DEF clear_presses
<1> HIDE DEF new
<1>3. /\ new \in Page /\ new.intervals = FALSE
      /\ new.bt_keys = pg.bt_keys /\ new.bt_mods = pg.bt_mods
      /\ new.bt_mouse = pg.bt_mouse
    BY <1>2 DEF Page
<1>4. Own(new) = Own(pg)
    BY <1>3 DEF Own, KeyboardOf
<1> QED
    BY <1>1, <1>3, <1>4, BecomeKeeps DEF new

\* press_button repeats a code only for an on-screen button that is no Bluetooth one.
LEMMA PressButtonKeeps ==
    ASSUME IInv, NEW p \in Conns, NEW b \in Buttons, NEW repeat \in BOOLEAN,
           NEW missed \in SUBSET Token,
           NEW keys \in KeysDown, NEW c \in Buttons \cup {NoButton},
           PressButton(p, b, repeat, missed),
           down' = [down EXCEPT ![p] = keys],
           clicked' = [clicked EXCEPT ![p] = c],
           Held(down[p]) \subseteq Held(keys) \cup missed,
           page[p].intervals \/ (repeat /\ ~ Bluetooth(b)) =>
               Repetition \in Tokens(c) \cup slipped[p] \cup missed
    PROVE  IInv'
<1> DEFINE new == [page[p] EXCEPT
                      !.bt_pressed = page[p].bt_pressed \/ Bluetooth(b),
                      !.intervals  = page[p].intervals \/ (repeat /\ ~ Bluetooth(b))]
<1>1. Become(p, new, missed)
    BY DEF PressButton
<1>2. /\ page[p] \in Page /\ Once(page[p].bt_keys) /\ Once(page[p].bt_mods)
      /\ Own(page[p]) \subseteq Held(down[p]) \cup slipped[p]
    BY OnePage
<1>3. Bluetooth(b) \in BOOLEAN
    BY DEF Bluetooth
<1>4. /\ new \in Page
      /\ new.intervals = (page[p].intervals \/ (repeat /\ ~ Bluetooth(b)))
      /\ new.bt_keys = page[p].bt_keys /\ new.bt_mods = page[p].bt_mods
      /\ new.bt_mouse = page[p].bt_mouse
    BY <1>2, <1>3 DEF Page
<1> HIDE DEF new
<1>5. Own(new) = Own(page[p])
    BY <1>4 DEF Own, KeyboardOf
<1>6. Own(new) \subseteq Held(keys) \cup slipped[p] \cup missed
    BY <1>2, <1>5
<1>7. new.intervals => Repetition \in Tokens(c) \cup slipped[p] \cup missed
    BY <1>4
<1>8. Once(new.bt_keys) /\ Once(new.bt_mods)
    BY <1>2, <1>4
<1> QED
    BY <1>1, <1>4, <1>6, <1>7, <1>8, BecomeKeeps

LEMMA KeyDownKeeps ==
    ASSUME IInv, NEW p \in Conns, NEW k \in Keys, KeyDown(p, k)
    PROVE  IInv'
<1> DEFINE b == ButtonOf(page[p], k)
           keysWith(tokens) ==
               [j \in DOMAIN down[p] \cup {k} |-> IF j = k THEN tokens ELSE down[p][j]]
<1>1. /\ page[p] \in Page /\ Once(page[p].bt_keys) /\ Once(page[p].bt_mods)
      /\ down[p] \in KeysDown /\ clicked[p] \in Buttons \cup {NoButton}
      /\ slipped[p] \in SUBSET Token
      /\ Own(page[p]) \subseteq Held(down[p]) \cup slipped[p]
      /\ page[p].intervals => Repetition \in Tokens(clicked[p]) \cup slipped[p]
      /\ clicked = [clicked EXCEPT ![p] = clicked[p]]
    BY OnePage
<1>2. Was(p, k) \in SUBSET Token
    BY <1>1 DEF Was, KeysDown
<1>3. \A tokens \in SUBSET Token :
          /\ keysWith(tokens) \in KeysDown
          /\ tokens \subseteq Held(keysWith(tokens))
          /\ Held(down[p]) \subseteq Held(keysWith(tokens)) \cup Was(p, k)
    BY <1>1, OneMoreDown DEF Was
<1>4. \A tokens : Down(p, k, tokens) => down' = [down EXCEPT ![p] = keysWith(tokens)]
    BY DEF Down
<1>5. b \in Buttons \cup {NoButton}
    BY <1>1 DEF ButtonOf, Page, KeyMaps
<1> HIDE DEF keysWith, b
<1>6. CASE page[p].edit_mode \/ b = NoButton
    <2> DEFINE new == keysWith(Was(p, k))
    <2>1. /\ down' = [down EXCEPT ![p] = new]
          /\ UNCHANGED <<page, clicked, slipped>>
        BY <1>4, <1>6 DEF KeyDown, b
    <2>2. new \in KeysDown /\ Held(down[p]) \subseteq Held(new)
        BY <1>2, <1>3
    <2> HIDE DEF new
    <2>3. Hands'
        BY <2>1, <2>2 DEF IInv, Hands
    <2>4. KeysHold'
        BY <2>1, <2>2 DEF IInv, Hands, KeysHold
    <2> QED
        BY <2>1, <2>3, <2>4 DEF IInv, Pages, ClicksHold
<1>7. CASE ~ (page[p].edit_mode \/ b = NoButton)
    <2> DEFINE new    == keysWith(KeyTokens(b))
               missed == Was(p, k) \ KeyTokens(b)
    <2>1. b \in Buttons /\ KeyTokens(b) \in SUBSET Token
        BY <1>5, <1>7, ButtonTokens
    <2>2. /\ down' = [down EXCEPT ![p] = new]
          /\ clicked' = [clicked EXCEPT ![p] = clicked[p]]
          /\ IF Reported(b) THEN Become(p, pressed(page[p], b), missed)
                            ELSE PressButton(p, b, FALSE, missed)
        BY <1>1, <1>4, <1>7 DEF KeyDown, b
    <2>3. new \in KeysDown /\ KeyTokens(b) \subseteq Held(new)
        BY <1>3, <2>1
    <2>4. Held(down[p]) \subseteq Held(new) \cup missed
        BY <1>3, <2>1, <2>3
    <2>5. missed \in SUBSET Token
        BY <1>2
    <2> HIDE DEF new, missed
    <2>6. CASE Reported(b)
        <3> DEFINE pg == pressed(page[p], b)
        <3>1. /\ pg \in Page /\ Once(pg.bt_keys) /\ Once(pg.bt_mods)
              /\ Own(pg) \subseteq Own(page[p]) \cup KeyTokens(b)
              /\ pg.intervals = page[p].intervals
            BY <1>1, <2>1, <2>6, PressedPage
        <3>2. Become(p, pg, missed)
            BY <2>2, <2>6
        <3> HIDE DEF pg
        <3>3. Own(pg) \subseteq Held(new) \cup slipped[p] \cup missed
            BY <1>1, <2>3, <2>4, <3>1
        <3>4. pg.intervals => Repetition \in Tokens(clicked[p]) \cup slipped[p] \cup missed
            BY <1>1, <3>1
        <3> QED
            BY <1>1, <2>2, <2>3, <2>5, <3>1, <3>2, <3>3, <3>4, BecomeKeeps
    <2>7. CASE ~ Reported(b)
        BY <1>1, <2>1, <2>2, <2>3, <2>4, <2>5, <2>7, PressButtonKeeps
    <2> QED
        BY <2>6, <2>7
<1> QED
    BY <1>6, <1>7

\* Nothing of a button that poll_key_map sends as it is gets into the report.
LEMMA NotOwn ==
    ASSUME NEW pg \in Page, NEW b \in Buttons, ~ Reported(b)
    PROVE  Own(pg) \cap KeyTokens(b) = {}
<1>1. b # NoButton /\ Code[b].kind \in {"consumer", "ir"}
    BY ButtonsAssumption, CodeKinds DEF Reported
<1>2. \A c \in KeyTokens(b) : c[1] = "consumer"
    BY <1>1, CodeKinds, TokenKinds DEF KeyTokens, Tokens
<1>3. /\ pg.bt_keys \in [1..KeyPlaces -> KeyCodes \cup {Vacant}]
      /\ pg.bt_mods \in [1..ModPlaces -> ModCodes \cup {TextModifier, Vacant}]
      /\ pg.bt_mouse \in [Axes -> Nat]
    BY DEF Page
<1>4. /\ \A c \in KeyboardOf(pg) : c[1] \in {"usage", "modifier", "text"}
      /\ \A c \in Moved(pg.bt_mouse) : c[1] \in Axes
    BY <1>3, TokenKinds, MovedTokens DEF KeyboardOf, Range
<1> QED
    BY <1>2, <1>4 DEF Own, Axes

LEMMA KeyUpKeeps ==
    ASSUME IInv, NEW p \in Conns, NEW k \in Keys, KeyUp(p, k) \/ KeyUpElsewhere(p, k)
    PROVE  IInv'
<1> DEFINE b    == ButtonOf(page[p], k)
           keys == Restrict(down[p], DOMAIN down[p] \ {k})
           was  == down[p][k]
<1>1. /\ page[p] \in Page /\ Once(page[p].bt_keys) /\ Once(page[p].bt_mods)
      /\ down[p] \in KeysDown /\ clicked[p] \in Buttons \cup {NoButton}
      /\ Own(page[p]) \subseteq Held(down[p]) \cup slipped[p]
      /\ page[p].intervals => Repetition \in Tokens(clicked[p]) \cup slipped[p]
      /\ clicked = [clicked EXCEPT ![p] = clicked[p]]
    BY OnePage
<1>2. k \in DOMAIN down[p] /\ down' = [down EXCEPT ![p] = keys] /\ clicked' = clicked
    BY DEF KeyUp, KeyUpElsewhere, Up
<1>3. /\ keys \in KeysDown /\ was \in SUBSET Token
      /\ Held(down[p]) \subseteq Held(keys) \cup was
    BY <1>1, <1>2, OneLessDown
<1>4. b \in Buttons \cup {NoButton}
    BY <1>1 DEF ButtonOf, Page, KeyMaps
<1> HIDE DEF b, keys, was
<1>5. Own(page[p]) \subseteq Held(keys) \cup slipped[p] \cup was
    BY <1>1, <1>3
<1>6. CASE Become(p, page[p], was)
    BY <1>1, <1>2, <1>3, <1>5, <1>6, BecomeKeeps
<1>7. CASE KeyUp(p, k) /\ ~ (page[p].edit_mode \/ b = NoButton)
    <2>1. b \in Buttons
        BY <1>4, <1>7
    <2>2. was \ KeyTokens(b) \in SUBSET Token
        BY <1>3
    <2>3. CASE Reported(b)
        <3> DEFINE pg == released(page[p], b)
        <3>1. /\ pg \in Page /\ Once(pg.bt_keys) /\ Once(pg.bt_mods)
              /\ Own(pg) \subseteq Own(page[p]) \ KeyTokens(b)
              /\ pg.intervals = page[p].intervals
            BY <1>1, <2>1, <2>3, ReleasedPage
        <3>2. Become(p, pg, was \ KeyTokens(b))
            BY <1>7, <2>3 DEF KeyUp, b, was
        <3> HIDE DEF pg
        <3>3. Own(pg) \subseteq Held(keys) \cup slipped[p] \cup (was \ KeyTokens(b))
            BY <1>5, <3>1
        <3>4. pg.intervals =>
                  Repetition \in Tokens(clicked[p]) \cup slipped[p] \cup (was \ KeyTokens(b))
            BY <1>1, <3>1
        <3> QED
            BY <1>1, <1>2, <1>3, <2>2, <3>1, <3>2, <3>3, <3>4, BecomeKeeps
    <2>4. CASE ~ Reported(b)
        <3>1. ClearPresses(p, page[p], was \ KeyTokens(b))
            BY <1>7, <2>4 DEF KeyUp, b, was
        <3>2. Own(page[p]) \cap KeyTokens(b) = {}
            BY <1>1, <2>1, <2>4, NotOwn
        <3> QED
            BY <1>1, <1>2, <1>3, <1>5, <2>2, <3>1, <3>2, ClearPressesKeeps
    <2> QED
        BY <2>3, <2>4
<1> QED
    BY <1>6, <1>7 DEF KeyUp, KeyUpElsewhere, b, was

LEMMA MouseDownKeeps ==
    ASSUME IInv, NEW p \in Conns, NEW b \in Buttons, MouseDown(p, b)
    PROVE  IInv'
<1>1. PICK repeat \in BOOLEAN : PressButton(p, b, repeat, {})
    BY DEF MouseDown
<1>2. /\ clicked[p] = NoButton /\ clicked' = [clicked EXCEPT ![p] = b]
      /\ down' = [down EXCEPT ![p] = down[p]]
    BY OnePage DEF MouseDown
<1>3. /\ down[p] \in KeysDown
      /\ page[p].intervals => Repetition \in Tokens(clicked[p]) \cup slipped[p]
    BY OnePage
<1>4. page[p].intervals => Repetition \in slipped[p]
    BY <1>2, <1>3 DEF Tokens
<1>5. b # NoButton
    BY ButtonsAssumption
<1>6. ~ Bluetooth(b) => Tokens(b) = {Repetition}
    BY <1>5, CodeKinds DEF Bluetooth, Tokens
<1>7. page[p].intervals \/ (repeat /\ ~ Bluetooth(b)) =>
          Repetition \in Tokens(b) \cup slipped[p] \cup {}
    BY <1>4, <1>6
<1> QED
    BY <1>1, <1>2, <1>3, <1>7, PressButtonKeeps

LEMMA MouseUpKeeps ==
    ASSUME IInv, NEW p \in Conns, MouseUp(p) \/ MouseUpElsewhere(p)
    PROVE  IInv'
<1>1. /\ page[p] \in Page /\ Once(page[p].bt_keys) /\ Once(page[p].bt_mods)
      /\ down[p] \in KeysDown /\ clicked[p] \in Buttons \cup {NoButton}
      /\ Own(page[p]) \subseteq Held(down[p]) \cup slipped[p]
      /\ page[p].intervals => Repetition \in Tokens(clicked[p]) \cup slipped[p]
      /\ down = [down EXCEPT ![p] = down[p]]
    BY OnePage
<1>2. down' = down /\ clicked' = [clicked EXCEPT ![p] = NoButton]
    BY DEF MouseUp, MouseUpElsewhere
<1>3. Tokens(clicked[p]) \in SUBSET Token
    BY <1>1, ButtonTokens
<1>4. CASE MouseUp(p)
    <2>1. ClearPresses(p, page[p], {})
        BY <1>4 DEF MouseUp
    <2> QED
        BY <1>1, <1>2, <2>1, ClearPressesKeeps
<1>5. CASE MouseUpElsewhere(p)
    <2>1. Become(p, page[p], Tokens(clicked[p]))
        BY <1>5 DEF MouseUpElsewhere
    <2> QED
        BY <1>1, <1>2, <1>3, <2>1, BecomeKeeps
<1> QED
    BY <1>4, <1>5

\* Edit mode and what changes the meaning of a key leave the report as it is.
LEMMA SettingsKeep ==
    ASSUME IInv, NEW p \in Conns, NEW pg \in Page,
           pg.bt_keys = page[p].bt_keys, pg.bt_mods = page[p].bt_mods,
           pg.bt_mouse = page[p].bt_mouse, pg.intervals = page[p].intervals,
           ClearPresses(p, pg, {}) \/ Become(p, pg, {}),
           UNCHANGED <<down, clicked>>
    PROVE  IInv'
<1>1. /\ Once(page[p].bt_keys) /\ Once(page[p].bt_mods)
      /\ down[p] \in KeysDown /\ clicked[p] \in Buttons \cup {NoButton}
      /\ Own(page[p]) \subseteq Held(down[p]) \cup slipped[p]
      /\ page[p].intervals => Repetition \in Tokens(clicked[p]) \cup slipped[p]
      /\ down = [down EXCEPT ![p] = down[p]]
      /\ clicked = [clicked EXCEPT ![p] = clicked[p]]
    BY OnePage
<1>2. Own(pg) = Own(page[p])
    BY DEF Own, KeyboardOf
<1>3. CASE ClearPresses(p, pg, {})
    BY <1>1, <1>2, <1>3, ClearPressesKeeps
<1>4. CASE Become(p, pg, {})
    BY <1>1, <1>2, <1>4, BecomeKeeps
<1> QED
    BY <1>3, <1>4

LEMMA toggle_edit_modeKeeps ==
    ASSUME IInv, NEW p \in Conns, toggle_edit_mode(p)
    PROVE  IInv'
<1> DEFINE pg == [page[p] EXCEPT !.edit_mode = ~ page[p].edit_mode]
<1>1. page[p] \in Page
    BY OnePage
<1>2. /\ pg \in Page /\ pg.bt_keys = page[p].bt_keys /\ pg.bt_mods = page[p].bt_mods
      /\ pg.bt_mouse = page[p].bt_mouse /\ pg.intervals = page[p].intervals
    BY <1>1 DEF Page
<1>3. /\ ClearPresses(p, pg, {}) \/ Become(p, pg, {})
      /\ UNCHANGED <<down, clicked>>
    BY DEF toggle_edit_mode
<1> HIDE DEF pg
<1> QED
    BY <1>2, <1>3, SettingsKeep

LEMMA SwitchActivityKeeps ==
    ASSUME IInv, NEW p \in Conns, NEW a \in Activities, SwitchActivity(p, a)
    PROVE  IInv'
<1> DEFINE pg == [page[p] EXCEPT !.activity = a]
<1>1. page[p] \in Page
    BY OnePage
<1>2. /\ pg \in Page /\ pg.bt_keys = page[p].bt_keys /\ pg.bt_mods = page[p].bt_mods
      /\ pg.bt_mouse = page[p].bt_mouse /\ pg.intervals = page[p].intervals
    BY <1>1 DEF Page
<1>3. Become(p, pg, {}) /\ UNCHANGED <<down, clicked>>
    BY DEF SwitchActivity, ChangeMaps
<1> HIDE DEF pg
<1> QED
    BY <1>2, <1>3, SettingsKeep

LEMMA MapKeeps ==
    ASSUME IInv, NEW p \in Conns, NEW a \in Activities, NEW k \in Keys,
           NEW b \in Buttons \cup {NoButton},
           ChangeMaps(p, [page[p] EXCEPT !.key_maps[a][k] = b])
    PROVE  IInv'
<1> DEFINE maps == [page[p].key_maps EXCEPT ![a][k] = b]
           pg   == [page[p] EXCEPT !.key_maps = maps]
<1>1. page[p] \in Page /\ page[p].key_maps \in KeyMaps
    BY OnePage DEF Page
<1>2. maps \in KeyMaps
    BY <1>1 DEF KeyMaps
<1>3. Become(p, pg, {}) /\ UNCHANGED <<down, clicked>>
    BY DEF ChangeMaps
<1> HIDE DEF maps
<1>4. /\ pg \in Page /\ pg.bt_keys = page[p].bt_keys /\ pg.bt_mods = page[p].bt_mods
      /\ pg.bt_mouse = page[p].bt_mouse /\ pg.intervals = page[p].intervals
    BY <1>1, <1>2 DEF Page
<1> HIDE DEF pg
<1> QED
    BY <1>3, <1>4, SettingsKeep

\* A page as it is loaded has nothing in its report and repeats nothing.
LEMMA NewPages ==
    ASSUME NEW a \in Activities
    PROVE  /\ NewPage(a) \in Page
           /\ Once(NewPage(a).bt_keys) /\ Once(NewPage(a).bt_mods)
           /\ Own(NewPage(a)) = {} /\ NewPage(a).intervals = FALSE
<1> DEFINE pg == NewPage(a)
<1>1. pg \in Page
    BY ButtonsAssumption, BoundsAssumption DEF NewPage, Page
<1>2. /\ pg.bt_keys = [i \in 1..KeyPlaces |-> Vacant]
      /\ pg.bt_mods = [i \in 1..ModPlaces |-> Vacant]
      /\ pg.bt_mouse = [x \in Axes |-> 0] /\ pg.intervals = FALSE
    BY DEF NewPage
<1> HIDE DEF pg
<1>3. Once(pg.bt_keys) /\ Once(pg.bt_mods)
    BY <1>2 DEF Once
<1>4. Own(pg) = {}
    BY <1>2 DEF Own, KeyboardOf, Moved, Range
<1> QED
    BY <1>1, <1>2, <1>3, <1>4 DEF pg

LEMMA ReloadKeeps ==
    ASSUME IInv, NEW p \in Conns, Reload(p)
    PROVE  IInv'
<1>1. PICK a \in Activities : page' = [page EXCEPT ![p] = NewPage(a)]
    BY DEF Reload
<1> DEFINE keys == [k \in DOMAIN down[p] |-> {}]
<1>2. /\ down' = [down EXCEPT ![p] = keys]
      /\ clicked' = [clicked EXCEPT ![p] = NoButton]
      /\ slipped' = [slipped EXCEPT ![p] = {}]
    BY DEF Reload
<1>3. PICK K \in SUBSET Keys : down[p] \in [K -> SUBSET Token]
    BY OnePage DEF KeysDown
<1>4. keys \in [K -> SUBSET Token]
    BY <1>3
<1>5. keys \in KeysDown
    BY <1>4 DEF KeysDown
<1> HIDE DEF keys
<1>6. Pages'
    BY <1>1, NewPages DEF IInv, Pages
<1>7. Hands' /\ slipped' \in [Conns -> SUBSET Token]
    BY <1>2, <1>5 DEF IInv, Hands
<1>8. ASSUME NEW q \in Conns, q # p
      PROVE  /\ page'[q] = page[q] /\ down'[q] = down[q] /\ clicked'[q] = clicked[q]
             /\ slipped'[q] = slipped[q]
    BY <1>1, <1>2, <1>8 DEF IInv, Pages, Hands
<1>9. page'[p] = NewPage(a)
    BY <1>1 DEF IInv, Pages
<1>10. KeysHold' /\ ClicksHold'
    BY <1>8, <1>9, NewPages DEF IInv, KeysHold, ClicksHold
<1> QED
    BY <1>6, <1>7, <1>10 DEF IInv

-----------------------------------------------------------------------------
LEMMA InitIInv == Init => IInv
<1> SUFFICES ASSUME Init PROVE IInv
    OBVIOUS
<1>1. ASSUME NEW p \in Conns
      PROVE  \E a \in Activities : page[p] = NewPage(a)
    BY DEF Init
<1>2. Pages
    <2>1. page \in [Conns -> Page]
        BY <1>1, NewPages DEF Init
    <2> QED
        BY <1>1, <2>1, NewPages DEF Pages
<1>3. <<>> \in [{} -> SUBSET Token]
    OBVIOUS
<1>4. <<>> \in KeysDown
    BY <1>3 DEF KeysDown
<1>5. Hands /\ slipped \in [Conns -> SUBSET Token]
    BY <1>4 DEF Init, Hands
<1>6. KeysHold /\ ClicksHold
    BY <1>1, NewPages DEF KeysHold, ClicksHold
<1> QED
    BY <1>2, <1>5, <1>6 DEF IInv

LEMMA OrdinaryKeeps ==
    ASSUME IInv, NEW p \in Conns, Ordinary(p)
    PROVE  IInv'
<1>1. ASSUME NEW k \in Keys, KeyDown(p, k) \/ KeyUp(p, k)
      PROVE  IInv'
    BY <1>1, KeyDownKeeps, KeyUpKeeps
<1>2. ASSUME NEW b \in Buttons, MouseDown(p, b)
      PROVE  IInv'
    BY <1>2, MouseDownKeeps
<1>3. ASSUME MouseUp(p) \/ toggle_edit_mode(p) \/ Reload(p)
      PROVE  IInv'
    BY <1>3, MouseUpKeeps, toggle_edit_modeKeeps, ReloadKeeps
<1>4. ASSUME RepeatCode(p) \/ Connect(p) \/ NoticeClose(p) \/ Handle(p)
      PROVE  IInv'
    BY <1>4, PageStands DEF RepeatCode, Connect, NoticeClose, Handle
<1> QED
    BY <1>1, <1>2, <1>3, <1>4 DEF Ordinary

LEMMA MishapKeeps ==
    ASSUME IInv, NEW p \in Conns, Mishap(p)
    PROVE  IInv'
<1>1. ASSUME NEW k \in Keys, KeyUpElsewhere(p, k)
      PROVE  IInv'
    BY <1>1, KeyUpKeeps
<1>2. ASSUME MouseUpElsewhere(p) \/ toggle_edit_mode(p)
      PROVE  IInv'
    BY <1>2, MouseUpKeeps, toggle_edit_modeKeeps
<1>3. ASSUME NEW a \in Activities, SwitchActivity(p, a)
      PROVE  IInv'
    BY <1>3, SwitchActivityKeeps
<1>4. ASSUME NEW k \in Keys, NEW b \in Buttons, map_key(p, k, b)
      PROVE  IInv'
    <2>1. page[p].activity \in Activities
        BY OnePage DEF Page
    <2> QED
        BY <1>4, <2>1, MapKeeps DEF map_key
<1>5. ASSUME NEW a \in Activities, NEW k \in Keys, delete_key_map_callback(p, a, k)
      PROVE  IInv'
    BY <1>5, MapKeeps DEF delete_key_map_callback
<1>6. ASSUME Disconnect(p)
      PROVE  IInv'
    BY <1>6, PageStands DEF Disconnect
<1> QED
    BY <1>1, <1>2, <1>3, <1>4, <1>5, <1>6 DEF Mishap

LEMMA NextIInv == IInv /\ [Next]_vars => IInv'
<1> SUFFICES ASSUME IInv, [Next]_vars PROVE IInv'
    OBVIOUS
<1>1. CASE UNCHANGED vars
    BY <1>1, PageStands DEF vars
<1>2. CASE Next
    BY <1>2, OrdinaryKeeps, MishapKeeps DEF Next
<1> QED
    BY <1>1, <1>2

LEMMA IInvPressed == IInv => ReportIsPressed
<1> SUFFICES ASSUME IInv, NEW p \in Conns
             PROVE  Entered(page[p]) \subseteq Pressed(p)
    BY DEF ReportIsPressed
<1> QED
    BY OnePage DEF Entered, Own, Pressed

\* For any keys, buttons, maps and places, and however often something gets in
\* between: what a page reports as pressed, and the code that it repeats, are what its
\* user presses, or what went up while the page could not see it.
THEOREM ReportsArePressed == Spec => []ReportIsPressed
<1>1. Init => IInv
    BY InitIInv
<1>2. IInv /\ [Next]_vars => IInv'
    BY NextIInv
<1>3. IInv => ReportIsPressed
    BY IInvPressed
<1> QED
    BY <1>1, <1>2, <1>3, PTL DEF Spec

-----------------------------------------------------------------------------
(***************************************************************************)
(* The device.  A page that is connected accounts for what it has pressed  *)
(* there: it keeps it in its report, or is going to clear it.  What the    *)
(* last of its messages presses is accounted for, and so is what is pressed*)
(* on the device unless a message about that report is on its way: however *)
(* the messages of several pages are mixed.                                *)
(***************************************************************************)
Reports == {"keyboard", "mouse", "consumer"}

Affects(m, r) == m.report \in {"all", r}

Due(s, r) == \E n \in 1..Len(s) : Affects(s[n], r)

\* The last message that sets report r presses only tokens in S.
Sets(s, r, S) ==
    \A n \in 1..Len(s) :
        /\ Affects(s[n], r)
        /\ \A m \in (n + 1)..Len(s) : ~ Affects(s[m], r)
        => s[n].tokens \subseteq S

\* What a page keeps in report r of its own.
Kept(pg, r) ==
    IF r = "keyboard" THEN KeyboardOf(pg)
    ELSE IF r = "mouse" THEN Moved(pg.bt_mouse) ELSE {}

\* No other report holds the code of a consumer control.
Fit(r) == IF r = "consumer" THEN ConsumerCodes ELSE Token

\* What a page keeps pressed, or is going to clear once it is no longer pressed.
Accounted(p, r) ==
    Kept(page[p], r) \cup
        (IF page[p].bt_pressed THEN AllTokens \cap Pressed(p) \cap Fit(r) ELSE {})

Messages == \A p \in Conns : \A n \in 1..Len(outbox[p]) : outbox[p][n].tokens \subseteq Token

SentOK ==
    \A p \in Conns : link[p] = "open" =>
        \A r \in Reports : Sets(outbox[p], r, Accounted(p, r))

DeviceOK ==
    cut = {} /\ ~ OutOfStep =>
        \A r \in Reports : \A t \in device[r] :
            \E p \in Conns :
                Due(outbox[p], r) \/ (link[p] = "open" /\ t \in Accounted(p, r))

CutOK == \A p \in Conns : link[p] # "open" /\ outbox[p] # <<>> => p \in cut

DInv ==
    /\ HubOK
    /\ device \in [Reports -> SUBSET (Token \cup {Unknown})]
    /\ cut \subseteq Conns
    /\ Messages
    /\ SentOK
    /\ DeviceOK
    /\ CutOK

(***************************************************************************)
(* Messages that follow each other.                                        *)
(***************************************************************************)
LEMMA SentReports ==
    ASSUME NEW s, IsSeq(s), NEW t, IsSeq(t), NEW r
    PROVE  /\ Due(s \o t, r) <=> Due(s, r) \/ Due(t, r)
           /\ \A S : (IF Due(t, r) THEN Sets(t, r, S) ELSE Sets(s, r, S)) => Sets(s \o t, r, S)
<1> DEFINE u == s \o t
<1>1. /\ Len(s) \in Nat /\ Len(t) \in Nat /\ Len(u) = Len(s) + Len(t)
      /\ \A n \in 1..Len(s) : u[n] = s[n]
      /\ \A n \in 1..Len(t) : u[Len(s) + n] = t[n]
  BY SeqFacts, ConcatStream
<1> HIDE DEF u
<1>2. /\ \A n \in 1..Len(s) : n \in 1..Len(u)
      /\ \A n \in 1..Len(t) : Len(s) + n \in 1..Len(u)
  BY <1>1
<1>3. \A n \in 1..Len(u) : n \in 1..Len(s) \/ \E m \in 1..Len(t) : n = Len(s) + m
  <2>1. ASSUME NEW n \in 1..Len(u), n \notin 1..Len(s)
        PROVE  n - Len(s) \in 1..Len(t) /\ n = Len(s) + (n - Len(s))
    BY <1>1, <2>1
  <2> QED
    BY <2>1
<1>4. Due(u, r) <=> Due(s, r) \/ Due(t, r)
  BY <1>1, <1>2, <1>3 DEF Due
<1>5. ASSUME NEW S, Due(t, r), Sets(t, r, S) PROVE Sets(u, r, S)
  <2>1. PICK d \in 1..Len(t) : Affects(t[d], r)
    BY <1>5 DEF Due
  <2> SUFFICES ASSUME NEW n \in 1..Len(u), Affects(u[n], r),
                      \A m \in (n + 1)..Len(u) : ~ Affects(u[m], r)
               PROVE  u[n].tokens \subseteq S
    BY DEF Sets
  <2>2. n \notin 1..Len(s)
    <3>1. n \in 1..Len(s) => Len(s) + d \in (n + 1)..Len(u)
      BY <1>1
    <3> QED
      BY <1>1, <2>1, <3>1
  <2>3. PICK i \in 1..Len(t) : n = Len(s) + i
    BY <1>3, <2>2
  <2>4. ASSUME NEW m \in (i + 1)..Len(t) PROVE ~ Affects(t[m], r)
    <3>1. m \in 1..Len(t) /\ Len(s) + m \in (n + 1)..Len(u)
      BY <1>1, <2>3
    <3> QED
      BY <1>1, <3>1
  <2> QED
    BY <1>1, <1>5, <2>3, <2>4 DEF Sets
<1>6. ASSUME NEW S, ~ Due(t, r), Sets(s, r, S) PROVE Sets(u, r, S)
  <2> SUFFICES ASSUME NEW n \in 1..Len(u), Affects(u[n], r),
                      \A m \in (n + 1)..Len(u) : ~ Affects(u[m], r)
               PROVE  u[n].tokens \subseteq S
    BY DEF Sets
  <2>1. n \in 1..Len(s) /\ u[n] = s[n]
    BY <1>1, <1>3, <1>6 DEF Due
  <2>2. ASSUME NEW m \in (n + 1)..Len(s) PROVE ~ Affects(s[m], r)
    <3>1. m \in 1..Len(s) /\ m \in (n + 1)..Len(u)
      BY <1>1, <2>1
    <3> QED
      BY <1>1, <3>1
  <2> QED
    BY <1>6, <2>1, <2>2 DEF Sets
<1> QED
  BY <1>4, <1>5, <1>6 DEF u

LEMMA HandledReport ==
    ASSUME NEW s, IsSeq(s), s # <<>>, NEW r
    PROVE  /\ Due(s, r) <=> Affects(Head(s), r) \/ Due(Tail(s), r)
           /\ \A S : Sets(s, r, S) => Sets(Tail(s), r, S)
           /\ \A S : Sets(s, r, S) /\ Affects(Head(s), r) /\ ~ Due(Tail(s), r)
                        => Head(s).tokens \subseteq S
<1> DEFINE t == Tail(s)
<1>1. /\ Len(s) \in Nat /\ Len(s) > 0 /\ Len(t) = Len(s) - 1 /\ Head(s) = s[1]
      /\ \A n \in 1..(Len(s) - 1) : t[n] = s[n + 1]
  BY SeqFacts, TailStream
<1> HIDE DEF t
<1>2. ASSUME NEW n \in 1..Len(s), n # 1
      PROVE  n - 1 \in 1..Len(t) /\ s[n] = t[n - 1]
  <2>1. n - 1 \in 1..(Len(s) - 1) /\ (n - 1) + 1 = n
    BY <1>1, <1>2
  <2> QED
    BY <1>1, <2>1
<1>3. ASSUME NEW n \in 1..Len(t) PROVE n + 1 \in 1..Len(s) /\ s[n + 1] = t[n]
  BY <1>1
<1>4. Due(s, r) <=> Affects(Head(s), r) \/ Due(t, r)
  <2>1. ASSUME Due(s, r) PROVE Affects(Head(s), r) \/ Due(t, r)
    BY <1>1, <1>2, <2>1 DEF Due
  <2>2. ASSUME Affects(Head(s), r) PROVE Due(s, r)
    <3>1. 1 \in 1..Len(s)
      BY <1>1
    <3> QED
      BY <1>1, <2>2, <3>1 DEF Due
  <2>3. ASSUME Due(t, r) PROVE Due(s, r)
    BY <1>3, <2>3 DEF Due
  <2> QED
    BY <2>1, <2>2, <2>3
<1>5. ASSUME NEW S, Sets(s, r, S) PROVE Sets(t, r, S)
  <2> SUFFICES ASSUME NEW n \in 1..Len(t), Affects(t[n], r),
                      \A m \in (n + 1)..Len(t) : ~ Affects(t[m], r)
               PROVE  t[n].tokens \subseteq S
    BY DEF Sets
  <2>1. ASSUME NEW m \in (n + 1 + 1)..Len(s) PROVE ~ Affects(s[m], r)
    <3>1. m \in 1..Len(s) /\ m # 1 /\ m - 1 \in (n + 1)..Len(t)
      BY <1>1
    <3> QED
      BY <1>2, <3>1
  <2> QED
    BY <1>3, <1>5, <2>1 DEF Sets
<1>6. ASSUME NEW S, Sets(s, r, S), Affects(Head(s), r), ~ Due(t, r)
      PROVE  Head(s).tokens \subseteq S
  <2>1. 1 \in 1..Len(s)
    BY <1>1
  <2>2. ASSUME NEW m \in (1 + 1)..Len(s) PROVE ~ Affects(s[m], r)
    <3>1. m \in 1..Len(s) /\ m # 1
      BY <1>1
    <3> QED
      BY <1>2, <1>6, <3>1 DEF Due
  <2> QED
    BY <1>1, <1>6, <2>1, <2>2 DEF Sets
<1> QED
  BY <1>4, <1>5, <1>6 DEF t

LEMMA OneReport ==
    ASSUME NEW x, NEW r
    PROVE  /\ Due(<<x>>, r) <=> Affects(x, r)
           /\ \A S : x.tokens \subseteq S => Sets(<<x>>, r, S)
<1>1. Len(<<x>>) = 1 /\ <<x>>[1] = x
  OBVIOUS
<1> QED
  BY <1>1 DEF Due, Sets

LEMMA TwoReports ==
    ASSUME NEW x, NEW y, NEW r
    PROVE  /\ IsSeq(<<x, y>>)
           /\ Due(<<x, y>>, r) <=> Affects(x, r) \/ Affects(y, r)
           /\ \A S : (IF Affects(y, r) THEN y.tokens \subseteq S ELSE x.tokens \subseteq S)
                        => Sets(<<x, y>>, r, S)
<1>1. /\ Len(<<x, y>>) = 2 /\ <<x, y>>[1] = x /\ <<x, y>>[2] = y
      /\ <<x, y>> \in Seq({x, y})
  OBVIOUS
<1>2. IsSeq(<<x, y>>)
  BY <1>1 DEF IsSeq
<1>3. \A n \in 1..2 : n = 1 \/ n = 2
  OBVIOUS
<1>4. 1 \in 1..2 /\ 2 \in 1..2 /\ 2 \in (1 + 1)..2
  OBVIOUS
<1>5. Due(<<x, y>>, r) <=> Affects(x, r) \/ Affects(y, r)
  BY <1>1, <1>3, <1>4 DEF Due
<1>6. ASSUME NEW S, IF Affects(y, r) THEN y.tokens \subseteq S ELSE x.tokens \subseteq S
      PROVE  Sets(<<x, y>>, r, S)
  BY <1>1, <1>3, <1>4, <1>6 DEF Sets
<1> QED
  BY <1>2, <1>5, <1>6

(***************************************************************************)
(* Steps of a page.                                                        *)
(***************************************************************************)
\* The page sends what it has to send if it is connected.
SentIfOpen(p, messages) ==
    \/ link[p] = "open" /\ Send(p, messages)
    \/ UNCHANGED hubVars /\ (link[p] = "open" => messages = <<>>)

LEMMA PageStep ==
    ASSUME DInv, NEW p \in Conns, NEW messages, IsSeq(messages), SentIfOpen(p, messages),
           UNCHANGED device, UNCHANGED cut,
           \A q \in Conns \ {p} : /\ page'[q] = page[q] /\ down'[q] = down[q]
                                  /\ clicked'[q] = clicked[q] /\ slipped'[q] = slipped[q],
           \A n \in 1..Len(messages) : messages[n].tokens \subseteq Token,
           \A r \in Reports : IF Due(messages, r) THEN Sets(messages, r, Accounted(p, r)')
                              ELSE Accounted(p, r) \subseteq Accounted(p, r)'
    PROVE  DInv'
<1>1. /\ HubOK' /\ UNCHANGED link
      /\ \A q \in Conns \ {p} : outbox'[q] = outbox[q]
      /\ outbox'[p] = IF link[p] = "open" THEN outbox[p] \o messages ELSE outbox[p]
  <2>1. CASE link[p] = "open" /\ Send(p, messages)
    BY <2>1, SendHub DEF DInv, OthersSame
  <2>2. CASE UNCHANGED hubVars /\ (link[p] = "open" => messages = <<>>)
    <3>1. outbox[p] \o <<>> = outbox[p]
      <4>1. PICK S : outbox[p] \in Seq(S)
        BY DEF DInv, HubOK, StreamsIn, IsSeq
      <4> QED
        BY <4>1, ConcatEmptySeq
    <3> QED
      BY <2>2, <3>1, SameHub DEF DInv, hubVars
  <2> QED
    BY <2>1, <2>2 DEF SentIfOpen
<1>2. IsSeq(outbox[p])
  BY DEF DInv, HubOK, StreamsIn
<1>3. \A q \in Conns \ {p} : \A r : Accounted(q, r)' = Accounted(q, r)
  BY DEF Accounted, Pressed
<1>4. Messages'
  <2>1. ASSUME link[p] = "open", NEW n \in 1..Len(outbox'[p])
        PROVE  outbox'[p][n].tokens \subseteq Token
    <3> DEFINE all == outbox[p] \o messages
    <3>1. outbox'[p] = all
      BY <1>1, <2>1
    <3>2. Len(outbox[p]) \in Nat /\ Len(messages) \in Nat
      BY <1>2, SeqFacts
    <3>3. /\ Len(all) = Len(outbox[p]) + Len(messages)
          /\ \A m \in 1..Len(outbox[p]) : all[m] = outbox[p][m]
          /\ \A m \in 1..Len(messages) : all[Len(outbox[p]) + m] = messages[m]
      BY <1>2, ConcatStream
    <3> HIDE DEF all
    <3>4. /\ Len(outbox'[p]) = Len(outbox[p]) + Len(messages)
          /\ Len(outbox[p]) \in Nat /\ Len(messages) \in Nat
          /\ \A m \in 1..Len(outbox[p]) : outbox'[p][m] = outbox[p][m]
          /\ \A m \in 1..Len(messages) : outbox'[p][Len(outbox[p]) + m] = messages[m]
      BY <3>1, <3>2, <3>3
    <3>5. n \in 1..Len(outbox[p]) \/ \E m \in 1..Len(messages) : n = Len(outbox[p]) + m
      <4>1. n \notin 1..Len(outbox[p]) =>
                n - Len(outbox[p]) \in 1..Len(messages)
                /\ n = Len(outbox[p]) + (n - Len(outbox[p]))
        BY <3>4
      <4> QED
        BY <4>1
    <3> QED
      BY <3>4, <3>5 DEF DInv, Messages
  <2> QED
    BY <1>1, <2>1 DEF DInv, Messages
<1>5. SentOK'
  <2>1. ASSUME link[p] = "open", NEW r \in Reports
        PROVE  Sets(outbox'[p], r, Accounted(p, r)')
    <3>1. CASE Due(messages, r)
      BY <1>1, <1>2, <2>1, <3>1, SentReports
    <3>2. CASE ~ Due(messages, r)
      <4>1. Sets(outbox[p], r, Accounted(p, r)) /\ Accounted(p, r) \subseteq Accounted(p, r)'
        BY <2>1, <3>2 DEF DInv, SentOK
      <4>2. Sets(outbox[p], r, Accounted(p, r)')
        BY <4>1 DEF Sets
      <4> QED
        BY <1>1, <1>2, <2>1, <3>2, <4>2, SentReports
    <3> QED
      BY <3>1, <3>2
  <2>2. ASSUME NEW q \in Conns, link'[q] = "open", NEW r \in Reports, NEW S,
               S = Accounted(q, r)'
        PROVE  Sets(outbox'[q], r, S)
    <3>1. CASE q = p
      BY <1>1, <2>1, <2>2, <3>1
    <3>2. CASE q # p
      BY <1>1, <1>3, <2>2, <3>2 DEF DInv, SentOK
    <3> QED
      BY <3>1, <3>2
  <2> QED
    BY <2>2 DEF SentOK
<1>6. DeviceOK'
  <2> SUFFICES ASSUME cut = {}, ~ OutOfStep, NEW r \in Reports, NEW t \in device[r]
               PROVE  \E q \in Conns : \/ Due(outbox'[q], r)
                                       \/ link'[q] = "open" /\ t \in Accounted(q, r)'
    BY DEF DeviceOK, OutOfStep, OnDevice
  <2>1. PICK q \in Conns : Due(outbox[q], r) \/ (link[q] = "open" /\ t \in Accounted(q, r))
    BY DEF DInv, DeviceOK
  <2>2. CASE q # p
    BY <1>1, <1>3, <2>1, <2>2
  <2>3. CASE q = p /\ link[p] = "open"
    <3>1. Due(outbox'[p], r) <=> Due(outbox[p], r) \/ Due(messages, r)
      BY <1>1, <1>2, <2>3, SentReports
    <3>2. ~ Due(messages, r) => Accounted(p, r) \subseteq Accounted(p, r)'
      OBVIOUS
    <3> QED
      BY <1>1, <2>1, <2>3, <3>1, <3>2
  <2>4. CASE q = p /\ link[p] # "open"
    BY <1>1, <2>1, <2>4
  <2> QED
    BY <2>2, <2>3, <2>4
<1>7. CutOK'
  BY <1>1 DEF DInv, CutOK
<1> QED
  BY <1>1, <1>4, <1>5, <1>6, <1>7 DEF DInv

\* What a step that makes of the page pg leaves of what it accounts for.
LEMMA BecomeParts ==
    ASSUME IInv, NEW p \in Conns, NEW pg, NEW missed, NEW keys, NEW c,
           Become(p, pg, missed),
           down' = [down EXCEPT ![p] = keys],
           clicked' = [clicked EXCEPT ![p] = c]
    PROVE  /\ UNCHANGED device /\ UNCHANGED cut
           /\ \A q \in Conns \ {p} : /\ page'[q] = page[q] /\ down'[q] = down[q]
                                     /\ clicked'[q] = clicked[q] /\ slipped'[q] = slipped[q]
           /\ page'[p] = pg
           /\ Pressed(p)' = Held(keys) \cup Tokens(c) \cup
                  ((slipped[p] \cup missed) \cap
                      (Entered(pg) \cup IF pg.bt_pressed THEN AllTokens ELSE {}))
<1>1. /\ page \in [Conns -> Page] /\ down \in [Conns -> KeysDown]
      /\ clicked \in [Conns -> Buttons \cup {NoButton}]
      /\ slipped \in [Conns -> SUBSET Token]
  BY DEF IInv, Pages, Hands
<1>2. page'[p] = pg /\ down'[p] = keys /\ clicked'[p] = c
  BY <1>1 DEF Become
<1>3. slipped'[p] = (slipped[p] \cup missed) \cap
                        (Entered(pg) \cup IF pg.bt_pressed THEN AllTokens ELSE {})
  BY <1>1 DEF Become
<1>4. \A q \in Conns \ {p} : /\ page'[q] = page[q] /\ down'[q] = down[q]
                             /\ clicked'[q] = clicked[q] /\ slipped'[q] = slipped[q]
  BY <1>1 DEF Become
<1> QED
  BY <1>2, <1>3, <1>4 DEF Become, Pressed

LEMMA StillAccounted ==
    ASSUME IInv, NEW p \in Conns, NEW pg, NEW missed, NEW keys, NEW c,
           Become(p, pg, missed),
           down' = [down EXCEPT ![p] = keys],
           clicked' = [clicked EXCEPT ![p] = c],
           NEW r, Kept(page[p], r) \subseteq Kept(pg, r),
           page[p].bt_pressed =>
               /\ pg.bt_pressed
               /\ (Held(down[p]) \cup Tokens(clicked[p])) \cap Fit(r) \subseteq
                      Held(keys) \cup Tokens(c) \cup missed
    PROVE  Accounted(p, r) \subseteq Accounted(p, r)'
<1>1. /\ page'[p] = pg
      /\ Pressed(p)' = Held(keys) \cup Tokens(c) \cup
             ((slipped[p] \cup missed) \cap
                 (Entered(pg) \cup IF pg.bt_pressed THEN AllTokens ELSE {}))
  BY BecomeParts
<1>2. Accounted(p, r)' = Kept(pg, r) \cup
                   (IF pg.bt_pressed THEN AllTokens \cap Pressed(p)' \cap Fit(r) ELSE {})
  BY <1>1 DEF Accounted, Kept, AllTokens, Fit
<1>3. ASSUME page[p].bt_pressed PROVE AllTokens \cap Pressed(p) \cap Fit(r) \subseteq Pressed(p)'
  BY <1>1, <1>3 DEF Pressed
<1> QED
  BY <1>2, <1>3 DEF Accounted

\* The page sends nothing.
LEMMA BecomeDevice ==
    ASSUME IInv, DInv, NEW p \in Conns, NEW pg, NEW missed, NEW keys, NEW c,
           Become(p, pg, missed), UNCHANGED hubVars,
           down' = [down EXCEPT ![p] = keys],
           clicked' = [clicked EXCEPT ![p] = c],
           \A r \in Reports : Kept(page[p], r) \subseteq Kept(pg, r),
           page[p].bt_pressed =>
               /\ pg.bt_pressed
               /\ Held(down[p]) \cup Tokens(clicked[p]) \subseteq
                      Held(keys) \cup Tokens(c) \cup missed
    PROVE  DInv'
<1>1. /\ UNCHANGED device /\ UNCHANGED cut
      /\ \A q \in Conns \ {p} : /\ page'[q] = page[q] /\ down'[q] = down[q]
                                /\ clicked'[q] = clicked[q] /\ slipped'[q] = slipped[q]
  BY BecomeParts
<1>2. IsSeq(<<>>) /\ Len(<<>>) = 0
  BY EmptyStream
<1>3. \A r : ~ Due(<<>>, r)
  BY <1>2 DEF Due
<1>4. \A r \in Reports : Accounted(p, r) \subseteq Accounted(p, r)'
  BY StillAccounted
<1>5. SentIfOpen(p, <<>>)
  BY DEF SentIfOpen
<1>6. \A n \in 1..Len(<<>>) : <<>>[n].tokens \subseteq Token
  BY <1>2
<1> QED
  BY <1>1, <1>2, <1>3, <1>4, <1>5, <1>6, PageStep

LEMMA ClearPressesDevice ==
    ASSUME IInv, DInv, NEW p \in Conns, NEW pg \in Page, NEW missed, NEW keys, NEW c,
           ClearPresses(p, pg, missed),
           down' = [down EXCEPT ![p] = keys],
           clicked' = [clicked EXCEPT ![p] = c],
           pg.bt_keys = page[p].bt_keys, pg.bt_mods = page[p].bt_mods,
           pg.bt_mouse = page[p].bt_mouse, pg.bt_pressed = page[p].bt_pressed
    PROVE  DInv'
<1>1. PICK ready \in Ready(p) : Become(p, clear_presses(pg, ready), missed)
  BY DEF ClearPresses
<1> DEFINE new == clear_presses(pg, ready)
           messages == IF pg.bt_pressed THEN <<clear_bt>> ELSE <<>>
<1>2. /\ new.bt_keys = pg.bt_keys /\ new.bt_mods = pg.bt_mods
      /\ new.bt_mouse = pg.bt_mouse
  BY DEF clear_presses, Page
<1> HIDE DEF new
<1>3. \A r : Kept(page[p], r) = Kept(new, r)
  BY <1>2 DEF Kept, KeyboardOf
<1>4. Become(p, new, missed)
  BY <1>1 DEF new
<1>5. /\ UNCHANGED device /\ UNCHANGED cut
      /\ \A q \in Conns \ {p} : /\ page'[q] = page[q] /\ down'[q] = down[q]
                                /\ clicked'[q] = clicked[q] /\ slipped'[q] = slipped[q]
  BY <1>4, BecomeParts
<1>6. SentIfOpen(p, messages)
  BY DEF ClearPresses, SendIfOpen, SentIfOpen
<1>7. CASE ~ pg.bt_pressed
  <2>1. messages = <<>> /\ IsSeq(<<>>) /\ Len(<<>>) = 0
    BY <1>7, EmptyStream
  <2>2. \A r : ~ Due(<<>>, r)
    BY <2>1 DEF Due
  <2>3. \A r \in Reports : Accounted(p, r) \subseteq Accounted(p, r)'
    BY <1>3, <1>4, <1>7, StillAccounted
  <2> HIDE DEF messages
  <2>4. \A n \in 1..Len(messages) : messages[n].tokens \subseteq Token
    BY <2>1
  <2> QED
    BY <1>5, <1>6, <2>1, <2>2, <2>3, <2>4, PageStep
<1>8. CASE pg.bt_pressed
  <2>1. messages = <<clear_bt>> /\ IsSeq(messages)
    BY <1>8, OneStream
  <2>2. clear_bt.tokens = {} /\ clear_bt.report = "all"
    BY DEF clear_bt, Report
  <2> HIDE DEF messages
  <2>3. \A r : Due(messages, r) /\ \A S : Sets(messages, r, S)
    BY <2>1, <2>2, OneReport DEF Affects
  <2>4. \A n \in 1..Len(messages) : messages[n].tokens \subseteq Token
    <3>1. Len(messages) = 1 /\ messages[1] = clear_bt
      BY <2>1
    <3> QED
      BY <2>2, <3>1
  <2> QED
    BY <1>5, <1>6, <2>1, <2>3, <2>4, PageStep
<1> QED
  BY <1>7, <1>8

LEMMA PressButtonDevice ==
    ASSUME IInv, DInv, NEW p \in Conns, NEW b \in Buttons, NEW repeat, NEW missed,
           NEW keys, NEW c,
           PressButton(p, b, repeat, missed),
           down' = [down EXCEPT ![p] = keys],
           clicked' = [clicked EXCEPT ![p] = c],
           Held(down[p]) \cup Tokens(clicked[p]) \subseteq Held(keys) \cup Tokens(c) \cup missed,
           Bluetooth(b) => Tokens(b) \subseteq Held(keys) \cup Tokens(c)
    PROVE  DInv'
<1> DEFINE new == [page[p] EXCEPT
                      !.bt_pressed = page[p].bt_pressed \/ Bluetooth(b),
                      !.intervals  = page[p].intervals \/ (repeat /\ ~ Bluetooth(b))]
<1>1. Become(p, new, missed) /\ SendIfOpen(p, send_code(b))
  BY DEF PressButton
<1>2. page[p] \in Page
  BY OnePage
<1>3. /\ new.bt_pressed = (page[p].bt_pressed \/ Bluetooth(b))
      /\ new.bt_keys = page[p].bt_keys /\ new.bt_mods = page[p].bt_mods
      /\ new.bt_mouse = page[p].bt_mouse
  BY <1>2 DEF Page
<1> HIDE DEF new
<1>4. \A r : Kept(page[p], r) = Kept(new, r)
  BY <1>3 DEF Kept, KeyboardOf
<1>5. /\ UNCHANGED device /\ UNCHANGED cut
      /\ \A q \in Conns \ {p} : /\ page'[q] = page[q] /\ down'[q] = down[q]
                                /\ clicked'[q] = clicked[q] /\ slipped'[q] = slipped[q]
      /\ page'[p] = new
      /\ Pressed(p)' = Held(keys) \cup Tokens(c) \cup
             ((slipped[p] \cup missed) \cap
                 (Entered(new) \cup IF new.bt_pressed THEN AllTokens ELSE {}))
  BY <1>1, BecomeParts
<1>6. PICK x : /\ send_code(b) = <<x>> /\ x.tokens \subseteq Tokens(b)
               /\ x.report # "all"
               /\ \A r \in Reports : x.report = r => Bluetooth(b)
  BY CodeKinds DEF send_code, Report, Bluetooth, Reports
<1>7. SentIfOpen(p, <<x>>)
  BY <1>1, <1>6 DEF SendIfOpen, SentIfOpen
<1>8. \A r \in Reports : Accounted(p, r) \subseteq Accounted(p, r)'
  BY <1>1, <1>3, <1>4, StillAccounted
<1>9. ASSUME NEW r \in Reports, Affects(x, r) PROVE x.tokens \subseteq Accounted(p, r)'
  <2>1. Bluetooth(b)
    BY <1>6, <1>9 DEF Affects
  <2>2. Tokens(b) \subseteq AllTokens /\ Tokens(b) \subseteq Pressed(p)'
    BY <1>5, <2>1 DEF AllTokens
  <2>3. Accounted(p, r)' = Kept(new, r) \cup (AllTokens \cap Pressed(p)' \cap Fit(r))
    BY <1>3, <1>5, <2>1 DEF Accounted, Kept, AllTokens, Fit
  <2>4. x.tokens \subseteq Fit(r)
    <3>1. r = "consumer" => Tokens(b) \subseteq ConsumerCodes
      BY <1>6, <1>9, CodeKinds, ButtonsAssumption DEF Tokens, send_code, Report, Affects
    <3>2. Tokens(b) \subseteq Token
      BY ButtonTokens
    <3> QED
      BY <1>6, <3>1, <3>2 DEF Fit
  <2> QED
    BY <1>6, <2>2, <2>3, <2>4
<1>10. \A r \in Reports : IF Due(<<x>>, r) THEN Sets(<<x>>, r, Accounted(p, r)')
                          ELSE Accounted(p, r) \subseteq Accounted(p, r)'
  BY <1>8, <1>9, OneReport
<1>11. \A n \in 1..Len(<<x>>) : <<x>>[n].tokens \subseteq Token
  <2>1. Len(<<x>>) = 1 /\ <<x>>[1] = x
    OBVIOUS
  <2> QED
    BY <1>6, <2>1, ButtonTokens
<1> QED
  BY <1>5, <1>7, <1>10, <1>11, OneStream, PageStep

\* The page sends its report of keyboard and mouse.
LEMMA ReportsDevice ==
    ASSUME IInv, DInv, NEW p \in Conns, NEW pg \in Page, NEW missed, NEW keys, NEW c,
           Become(p, pg, missed), SendIfOpen(p, press_buttons(pg)),
           down' = [down EXCEPT ![p] = keys],
           clicked' = [clicked EXCEPT ![p] = c],
           pg.bt_pressed = page[p].bt_pressed,
           (Held(down[p]) \cup Tokens(clicked[p])) \cap ConsumerCodes \subseteq
               Held(keys) \cup Tokens(c) \cup missed
    PROVE  DInv'
<1> DEFINE x == Report("keyboard", KeyboardOf(pg))
           y == Report("mouse", Moved(pg.bt_mouse))
<1>1. /\ UNCHANGED device /\ UNCHANGED cut
      /\ \A q \in Conns \ {p} : /\ page'[q] = page[q] /\ down'[q] = down[q]
                                /\ clicked'[q] = clicked[q] /\ slipped'[q] = slipped[q]
      /\ page'[p] = pg
  BY BecomeParts
<1>2. SentIfOpen(p, <<x, y>>)
  BY DEF SendIfOpen, SentIfOpen, press_buttons
<1>3. /\ x.report = "keyboard" /\ x.tokens = KeyboardOf(pg)
      /\ y.report = "mouse" /\ y.tokens = Moved(pg.bt_mouse)
  BY DEF Report
<1> HIDE DEF x, y
<1>4. ASSUME NEW r \in Reports
      PROVE  IF Due(<<x, y>>, r) THEN Sets(<<x, y>>, r, Accounted(p, r)')
             ELSE Accounted(p, r) \subseteq Accounted(p, r)'
  <2>1. Kept(pg, r) \subseteq Accounted(p, r)'
    BY <1>1 DEF Accounted, Kept
  <2>2. CASE r \in {"keyboard", "mouse"}
    <3>1. IF Affects(y, r) THEN y.tokens = Kept(pg, r) ELSE x.tokens = Kept(pg, r)
      BY <1>3, <2>2 DEF Kept, Affects
    <3>2. Affects(x, r) \/ Affects(y, r)
      BY <1>3, <2>2 DEF Affects
    <3> QED
      BY <2>1, <3>1, <3>2, TwoReports
  <2>3. CASE r = "consumer"
    <3>1. ~ Affects(x, r) /\ ~ Affects(y, r)
      BY <1>3, <2>3 DEF Affects
    <3>2. Kept(page[p], r) \subseteq Kept(pg, r)
      BY <2>3 DEF Kept
    <3>3. Accounted(p, r) \subseteq Accounted(p, r)'
      BY <2>3, <3>2, StillAccounted DEF Fit
    <3> QED
      BY <3>1, <3>3, TwoReports
  <2> QED
    BY <2>2, <2>3 DEF Reports
<1>5. KeyboardOf(pg) \subseteq Token /\ Moved(pg.bt_mouse) \subseteq Token
  <2>1. /\ pg.bt_keys \in [1..KeyPlaces -> KeyCodes \cup {Vacant}]
        /\ pg.bt_mods \in [1..ModPlaces -> ModCodes \cup {TextModifier, Vacant}]
        /\ pg.bt_mouse \in [Axes -> Nat]
    BY DEF Page
  <2>2. /\ Range(pg.bt_keys) \subseteq KeyCodes \cup {Vacant}
        /\ Range(pg.bt_mods) \subseteq ModCodes \cup {TextModifier, Vacant}
    BY <2>1 DEF Range
  <2>3. Moved(pg.bt_mouse) \subseteq Axes \X Nat
    BY <2>1, MovedTokens
  <2> QED
    BY <2>2, <2>3 DEF KeyboardOf, Token
<1>6. \A n \in 1..Len(<<x, y>>) : <<x, y>>[n].tokens \subseteq Token
  <2>1. Len(<<x, y>>) = 2 /\ <<x, y>>[1] = x /\ <<x, y>>[2] = y
    OBVIOUS
  <2>2. \A n \in 1..2 : n = 1 \/ n = 2
    OBVIOUS
  <2> QED
    BY <1>3, <1>5, <2>1, <2>2
<1> QED
  BY <1>1, <1>2, <1>4, <1>6, TwoReports, PageStep

LEMMA SameDevice ==
    ASSUME DInv, UNCHANGED hubVars,
           UNCHANGED page, UNCHANGED down, UNCHANGED clicked, UNCHANGED slipped,
           UNCHANGED device, UNCHANGED cut
    PROVE  DInv'
<1>1. HubOK' /\ UNCHANGED link /\ UNCHANGED outbox
  BY SameHub DEF DInv, hubVars
<1>2. \A p, r : Accounted(p, r)' = Accounted(p, r)
  BY DEF Accounted, Pressed
<1> QED
  BY <1>1, <1>2 DEF OutOfStep, OnDevice, DInv, Messages, SentOK, DeviceOK, CutOK

LEMMA PressedKeeps ==
    ASSUME NEW pg \in Page, NEW b \in Buttons
    PROVE  /\ pressed(pg, b).bt_pressed = pg.bt_pressed
           /\ released(pg, b).bt_pressed = pg.bt_pressed
BY DEF pressed, released, Page

LEMMA NoConsumer ==
    ASSUME NEW b \in Buttons, Reported(b)
    PROVE  KeyTokens(b) \cap ConsumerCodes = {}
<1>1. b # NoButton /\ Code[b].kind \in {"key", "mod", "mouse", "learnt"}
  BY ButtonsAssumption DEF Reported
<1>2. Code[b].kind = "mouse" => Moved(Code[b].move) \subseteq Axes \X Nat
  BY CodeKinds, MovedTokens
<1>3. \A c \in KeyTokens(b) : c[1] \in {"usage", "modifier", "text"} \cup Axes
  BY <1>1, <1>2, CodeKinds, TokenKinds DEF KeyTokens, Tokens
<1> QED
  BY <1>3, TokenKinds DEF Axes

LEMMA KeyDownDevice ==
    ASSUME IInv, DInv, NEW p \in Conns, NEW k \in Keys, KeyDown(p, k)
    PROVE  DInv'
<1> DEFINE b == ButtonOf(page[p], k)
           keysWith(tokens) ==
               [j \in DOMAIN down[p] \cup {k} |-> IF j = k THEN tokens ELSE down[p][j]]
<1>1. /\ page[p] \in Page /\ Once(page[p].bt_keys) /\ Once(page[p].bt_mods)
      /\ down[p] \in KeysDown
      /\ clicked = [clicked EXCEPT ![p] = clicked[p]]
  BY OnePage
<1>2. Was(p, k) \in SUBSET Token
  BY <1>1 DEF Was, KeysDown
<1>3. \A tokens \in SUBSET Token :
          /\ keysWith(tokens) \in KeysDown
          /\ tokens \subseteq Held(keysWith(tokens))
          /\ Held(down[p]) \subseteq Held(keysWith(tokens)) \cup Was(p, k)
  BY <1>1, OneMoreDown DEF Was
<1>4. \A tokens : Down(p, k, tokens) => down' = [down EXCEPT ![p] = keysWith(tokens)]
  BY DEF Down
<1>5. b \in Buttons \cup {NoButton}
  BY <1>1 DEF ButtonOf, Page, KeyMaps
<1> HIDE DEF keysWith, b
<1>6. CASE page[p].edit_mode \/ b = NoButton
  <2> DEFINE new == keysWith(Was(p, k))
  <2>1. /\ down' = [down EXCEPT ![p] = new] /\ UNCHANGED hubVars
        /\ UNCHANGED page /\ UNCHANGED clicked /\ UNCHANGED slipped
        /\ UNCHANGED device /\ UNCHANGED cut
    BY <1>4, <1>6 DEF KeyDown, b
  <2>2. Held(down[p]) \subseteq Held(new)
    BY <1>2, <1>3
  <2> HIDE DEF new
  <2>3. /\ down'[p] = new
        /\ \A q \in Conns \ {p} : /\ page'[q] = page[q] /\ down'[q] = down[q]
                                  /\ clicked'[q] = clicked[q] /\ slipped'[q] = slipped[q]
    BY <2>1 DEF IInv, Hands
  <2>4. \A r : Accounted(p, r) \subseteq Accounted(p, r)'
    BY <2>1, <2>2, <2>3 DEF Accounted, Pressed
  <2>5. IsSeq(<<>>) /\ Len(<<>>) = 0 /\ SentIfOpen(p, <<>>)
    BY <2>1, EmptyStream DEF SentIfOpen
  <2>6. (\A r : ~ Due(<<>>, r)) /\ \A n \in 1..Len(<<>>) : <<>>[n].tokens \subseteq Token
    BY <2>5 DEF Due
  <2> QED
    BY <2>1, <2>3, <2>4, <2>5, <2>6, PageStep
<1>7. CASE ~ (page[p].edit_mode \/ b = NoButton)
  <2> DEFINE new    == keysWith(KeyTokens(b))
             missed == Was(p, k) \ KeyTokens(b)
  <2>1. b \in Buttons /\ KeyTokens(b) \in SUBSET Token
    BY <1>5, <1>7, ButtonTokens
  <2>2. /\ down' = [down EXCEPT ![p] = new]
        /\ clicked' = [clicked EXCEPT ![p] = clicked[p]]
        /\ IF Reported(b) THEN /\ Become(p, pressed(page[p], b), missed)
                               /\ SendIfOpen(p, press_buttons(pressed(page[p], b)))
                          ELSE PressButton(p, b, FALSE, missed)
    BY <1>1, <1>4, <1>7 DEF KeyDown, b
  <2>3. KeyTokens(b) \subseteq Held(new) /\ Held(down[p]) \subseteq Held(new) \cup missed
    BY <1>3, <2>1
  <2> HIDE DEF new, missed
  <2>4. CASE Reported(b)
    <3>1. pressed(page[p], b) \in Page
      BY <1>1, <2>1, <2>4, PressedPage
    <3>2. pressed(page[p], b).bt_pressed = page[p].bt_pressed
      BY <1>1, <2>1, PressedKeeps
    <3> QED
      BY <2>2, <2>3, <2>4, <3>1, <3>2, ReportsDevice
  <2>5. CASE ~ Reported(b)
    <3>1. Bluetooth(b) => KeyTokens(b) = Tokens(b)
      BY DEF Bluetooth, KeyTokens, Tokens
    <3> QED
      BY <2>1, <2>2, <2>3, <2>5, <3>1, PressButtonDevice
  <2> QED
    BY <2>4, <2>5
<1> QED
  BY <1>6, <1>7

LEMMA KeyUpDevice ==
    ASSUME IInv, DInv, NEW p \in Conns, NEW k \in Keys, KeyUp(p, k) \/ KeyUpElsewhere(p, k)
    PROVE  DInv'
<1> DEFINE b    == ButtonOf(page[p], k)
           keys == Restrict(down[p], DOMAIN down[p] \ {k})
           was  == down[p][k]
<1>1. /\ page[p] \in Page /\ Once(page[p].bt_keys) /\ Once(page[p].bt_mods)
      /\ down[p] \in KeysDown
      /\ clicked = [clicked EXCEPT ![p] = clicked[p]]
  BY OnePage
<1>2. k \in DOMAIN down[p] /\ down' = [down EXCEPT ![p] = keys]
      /\ clicked' = [clicked EXCEPT ![p] = clicked[p]]
  BY <1>1 DEF KeyUp, KeyUpElsewhere, Up
<1>3. Held(down[p]) \subseteq Held(keys) \cup was
  BY <1>1, <1>2, OneLessDown
<1>4. b \in Buttons \cup {NoButton}
  BY <1>1 DEF ButtonOf, Page, KeyMaps
<1>5. \/ Become(p, page[p], was) /\ UNCHANGED hubVars
      \/ /\ b # NoButton /\ Reported(b)
         /\ Become(p, released(page[p], b), was \ KeyTokens(b))
         /\ SendIfOpen(p, press_buttons(released(page[p], b)))
      \/ b # NoButton /\ ~ Reported(b) /\ ClearPresses(p, page[p], was \ KeyTokens(b))
  BY DEF KeyUp, KeyUpElsewhere
<1> HIDE DEF b, keys, was
<1>6. CASE Become(p, page[p], was) /\ UNCHANGED hubVars
  BY <1>2, <1>3, <1>6, BecomeDevice
<1>7. CASE /\ b # NoButton /\ Reported(b)
           /\ Become(p, released(page[p], b), was \ KeyTokens(b))
           /\ SendIfOpen(p, press_buttons(released(page[p], b)))
  <2> DEFINE pg == released(page[p], b)
  <2>1. pg \in Page /\ pg.bt_pressed = page[p].bt_pressed
    BY <1>1, <1>4, <1>7, ReleasedPage, PressedKeeps
  <2>2. KeyTokens(b) \cap ConsumerCodes = {}
    BY <1>4, <1>7, NoConsumer
  <2> HIDE DEF pg
  <2>3. (Held(down[p]) \cup Tokens(clicked[p])) \cap ConsumerCodes \subseteq
            Held(keys) \cup Tokens(clicked[p]) \cup (was \ KeyTokens(b))
    BY <1>3, <2>2
  <2>4. Become(p, pg, was \ KeyTokens(b)) /\ SendIfOpen(p, press_buttons(pg))
    BY <1>7 DEF pg
  <2> QED
    BY <1>2, <2>1, <2>3, <2>4, ReportsDevice
<1>8. CASE b # NoButton /\ ~ Reported(b) /\ ClearPresses(p, page[p], was \ KeyTokens(b))
  BY <1>1, <1>2, <1>8, ClearPressesDevice
<1> QED
  BY <1>5, <1>6, <1>7, <1>8

LEMMA MouseDownDevice ==
    ASSUME IInv, DInv, NEW p \in Conns, NEW b \in Buttons, MouseDown(p, b)
    PROVE  DInv'
<1>1. PICK repeat \in BOOLEAN : PressButton(p, b, repeat, {})
  BY DEF MouseDown
<1>2. /\ clicked[p] = NoButton /\ clicked' = [clicked EXCEPT ![p] = b]
      /\ down' = [down EXCEPT ![p] = down[p]]
  BY OnePage DEF MouseDown
<1>3. Tokens(clicked[p]) = {}
  BY <1>2 DEF Tokens
<1> QED
  BY <1>1, <1>2, <1>3, PressButtonDevice

LEMMA MouseUpDevice ==
    ASSUME IInv, DInv, NEW p \in Conns, MouseUp(p) \/ MouseUpElsewhere(p)
    PROVE  DInv'
<1>1. page[p] \in Page /\ down = [down EXCEPT ![p] = down[p]]
  BY OnePage
<1>2. down' = [down EXCEPT ![p] = down[p]] /\ clicked' = [clicked EXCEPT ![p] = NoButton]
  BY <1>1 DEF MouseUp, MouseUpElsewhere
<1>3. CASE MouseUp(p)
  <2>1. ClearPresses(p, page[p], {})
    BY <1>3 DEF MouseUp
  <2> QED
    BY <1>1, <1>2, <2>1, ClearPressesDevice
<1>4. CASE MouseUpElsewhere(p)
  <2>1. Become(p, page[p], Tokens(clicked[p])) /\ UNCHANGED hubVars
    BY <1>4 DEF MouseUpElsewhere
  <2> QED
    BY <1>2, <2>1, BecomeDevice
<1> QED
  BY <1>3, <1>4

LEMMA BecomeSettings ==
    ASSUME IInv, DInv, NEW p \in Conns, NEW pg, NEW missed, missed = {},
           Become(p, pg, missed), UNCHANGED hubVars,
           UNCHANGED <<down, clicked>>,
           \A r \in Reports : Kept(page[p], r) \subseteq Kept(pg, r),
           page[p].bt_pressed => pg.bt_pressed
    PROVE  DInv'
<1>1. PICK keys, c : keys = down[p] /\ c = clicked[p]
  OBVIOUS
<1>2. /\ down' = [down EXCEPT ![p] = keys]
      /\ clicked' = [clicked EXCEPT ![p] = c]
  BY <1>1, OnePage
<1>3. page[p].bt_pressed =>
        /\ pg.bt_pressed
        /\ Held(down[p]) \cup Tokens(clicked[p]) \subseteq Held(keys) \cup Tokens(c) \cup missed
  BY <1>1
<1> QED
  BY <1>2, <1>3, BecomeDevice

LEMMA SettingsDevice ==
    ASSUME IInv, DInv, NEW p \in Conns, NEW pg \in Page,
           pg.bt_keys = page[p].bt_keys, pg.bt_mods = page[p].bt_mods,
           pg.bt_mouse = page[p].bt_mouse, pg.bt_pressed = page[p].bt_pressed,
           ClearPresses(p, pg, {}) \/ (Become(p, pg, {}) /\ UNCHANGED hubVars),
           UNCHANGED <<down, clicked>>
    PROVE  DInv'
<1>1. /\ down' = [down EXCEPT ![p] = down[p]]
      /\ clicked' = [clicked EXCEPT ![p] = clicked[p]]
  BY OnePage
<1>2. CASE ClearPresses(p, pg, {})
  BY <1>1, <1>2, ClearPressesDevice
<1>3. CASE Become(p, pg, {}) /\ UNCHANGED hubVars
  <2>1. \A r : Kept(page[p], r) = Kept(pg, r)
    BY DEF Kept, KeyboardOf
  <2>2. \A r \in Reports : Kept(page[p], r) \subseteq Kept(pg, r)
    BY <2>1
  <2> QED
    BY <1>3, <2>2, BecomeSettings
<1> QED
  BY <1>2, <1>3

LEMMA toggle_edit_modeDevice ==
    ASSUME IInv, DInv, NEW p \in Conns, toggle_edit_mode(p)
    PROVE  DInv'
<1> DEFINE pg == [page[p] EXCEPT !.edit_mode = ~ page[p].edit_mode]
<1>1. page[p] \in Page
  BY OnePage
<1>2. /\ pg \in Page /\ pg.bt_keys = page[p].bt_keys /\ pg.bt_mods = page[p].bt_mods
      /\ pg.bt_mouse = page[p].bt_mouse /\ pg.bt_pressed = page[p].bt_pressed
  BY <1>1 DEF Page
<1>3. /\ ClearPresses(p, pg, {}) \/ (Become(p, pg, {}) /\ UNCHANGED hubVars)
      /\ UNCHANGED <<down, clicked>>
  BY DEF toggle_edit_mode
<1> HIDE DEF pg
<1> QED
  BY <1>2, <1>3, SettingsDevice

LEMMA SwitchActivityDevice ==
    ASSUME IInv, DInv, NEW p \in Conns, NEW a \in Activities, SwitchActivity(p, a)
    PROVE  DInv'
<1> DEFINE pg == [page[p] EXCEPT !.activity = a]
<1>1. page[p] \in Page
  BY OnePage
<1>2. /\ pg \in Page /\ pg.bt_keys = page[p].bt_keys /\ pg.bt_mods = page[p].bt_mods
      /\ pg.bt_mouse = page[p].bt_mouse /\ pg.bt_pressed = page[p].bt_pressed
  BY <1>1 DEF Page
<1>3. Become(p, pg, {}) /\ UNCHANGED hubVars /\ UNCHANGED <<down, clicked>>
  BY DEF SwitchActivity, ChangeMaps
<1> HIDE DEF pg
<1> QED
  BY <1>2, <1>3, SettingsDevice

LEMMA MapDevice ==
    ASSUME IInv, DInv, NEW p \in Conns, NEW a \in Activities, NEW k \in Keys,
           NEW b \in Buttons \cup {NoButton},
           ChangeMaps(p, [page[p] EXCEPT !.key_maps[a][k] = b])
    PROVE  DInv'
<1> DEFINE maps == [page[p].key_maps EXCEPT ![a][k] = b]
           pg   == [page[p] EXCEPT !.key_maps = maps]
<1>1. page[p] \in Page /\ page[p].key_maps \in KeyMaps
  BY OnePage DEF Page
<1>2. maps \in KeyMaps
  BY <1>1 DEF KeyMaps
<1>3. Become(p, pg, {}) /\ UNCHANGED hubVars /\ UNCHANGED <<down, clicked>>
  BY DEF ChangeMaps
<1> HIDE DEF maps
<1>4. /\ pg \in Page /\ pg.bt_keys = page[p].bt_keys /\ pg.bt_mods = page[p].bt_mods
      /\ pg.bt_mouse = page[p].bt_mouse /\ pg.bt_pressed = page[p].bt_pressed
  BY <1>1, <1>2 DEF Page
<1> HIDE DEF pg
<1> QED
  BY <1>3, <1>4, SettingsDevice

\* A page that is reloaded was not connected, and accounted for nothing.
LEMMA ReloadDevice ==
    ASSUME IInv, DInv, NEW p \in Conns, Reload(p)
    PROVE  DInv'
<1>1. /\ link[p] = "closed" /\ UNCHANGED hubVars /\ UNCHANGED device /\ UNCHANGED cut
      /\ UNCHANGED link /\ UNCHANGED outbox
  BY DEF Reload, hubVars
<1>2. ASSUME NEW q \in Conns \ {p}
      PROVE  /\ page'[q] = page[q] /\ down'[q] = down[q] /\ clicked'[q] = clicked[q]
             /\ slipped'[q] = slipped[q]
  BY DEF Reload, IInv, Pages, Hands
<1>3. \A q \in Conns \ {p} : \A r : Accounted(q, r)' = Accounted(q, r)
  BY <1>2 DEF Accounted, Pressed
<1>4. HubOK'
  BY <1>1, SameHub DEF DInv
<1> QED
  BY <1>1, <1>3, <1>4 DEF OutOfStep, OnDevice, DInv, Messages, SentOK, DeviceOK, CutOK

LEMMA RepeatCodeDevice ==
    ASSUME IInv, DInv, NEW p \in Conns, RepeatCode(p)
    PROVE  DInv'
<1> DEFINE x == Report("ir", {})
<1>1. /\ SendIfOpen(p, <<x>>)
      /\ UNCHANGED page /\ UNCHANGED down /\ UNCHANGED clicked /\ UNCHANGED slipped
      /\ UNCHANGED device /\ UNCHANGED cut
  BY DEF RepeatCode
<1>2. x.tokens = {} /\ \A r \in Reports : ~ Affects(x, r)
  BY DEF Report, Affects, Reports
<1>3. SentIfOpen(p, <<x>>)
  BY <1>1 DEF SendIfOpen, SentIfOpen
<1> HIDE DEF x
<1>4. \A r : Accounted(p, r)' = Accounted(p, r)
  BY <1>1 DEF Accounted, Pressed
<1>5. \A r \in Reports : ~ Due(<<x>>, r)
  BY <1>2, OneReport
<1>6. \A n \in 1..Len(<<x>>) : <<x>>[n].tokens \subseteq Token
  <2>1. Len(<<x>>) = 1 /\ <<x>>[1] = x
    OBVIOUS
  <2> QED
    BY <1>2, <2>1
<1> QED
  BY <1>1, <1>3, <1>4, <1>5, <1>6, OneStream, PageStep

LEMMA ConnectionDevice ==
    ASSUME IInv, DInv, NEW p \in Conns, Connect(p) \/ NoticeClose(p)
    PROVE  DInv'
<1>1. /\ Open(p) \/ OnClose(p)
      /\ UNCHANGED page /\ UNCHANGED down /\ UNCHANGED clicked /\ UNCHANGED slipped
      /\ UNCHANGED device /\ UNCHANGED cut
  BY DEF Connect, NoticeClose
<1>2. \A q, r : Accounted(q, r)' = Accounted(q, r)
  BY <1>1 DEF Accounted, Pressed
<1>3. /\ HubOK' /\ OthersSame(p) /\ UNCHANGED outbox /\ outbox[p] = <<>>
      /\ link[p] # "open"
  BY <1>1, OpenHub, OnCloseHub DEF DInv
<1>4. \A q \in Conns \ {p} : link'[q] = link[q]
  BY <1>3 DEF OthersSame
<1>5. SentOK'
  <2>1. \A r, S : Sets(outbox'[p], r, S)
    BY <1>3, EmptyStream DEF Sets
  <2>2. ASSUME NEW q \in Conns, link'[q] = "open", NEW r \in Reports, NEW S,
               S = Accounted(q, r)'
        PROVE  Sets(outbox'[q], r, S)
    BY <1>2, <1>3, <1>4, <2>1, <2>2 DEF DInv, SentOK
  <2> QED
    BY <2>2 DEF SentOK
<1>6. DeviceOK'
  BY <1>1, <1>2, <1>3, <1>4 DEF OutOfStep, OnDevice, DInv, DeviceOK
<1>7. CutOK'
  BY <1>1, <1>3, <1>4 DEF DInv, CutOK
<1>8. Messages'
  BY <1>3 DEF DInv, Messages
<1> QED
  BY <1>1, <1>3, <1>5, <1>6, <1>7, <1>8 DEF DInv

\* A page that is cut off without being noted has nothing pressed, and sent nothing.
LEMMA DisconnectDevice ==
    ASSUME IInv, DInv, NEW p \in Conns, Disconnect(p)
    PROVE  DInv'
<1>1. /\ Lose(p)
      /\ cut' = IF Entered(page[p]) = {} /\ ~ page[p].bt_pressed /\ outbox[p] = <<>>
                THEN cut ELSE cut \cup {p}
      /\ UNCHANGED page /\ UNCHANGED down /\ UNCHANGED clicked /\ UNCHANGED slipped
      /\ UNCHANGED device
  BY DEF Disconnect
<1>2. \A q, r : Accounted(q, r)' = Accounted(q, r)
  BY <1>1 DEF Accounted, Pressed
<1>3. /\ HubOK' /\ OthersSame(p) /\ link'[p] = "lost"
      /\ \E n \in 0..Len(outbox[p]) : outbox'[p] = SubSeq(outbox[p], 1, n)
  BY <1>1, LoseHub DEF DInv
<1>4. PICK n \in 0..Len(outbox[p]) : outbox'[p] = SubSeq(outbox[p], 1, n)
  BY <1>3
<1>5. /\ IsSeq(outbox'[p]) /\ Len(outbox'[p]) = n
      /\ \A m \in 1..n : outbox'[p][m] = outbox[p][m]
      /\ IsSeq(outbox[p]) /\ Len(outbox[p]) \in Nat
  <2>1. IsSeq(outbox[p])
    BY DEF DInv, HubOK, StreamsIn
  <2> QED
    BY <1>4, <2>1, PrefixStream, SeqFacts
<1>6. \A q \in Conns \ {p} : link'[q] = link[q] /\ outbox'[q] = outbox[q]
  BY <1>3 DEF OthersSame
<1>7. Messages'
  BY <1>5, <1>6 DEF DInv, Messages
<1>8. SentOK'
  BY <1>2, <1>3, <1>6 DEF DInv, SentOK
<1>9. DeviceOK'
  <2> SUFFICES ASSUME cut' = {}, ~ OutOfStep, NEW r \in Reports, NEW t \in device[r]
               PROVE  \E q \in Conns : \/ Due(outbox'[q], r)
                                       \/ link'[q] = "open" /\ t \in Accounted(q, r)'
    BY <1>1 DEF DeviceOK, OutOfStep, OnDevice
  <2>1. cut = {} /\ Entered(page[p]) = {} /\ ~ page[p].bt_pressed /\ outbox[p] = <<>>
    BY <1>1
  <2>2. PICK q \in Conns : Due(outbox[q], r) \/ (link[q] = "open" /\ t \in Accounted(q, r))
    BY <2>1 DEF DInv, DeviceOK
  <2>3. Accounted(p, r) = {}
    BY <2>1 DEF Accounted, Kept, Entered
  <2>4. ~ Due(outbox[p], r)
    BY <2>1, EmptyStream DEF Due
  <2> QED
    BY <1>2, <1>6, <2>2, <2>3, <2>4
<1>10. CutOK'
  <2>1. p \in cut' \/ outbox'[p] = <<>>
    <3>1. outbox[p] = <<>> => outbox'[p] = <<>>
      <4>1. outbox[p] = <<>> => n = 0
        BY <1>5, EmptyStream
      <4> QED
        BY <1>5, <4>1, SeqFacts
    <3> QED
      BY <1>1, <3>1
  <2> QED
    BY <1>1, <1>6, <2>1 DEF DInv, CutOK
<1> QED
  BY <1>1, <1>3, <1>7, <1>8, <1>9, <1>10 DEF DInv

\* A module that is out of step stays so, and a text for a modifier brings it there.
LEMMA WrittenReport ==
    ASSUME device \in [Reports -> SUBSET (Token \cup {Unknown})],
           NEW m, m.tokens \subseteq Token
    PROVE  /\ write(m) \in [Reports -> SUBSET (Token \cup {Unknown})]
           /\ \/ \A r \in Reports : write(m)[r] = {Unknown}
              \/ /\ ~ OutOfStep
                 /\ \A r \in Reports :
                       /\ m.report = "all" => write(m)[r] = {}
                       /\ m.report = r => write(m)[r] = m.tokens
                       /\ ~ Affects(m, r) => write(m)[r] = device[r]
<1>1. CASE OutOfStep \/ TextModifier \in m.tokens
  BY <1>1 DEF write
<1>2. CASE ~ OutOfStep /\ TextModifier \notin m.tokens /\ m.report = "all"
  BY <1>2 DEF write, Affects, Reports
<1>3. CASE ~ OutOfStep /\ TextModifier \notin m.tokens /\ m.report # "all"
  <2>1. write(m) = IF m.report \in Reports THEN [device EXCEPT ![m.report] = m.tokens]
                   ELSE device
    BY <1>3 DEF write
  <2> QED
    BY <1>3, <2>1 DEF Affects
<1> QED
  BY <1>1, <1>2, <1>3

LEMMA HandleDevice ==
    ASSUME IInv, DInv, NEW p \in Conns, Handle(p)
    PROVE  DInv'
<1> DEFINE m == Head(outbox[p])
<1>1. /\ OnMessageDropped(p) /\ device' = write(m)
      /\ cut' = IF m.report = "all"
                THEN {q \in cut : link[q] = "lost" /\ outbox'[q] # <<>>} ELSE cut
      /\ UNCHANGED page /\ UNCHANGED down /\ UNCHANGED clicked /\ UNCHANGED slipped
  BY DEF Handle
<1>2. \A q, r : Accounted(q, r)' = Accounted(q, r)
  BY <1>1 DEF Accounted, Pressed
<1>3. /\ HubOK' /\ OthersSame(p) /\ UNCHANGED link /\ IsSeq(outbox[p])
      /\ outbox[p] # <<>> /\ outbox'[p] = Tail(outbox[p])
  BY <1>1, DroppedHub DEF DInv, HubOK, StreamsIn
<1>4. \A q \in Conns \ {p} : outbox'[q] = outbox[q]
  BY <1>3 DEF OthersSame
<1>5. /\ Len(outbox[p]) \in Nat /\ Len(outbox[p]) > 0 /\ m = outbox[p][1]
      /\ Len(outbox'[p]) = Len(outbox[p]) - 1
      /\ \A n \in 1..(Len(outbox[p]) - 1) : outbox'[p][n] = outbox[p][n + 1]
  BY <1>3, TailStream, SeqFacts
<1> HIDE DEF m
<1>6. m.tokens \subseteq Token
  BY <1>5 DEF DInv, Messages
<1>7. Messages'
  <2>1. ASSUME NEW n \in 1..Len(outbox'[p]) PROVE outbox'[p][n].tokens \subseteq Token
    <3>1. n \in 1..(Len(outbox[p]) - 1) /\ n + 1 \in 1..Len(outbox[p])
      BY <1>5
    <3> QED
      BY <1>5, <3>1 DEF DInv, Messages
  <2> QED
    BY <1>4, <2>1 DEF DInv, Messages
<1>8. SentOK'
  <2>1. ASSUME NEW q \in Conns, link[q] = "open", NEW r \in Reports
        PROVE  Sets(outbox'[q], r, Accounted(q, r))
    BY <1>3, <1>4, <2>1, HandledReport DEF DInv, SentOK
  <2> QED
    BY <1>2, <1>3, <2>1 DEF SentOK
<1>9. device' \in [Reports -> SUBSET (Token \cup {Unknown})]
  BY <1>1, <1>6, WrittenReport DEF DInv
<1>10. DeviceOK'
  <2> SUFFICES ASSUME cut' = {}, ~ OutOfStep', NEW r \in Reports, NEW t \in device'[r]
               PROVE  \E q \in Conns : \/ Due(outbox'[q], r)
                                       \/ link[q] = "open" /\ t \in Accounted(q, r)
    BY <1>2, <1>3 DEF DeviceOK
  <2>0. /\ ~ OutOfStep
        /\ \A s \in Reports :
              /\ m.report = "all" => device'[s] = {}
              /\ m.report = s => device'[s] = m.tokens
              /\ ~ Affects(m, s) => device'[s] = device[s]
    <3>1. DOMAIN device' = Reports
      BY <1>9
    <3>2. ~ \A s \in Reports : device'[s] = {Unknown}
      BY <3>1 DEF OutOfStep, OnDevice
    <3> QED
      BY <1>1, <1>6, <3>2, WrittenReport DEF DInv
  <2>1. m.report # "all"
    BY <2>0
  <2>2. cut = {}
    BY <1>1, <2>1
  <2>3. CASE Affects(m, r)
    <3>1. t \in m.tokens
      BY <2>0, <2>1, <2>3 DEF Affects
    <3>2. link[p] = "open"
      BY <1>3, <2>2 DEF DInv, CutOK
    <3>3. Due(outbox'[p], r) \/ m.tokens \subseteq Accounted(p, r)
      BY <1>3, <2>3, <3>2, HandledReport DEF DInv, SentOK, m
    <3> QED
      BY <3>1, <3>2, <3>3
  <2>4. CASE ~ Affects(m, r)
    <3>1. t \in device[r]
      BY <2>0, <2>4
    <3>2. PICK q \in Conns : Due(outbox[q], r) \/ (link[q] = "open" /\ t \in Accounted(q, r))
      BY <2>0, <2>2, <3>1 DEF DInv, DeviceOK
    <3>3. Due(outbox[p], r) => Due(outbox'[p], r)
      BY <1>3, <2>4, HandledReport DEF m
    <3> QED
      BY <1>4, <3>2, <3>3
  <2> QED
    BY <2>3, <2>4
<1>11. CutOK'
  <2> SUFFICES ASSUME NEW q \in Conns, link[q] # "open", outbox'[q] # <<>>
               PROVE  q \in cut'
    BY <1>3 DEF CutOK
  <2>1. outbox[q] # <<>>
    BY <1>3, <1>4
  <2>2. q \in cut
    BY <2>1 DEF DInv, CutOK
  <2>3. link[q] = "lost"
    BY <2>1 DEF DInv, HubOK, ListOK, StreamsIn
  <2> QED
    BY <1>1, <2>2, <2>3
<1>12. cut' \subseteq Conns
  BY <1>1 DEF DInv
<1> QED
  BY <1>3, <1>7, <1>8, <1>9, <1>10, <1>11, <1>12 DEF DInv

LEMMA InitDInv == Init => DInv
<1> SUFFICES ASSUME Init PROVE DInv
  OBVIOUS
<1>1. HubOK
  BY InitHub DEF Init
<1>2. /\ device = [r \in Reports |-> {}] /\ cut = {}
      /\ \A p \in Conns : link[p] = "closed" /\ outbox[p] = <<>>
  BY DEF Init, HubInit, Reports
<1>3. Messages /\ SentOK /\ CutOK
  BY <1>2, EmptyStream DEF Messages, SentOK, CutOK
<1>4. DeviceOK
  BY <1>2 DEF DeviceOK
<1> QED
  BY <1>1, <1>2, <1>3, <1>4 DEF DInv

LEMMA NextDInv == IInv /\ DInv /\ [Next]_vars => DInv'
<1> SUFFICES ASSUME IInv, DInv, [Next]_vars PROVE DInv'
  OBVIOUS
<1>1. CASE UNCHANGED vars
  BY <1>1, SameDevice DEF vars
<1>2. ASSUME NEW p \in Conns, Ordinary(p) PROVE DInv'
  <2>1. ASSUME NEW k \in Keys, KeyDown(p, k) \/ KeyUp(p, k) PROVE DInv'
    BY <2>1, KeyDownDevice, KeyUpDevice
  <2>2. ASSUME NEW b \in Buttons, MouseDown(p, b) PROVE DInv'
    BY <2>2, MouseDownDevice
  <2>3. ASSUME \/ MouseUp(p) \/ toggle_edit_mode(p) \/ RepeatCode(p)
               \/ Connect(p) \/ NoticeClose(p) \/ Reload(p) \/ Handle(p)
        PROVE  DInv'
    BY <2>3, MouseUpDevice, toggle_edit_modeDevice, RepeatCodeDevice, ConnectionDevice,
       ReloadDevice, HandleDevice
  <2> QED
    BY <1>2, <2>1, <2>2, <2>3 DEF Ordinary
<1>3. ASSUME NEW p \in Conns, Mishap(p) PROVE DInv'
  <2>1. ASSUME NEW k \in Keys, KeyUpElsewhere(p, k) PROVE DInv'
    BY <2>1, KeyUpDevice
  <2>2. ASSUME MouseUpElsewhere(p) \/ toggle_edit_mode(p) \/ Disconnect(p) PROVE DInv'
    BY <2>2, MouseUpDevice, toggle_edit_modeDevice, DisconnectDevice
  <2>3. ASSUME NEW a \in Activities, SwitchActivity(p, a) PROVE DInv'
    BY <2>3, SwitchActivityDevice
  <2>4. ASSUME NEW k \in Keys, NEW b \in Buttons, map_key(p, k, b) PROVE DInv'
    <3>1. page[p].activity \in Activities
      BY OnePage DEF Page
    <3> QED
      BY <2>4, <3>1, MapDevice DEF map_key
  <2>5. ASSUME NEW a \in Activities, NEW k \in Keys, delete_key_map_callback(p, a, k)
        PROVE  DInv'
    BY <2>5, MapDevice DEF delete_key_map_callback
  <2> QED
    BY <1>3, <2>1, <2>2, <2>3, <2>4, <2>5 DEF Mishap
<1> QED
  BY <1>1, <1>2, <1>3 DEF Next

-----------------------------------------------------------------------------
LEMMA Inductive == Spec => [](IInv /\ DInv /\ mishaps \in 0..MaxMishaps)
<1> DEFINE Count == mishaps \in 0..MaxMishaps
<1>1. Init => IInv /\ DInv /\ Count
  <2>1. Init => Count
    BY BoundsAssumption DEF Init
  <2> QED
    BY <2>1, InitIInv, InitDInv
<1>2. Count /\ [Next]_vars => Count'
  BY BoundsAssumption DEF Next, vars
<1> HIDE DEF Count
<1>3. IInv /\ DInv /\ Count /\ [Next]_vars => (IInv /\ DInv /\ Count)'
  BY <1>2, NextIInv, NextDInv
<1>4. Spec => [](IInv /\ DInv /\ Count)
  BY <1>1, <1>3, PTL DEF Spec
<1> QED
  BY <1>4 DEF Count

\* Pages and messages are of the kinds that the handlers take them to be: in each part
\* of a report, whatever the keys are mapped to, there are only codes of that part.
THEOREM ReportsWellFormed == Spec => []TypeOK
<1>1. IInv /\ DInv /\ mishaps \in 0..MaxMishaps => TypeOK
  <2> SUFFICES ASSUME IInv, DInv, mishaps \in 0..MaxMishaps PROVE TypeOK
    OBVIOUS
  <2>1. \A p \in Conns : DOMAIN down[p] \subseteq Keys
    BY DEF IInv, Hands, KeysDown
  <2> QED
    BY <2>1 DEF IInv, DInv, Pages, Hands, Reports, TypeOK
<1> QED
  BY <1>1, Inductive, PTL

\* However the messages of any number of pages are mixed on the serial line: once they
\* have arrived, nothing is pressed on the device that no user presses, unless a page
\* was cut off with something pressed, and nothing has cleared the device since, or
\* the module is out of step: of what follows a report that was cut short nothing is
\* claimed.
THEOREM PressedOnDevice == Spec => []DeviceIsPressed
<1>1. IInv /\ DInv => DeviceIsPressed
  <2> SUFFICES ASSUME IInv, DInv, Drained, cut = {}, ~ OutOfStep, NEW t \in OnDevice
               PROVE  \E p \in Conns : t \in Pressed(p)
    BY DEF DeviceIsPressed
  <2>1. PICK r \in Reports : t \in device[r]
    BY DEF DInv, OnDevice
  <2>2. PICK p \in Conns : Due(outbox[p], r) \/ (link[p] = "open" /\ t \in Accounted(p, r))
    BY <2>1 DEF DInv, DeviceOK
  <2>3. ~ Due(outbox[p], r)
    BY EmptyStream DEF Drained, Due
  <2>4. t \in Kept(page[p], r) \/ t \in Pressed(p)
    BY <2>2, <2>3 DEF Accounted
  <2>5. Kept(page[p], r) \subseteq Pressed(p)
    BY OnePage DEF Kept, Own, Pressed
  <2> QED
    BY <2>4, <2>5
<1> QED
  BY <1>1, Inductive, PTL

=============================================================================
