------------------------------ MODULE KeyInput ------------------------------
(***************************************************************************)
(* From keys and on-screen buttons that users press to what the Bluetooth  *)
(* module reports to the device.  A page keeps the HID report of its keys  *)
(* and sends all of it on every change; buttons of other kinds are sent as *)
(* they are, and cleared when they go up.  The server writes what arrives  *)
(* to one serial line, whichever page it comes from.                       *)
(*                                                                         *)
(* A token is one thing that can be pressed: the code of a key or of a     *)
(* consumer control, a mouse axis with its value, an infrared repetition.  *)
(***************************************************************************)
EXTENDS Realtime, Functions

CONSTANTS
    Keys,           \* keys of a user's keyboard
    Activities,
    Buttons,        \* remote buttons
    Code,           \* buttons[b]['code'] as a page has it, by kind
    InstalledMaps,  \* key_maps as loaded: a button or NoButton for each key
    KeyPlaces,      \* places in bt_keys: 6 in the code
    ModPlaces,      \* places in bt_mods: 8 in the code
    MaxMishaps      \* bound of the model: how often something gets in between

NoButton == "none"
Axes == {"buttons", "x", "y", "wheel"}  \* of the mouse

KeyCodes      == {"usage"} \X Nat
ModCodes      == {"modifier"} \X Nat
ConsumerCodes == {"consumer"} \X Nat

Codes ==
    [kind: {"key"}, code: KeyCodes] \cup [kind: {"mod"}, code: ModCodes]
        \cup [kind: {"consumer"}, code: ConsumerCodes]
        \cup [kind: {"mouse"}, move: [Axes -> Nat]]
        \cup [kind: {"ir", "learnt"}]

KeyMaps == [Activities -> [Keys -> Buttons \cup {NoButton}]]

ASSUME ButtonsAssumption ==
    /\ NoButton \notin Buttons
    /\ \A b \in Buttons : Code[b] \in Codes
    /\ InstalledMaps \in KeyMaps

ASSUME BoundsAssumption ==
    KeyPlaces \in Nat /\ ModPlaces \in Nat /\ MaxMishaps \in Nat

VARIABLES
    page,     \* for each connection, the page behind it
    down,     \* the keys that are down, each with the tokens it was pressed as
    clicked,  \* the on-screen button that is held down, or NoButton
    device,   \* what the device takes to be pressed, by report
    slipped,  \* history: tokens whose key or button went up unseen by the page
    cut,      \* history: pages that were cut off with something pressed
    mishaps   \* how often something got in between a press and its release

vars == <<hubVars, page, down, clicked, device, slipped, cut, mishaps>>

-----------------------------------------------------------------------------
(***************************************************************************)
(* What a button presses.  The code of a button learnt since the page was  *)
(* loaded is a JSON text and not an array.  For poll_key_map the third     *)
(* character of "[116, ..." equals the number of the keyboard report, and  *)
(* the fourth is entered as a modifier.                                    *)
(***************************************************************************)
Vacant       == <<"vacant", 0>>  \* the 0 of an empty place
TextModifier == <<"text", 6>>
Repetition   == <<"repeat", 2>>  \* an infrared code sent four times a second
Unknown      == <<"unknown", 0>> \* whatever the device makes of a report cut short

Moved(mouse) == {<<x, mouse[x]>> : x \in {y \in Axes : mouse[y] # 0}}

\* ... when it is clicked,
Tokens(b) ==
    IF b = NoButton THEN {}
    ELSE CASE Code[b].kind \in {"key", "mod", "consumer"} -> {Code[b].code}
           [] Code[b].kind = "mouse"                      -> Moved(Code[b].move)
           [] Code[b].kind \in {"ir", "learnt"}           -> {Repetition}

\* ... and when a key is mapped to it.
KeyTokens(b) ==
    IF b = NoButton THEN {}
    ELSE CASE Code[b].kind = "ir"     -> {}
           [] Code[b].kind = "learnt" -> {TextModifier}
           [] OTHER                   -> Tokens(b)

Bluetooth(b) == Code[b].kind \in {"key", "mod", "mouse", "consumer"}

\* The kinds that poll_key_map enters in the page's own report.
Reported(b) == Code[b].kind \in {"key", "mod", "mouse", "learnt"}

-----------------------------------------------------------------------------
(***************************************************************************)
(* What pages send, each message a report with the tokens it presses.      *)
(***************************************************************************)
Report(id, tokens) == [report |-> id, tokens |-> tokens]

clear_bt == Report("all", {})

send_code(b) ==
    CASE Code[b].kind \in {"key", "mod"}   -> <<Report("keyboard", Tokens(b))>>
      [] Code[b].kind = "mouse"            -> <<Report("mouse", Tokens(b))>>
      [] Code[b].kind = "consumer"         -> <<Report("consumer", Tokens(b))>>
      [] Code[b].kind \in {"ir", "learnt"} -> <<Report("ir", {})>>

(***************************************************************************)
(* A page.                                                                 *)
(***************************************************************************)
NewPage(a) ==
    [edit_mode  |-> FALSE,
     activity   |-> a,
     key_maps   |-> InstalledMaps,
     bt_keys    |-> [i \in 1..KeyPlaces |-> Vacant],
     bt_mods    |-> [i \in 1..ModPlaces |-> Vacant],
     bt_mouse   |-> [x \in Axes |-> 0],
     bt_pressed |-> FALSE,
     intervals  |-> FALSE]

KeyboardOf(pg) == (Range(pg.bt_keys) \cup Range(pg.bt_mods)) \ {Vacant}

\* What the page keeps pressed of its own.
Entered(pg) ==
    KeyboardOf(pg) \cup Moved(pg.bt_mouse) \cup (IF pg.intervals THEN {Repetition} ELSE {})

press_buttons(pg) ==
    <<Report("keyboard", KeyboardOf(pg)), Report("mouse", Moved(pg.bt_mouse))>>

FirstWith(places, v) ==
    {i \in DOMAIN places : places[i] = v /\ \A j \in 1..(i - 1) : places[j] # v}

enter_Push(places, c) ==                       \* mutant: there is always a place left
    IF c \in Range(places) THEN places
    ELSE IF FirstWith(places, Vacant) = {} THEN Append(places, c)
    ELSE [i \in DOMAIN places |-> IF i \in FirstWith(places, Vacant) THEN c ELSE places[i]]

enter_Again(places, c) ==                      \* mutant: may enter it twice
    [i \in DOMAIN places |-> IF i \in FirstWith(places, Vacant) THEN c ELSE places[i]]

\* The first empty place, unless c is there already; there may be none left.
enter(places, c) ==
    IF c \in Range(places) THEN places
    ELSE [i \in DOMAIN places |-> IF i \in FirstWith(places, Vacant) THEN c ELSE places[i]]

leave(places, c) ==
    [i \in DOMAIN places |-> IF i \in FirstWith(places, c) THEN Vacant ELSE places[i]]

Modifier(b) == IF Code[b].kind = "learnt" THEN TextModifier ELSE Code[b].code

pressed(pg, b) ==
    CASE Code[b].kind = "key"   -> [pg EXCEPT !.bt_keys = enter(@, Code[b].code)]
      [] Code[b].kind = "mouse" ->
            [pg EXCEPT !.bt_mouse = [x \in Axes |->
                IF Code[b].move[x] # 0 THEN Code[b].move[x] ELSE @[x]]]
      [] OTHER                  -> [pg EXCEPT !.bt_mods = enter(@, Modifier(b))]

released(pg, b) ==
    CASE Code[b].kind = "key"   -> [pg EXCEPT !.bt_keys = leave(@, Code[b].code)]
      [] Code[b].kind = "mouse" ->
            [pg EXCEPT !.bt_mouse = [x \in Axes |->
                IF Code[b].move[x] # 0 THEN 0 ELSE @[x]]]
      [] OTHER                  -> [pg EXCEPT !.bt_mods = leave(@, Modifier(b))]

\* bt_keys, bt_mods and bt_mouse stay as they are.
clear_presses(pg, ready) ==
    [pg EXCEPT !.intervals = FALSE, !.bt_pressed = @ /\ ~ ready]

ButtonOf(pg, k) == pg.key_maps[pg.activity][k]

-----------------------------------------------------------------------------
Init ==
    /\ HubInit
    /\ page \in [Conns -> {NewPage(a) : a \in Activities}]
    /\ down = [p \in Conns |-> <<>>]
    /\ clicked = [p \in Conns |-> NoButton]
    /\ device = [r \in {"keyboard", "mouse", "consumer"} |-> {}]
    /\ slipped = [p \in Conns |-> {}]
    /\ cut = {}
    /\ mishaps = 0

\* ws_ready(): a page may take a connection that is lost to be open still.
Ready(p) == IF link[p] = "open" THEN {TRUE} ELSE BOOLEAN

SendIfOpen(p, messages) ==
    IF link[p] = "open" THEN Send(p, messages) ELSE UNCHANGED hubVars

AllTokens == UNION {Tokens(b) : b \in Buttons}

\* The page becomes pg, and the user let go of the tokens in missed unseen by it.
\* Those of them count that its report holds, or that a clear_bt is still due for.
Become(p, pg, missed) ==
    /\ page' = [page EXCEPT ![p] = pg]
    /\ slipped' = [slipped EXCEPT ![p] =
          (@ \cup missed) \cap (Entered(pg) \cup IF pg.bt_pressed THEN AllTokens ELSE {})]
    /\ UNCHANGED <<device, cut>>

ClearPresses(p, pg, missed) ==
    /\ \E ready \in Ready(p) : Become(p, clear_presses(pg, ready), missed)
    /\ SendIfOpen(p, IF pg.bt_pressed THEN <<clear_bt>> ELSE <<>>)

PressButton_ConsumerOnly(p, b, repeat, missed) ==  \* mutant: clears nothing else
    /\ Become(p, [page[p] EXCEPT !.bt_pressed = @ \/ Code[b].kind = "consumer",
                                 !.intervals  = @ \/ (repeat /\ ~ Bluetooth(b))], missed)
    /\ SendIfOpen(p, send_code(b))

\* press_button, for an on-screen button and for a key mapped to one.
PressButton(p, b, repeat, missed) ==
    /\ Become(p, [page[p] EXCEPT !.bt_pressed = @ \/ Bluetooth(b),
                                 !.intervals  = @ \/ (repeat /\ ~ Bluetooth(b))], missed)
    /\ SendIfOpen(p, send_code(b))

(***************************************************************************)
(* Users.  A key that is held repeats its keydown.                         *)
(***************************************************************************)
Was(p, k) == IF k \in DOMAIN down[p] THEN down[p][k] ELSE {}

Down(p, k, tokens) ==
    down' = [down EXCEPT ![p] =
        [j \in DOMAIN @ \cup {k} |-> IF j = k THEN tokens ELSE @[j]]]

KeyDown(p, k) ==
    LET pg == page[p]
        b  == ButtonOf(pg, k)
    IN  IF pg.edit_mode \/ b = NoButton
        THEN /\ Down(p, k, Was(p, k))
             /\ UNCHANGED <<hubVars, page, clicked, device, slipped, cut>>
        ELSE /\ Down(p, k, KeyTokens(b))
             /\ IF Reported(b)
                THEN /\ Become(p, pressed(pg, b), Was(p, k) \ KeyTokens(b))
                     /\ SendIfOpen(p, press_buttons(pressed(pg, b)))
                ELSE PressButton(p, b, FALSE, Was(p, k) \ KeyTokens(b))
             /\ UNCHANGED clicked

Up(p, k) == down' = [down EXCEPT ![p] = Restrict(@, DOMAIN @ \ {k})]

\* The button is the one that the key is mapped to by now.
KeyUp(p, k) ==
    LET pg == page[p]
        b  == ButtonOf(pg, k)
    IN  /\ k \in DOMAIN down[p]
        /\ Up(p, k)
        /\ UNCHANGED clicked
        /\ IF pg.edit_mode \/ b = NoButton
           THEN Become(p, pg, down[p][k]) /\ UNCHANGED hubVars
           ELSE IF Reported(b)
                THEN /\ Become(p, released(pg, b), down[p][k] \ KeyTokens(b))
                     /\ SendIfOpen(p, press_buttons(released(pg, b)))
                ELSE ClearPresses(p, pg, down[p][k] \ KeyTokens(b))

\* The window lost the focus: the keyup goes elsewhere.
KeyUpElsewhere(p, k) ==
    /\ k \in DOMAIN down[p]
    /\ Up(p, k)
    /\ Become(p, page[p], down[p][k])
    /\ UNCHANGED <<hubVars, clicked>>

MouseDown(p, b) ==
    /\ clicked[p] = NoButton
    /\ ~ page[p].edit_mode
    /\ clicked' = [clicked EXCEPT ![p] = b]
    /\ \E repeat \in BOOLEAN : PressButton(p, b, repeat, {})
    /\ UNCHANGED down

\* A mouseup or touchend, wherever on the page.
MouseUp(p) ==
    /\ clicked' = [clicked EXCEPT ![p] = NoButton]
    /\ ClearPresses(p, page[p], {})
    /\ UNCHANGED down

MouseUpElsewhere(p) ==
    /\ clicked[p] # NoButton
    /\ clicked' = [clicked EXCEPT ![p] = NoButton]
    /\ Become(p, page[p], Tokens(clicked[p]))
    /\ UNCHANGED <<hubVars, down>>

toggle_edit_mode(p) ==
    LET pg == [page[p] EXCEPT !.edit_mode = ~ @]
    IN  /\ IF pg.edit_mode THEN ClearPresses(p, pg, {})
                           ELSE Become(p, pg, {}) /\ UNCHANGED hubVars
        /\ UNCHANGED <<down, clicked>>

\* What changes the meaning of a key: another activity, another button, or the
\* deletion of the map by a user of any page.
ChangeMaps(p, pg) == Become(p, pg, {}) /\ UNCHANGED <<hubVars, down, clicked>>

SwitchActivity(p, a) == ChangeMaps(p, [page[p] EXCEPT !.activity = a])

map_key(p, k, b) ==
    /\ page[p].edit_mode
    /\ ChangeMaps(p, [page[p] EXCEPT !.key_maps[page[p].activity][k] = b])

delete_key_map_callback(p, a, k) ==
    ChangeMaps(p, [page[p] EXCEPT !.key_maps[a][k] = NoButton])

(***************************************************************************)
(* The interval timer, the connection, and the server.                     *)
(***************************************************************************)
RepeatCode(p) ==
    /\ page[p].intervals
    /\ SendIfOpen(p, <<Report("ir", {})>>)
    /\ UNCHANGED <<page, down, clicked, device, slipped, cut>>

Connect(p) == Open(p) /\ UNCHANGED <<page, down, clicked, device, slipped, cut>>

Disconnect(p) ==
    /\ Lose(p)
    /\ cut' = IF Entered(page[p]) = {} /\ ~ page[p].bt_pressed /\ outbox[p] = <<>>
              THEN cut ELSE cut \cup {p}
    /\ UNCHANGED <<page, down, clicked, device, slipped>>

NoticeClose(p) == OnClose(p) /\ UNCHANGED <<page, down, clicked, device, slipped, cut>>

Reload(p) ==
    /\ link[p] = "closed"
    /\ \E a \in Activities : page' = [page EXCEPT ![p] = NewPage(a)]
    /\ down' = [down EXCEPT ![p] = [k \in DOMAIN @ |-> {}]]
    /\ clicked' = [clicked EXCEPT ![p] = NoButton]
    /\ slipped' = [slipped EXCEPT ![p] = {}]
    /\ UNCHANGED <<hubVars, device, cut>>

OnDevice == UNION {device[r] : r \in DOMAIN device}

OutOfStep == Unknown \in OnDevice


\* The bytes go out one by one.  A text for the modifiers, as "060000000", is none:
\* chr(int(byte)) raises after 253, 9, 1, and the module takes the eight bytes that
\* are missing from whatever is sent next, releases and clear_bt included.  What it
\* makes of them, and when it is in step again, is not known from then on.  (In the
\* last two places a text may be short enough to be a byte: it is taken as here.)
write(m) ==
    IF OutOfStep \/ TextModifier \in m.tokens THEN [r \in DOMAIN device |-> {Unknown}]
    ELSE IF m.report = "all" THEN [r \in DOMAIN device |-> {}]
    ELSE IF m.report \in DOMAIN device THEN [device EXCEPT ![m.report] = m.tokens]
    ELSE device

\* on_message: neither driver's answer is broadcast.
Handle(p) ==
    LET m == Head(outbox[p])
    IN  /\ OnMessageDropped(p)
        /\ device' = write(m)
        /\ cut' = IF m.report = "all"
                  THEN {q \in cut : link[q] = "lost" /\ outbox'[q] # <<>>} ELSE cut
        /\ UNCHANGED <<page, down, clicked, slipped>>

Ordinary(p) ==
    \/ \E k \in Keys : KeyDown(p, k) \/ KeyUp(p, k)
    \/ \E b \in Buttons : MouseDown(p, b)
    \/ MouseUp(p)
    \/ page[p].edit_mode /\ toggle_edit_mode(p)
    \/ RepeatCode(p)
    \/ Connect(p)
    \/ NoticeClose(p)
    \/ Reload(p)
    \/ Handle(p)

\* What comes in between a press and its release.
Mishap(p) ==
    \/ \E k \in Keys : KeyUpElsewhere(p, k)
    \/ MouseUpElsewhere(p)
    \/ ~ page[p].edit_mode /\ toggle_edit_mode(p)
    \/ \E a \in Activities : SwitchActivity(p, a)
    \/ \E k \in Keys, b \in Buttons : map_key(p, k, b)
    \/ \E a \in Activities, k \in Keys : delete_key_map_callback(p, a, k)
    \/ Disconnect(p)

Next ==
    \E p \in Conns :
        \/ Ordinary(p) /\ UNCHANGED mishaps
        \/ mishaps < MaxMishaps /\ Mishap(p) /\ mishaps' = mishaps + 1

\* The server's loop takes up every message.
Fairness == \A p \in Conns : WF_vars(Handle(p) /\ UNCHANGED mishaps)

Spec == Init /\ [][Next]_vars /\ Fairness
-----------------------------------------------------------------------------
(***************************************************************************)
(* Properties                                                              *)
(***************************************************************************)
Token ==
    KeyCodes \cup ModCodes \cup ConsumerCodes \cup (Axes \X Nat)
        \cup {TextModifier, Repetition}

Page ==
    [edit_mode:  BOOLEAN,
     activity:   Activities,
     key_maps:   KeyMaps,
     bt_keys:    [1..KeyPlaces -> KeyCodes \cup {Vacant}],
     bt_mods:    [1..ModPlaces -> ModCodes \cup {TextModifier, Vacant}],
     bt_mouse:   [Axes -> Nat],
     bt_pressed: BOOLEAN,
     intervals:  BOOLEAN]

\* A page's report holds codes of their own kind in each of its parts.
TypeOK ==
    /\ page \in [Conns -> Page]
    /\ \A p \in Conns : DOMAIN down[p] \subseteq Keys
    /\ clicked \in [Conns -> Buttons \cup {NoButton}]
    /\ slipped \in [Conns -> SUBSET Token]
    /\ device \in [{"keyboard", "mouse", "consumer"} -> SUBSET (Token \cup {Unknown})]
    /\ cut \subseteq Conns
    /\ mishaps \in 0..MaxMishaps

Held(keys) == UNION {keys[k] : k \in DOMAIN keys}

\* What the user of a page presses, or let go of unseen by the page.
Pressed(p) == Held(down[p]) \cup Tokens(clicked[p]) \cup slipped[p]

\* A page keeps nothing in its report and repeats no code that its user does not
\* press, for every order of presses, repeats and releases, more keys than places,
\* and two keys of one code: except for what went up while the page could not see
\* it, in edit mode, after the key's map or the activity was changed, or elsewhere.
ReportIsPressed == \A p \in Conns : Entered(page[p]) \subseteq Pressed(p)

Drained == \A p \in Conns : outbox[p] = <<>>

\* When all messages have arrived the device has nothing pressed that no user
\* presses, however the reports of several pages overwrote each other, with two
\* exceptions: a page that had something pressed was cut off and nothing cleared it
\* since; or a key was pressed that is mapped to a button learnt since its page was
\* loaded, which leaves the module out of step with what is sent.
DeviceIsPressed ==
    Drained /\ cut = {} /\ ~ OutOfStep => OnDevice \subseteq UNION {Pressed(p) : p \in Conns}

Stray(t) == cut = {} /\ t \in OnDevice /\ \A p \in Conns : t \notin Pressed(p)

\* What its users let go of is released on the device in the end, also while they
\* keep pressing other keys.
ReleasesArrive == \A t \in AllTokens : Stray(t) ~> ~ Stray(t)

=============================================================================
