------------------------------ MODULE IRduino ------------------------------
(***************************************************************************)
(* The infrared driver: the server on one end of a serial line, and on the *)
(* other an Arduino that sends and records infrared codes.  The server is  *)
(* one process and does nothing else while it learns a code; the bytes of  *)
(* a recorded code arrive while it reads them.                             *)
(*                                                                         *)
(* The Arduino's program is not part of the repository.  It is taken to do *)
(* what the driver uses it for: 'r' records the next code that a remote    *)
(* control sends and writes it to the line, a code is sent, and 'd' sends  *)
(* the code once more that it has in its memory.                           *)
(***************************************************************************)
EXTENDS Naturals, Sequences

CONSTANTS
    Codes,        \* infrared codes, each a sequence of bytes
    None,
    MaxUnread     \* bound of the model: bytes on the line when a remote is pressed

Start == 116      \* with which a code begins

\* The third byte tells the length.
ASSUME CodesAssumption ==
    /\ Codes \subseteq Seq(0..255)
    /\ \A c \in Codes : Len(c) >= 4 /\ c[1] = Start /\ Len(c) = c[3] * 2 + 3
    /\ None \notin Codes
    /\ MaxUnread \in Nat

VARIABLES
    pc,           \* where the server is in learn_code, or "idle"
    code,         \* the bytes learn_code has read
    last_code,    \* the code last sent, or None
    waiting,      \* the bytes that arrived and are not read
    arriving,     \* the bytes that the Arduino is writing
    recording,    \* the Arduino records
    memory,       \* the code that it sent or recorded last, or None
    stored,       \* the code of the button learnt last; empty for false
    answer,       \* history: the last code asked for and written, and what was sent
    pressed,      \* history: the codes of remotes since learning was asked for
    cut           \* history: a learning ended without a code

arduino == <<arriving, recording, memory>>
vars == <<pc, code, last_code, waiting, arduino, stored, answer, pressed, cut>>

-----------------------------------------------------------------------------
\* A byte on the line, as it stands in its code.  The server sees the value only.
Frame(c) == [n \in 1..Len(c) |-> <<c, n>>]

Value(byte) == byte[1][byte[2]]

whole_StartOnly(bytes) ==                       \* mutant: the length does not matter
    Len(bytes) >= 4 /\ Value(bytes[1]) = Start

whole_Any(bytes) == Len(bytes) >= 4             \* mutant

whole(bytes) ==
    /\ Len(bytes) >= 4
    /\ Value(bytes[1]) = Start
    /\ Value(bytes[3]) * 2 + 3 = Len(bytes)

Init ==
    /\ pc = "idle"
    /\ code = <<>>
    /\ last_code = None
    /\ waiting = <<>>
    /\ arriving = <<>>
    /\ recording = FALSE
    /\ memory = None
    /\ stored = <<>>
    /\ answer = [asked |-> None, sent |-> None]
    /\ pressed = {}
    /\ cut = FALSE

-----------------------------------------------------------------------------
(***************************************************************************)
(* The Arduino.                                                            *)
(***************************************************************************)
\* While it records it may take no notice.
Ignores == recording /\ UNCHANGED arduino

Transmits(c) == memory' = c /\ recording' = FALSE /\ UNCHANGED arriving

\* A remote control is pressed at the Arduino.
PressRemote(c) ==
    /\ recording
    /\ Len(waiting) + Len(arriving) <= MaxUnread
    /\ recording' = FALSE
    /\ memory' = c
    /\ arriving' = arriving \o Frame(c)
    /\ pressed' = pressed \cup {c}
    /\ UNCHANGED <<pc, code, last_code, waiting, stored, answer, cut>>

Arrive ==
    /\ arriving # <<>>
    /\ waiting' = Append(waiting, Head(arriving))
    /\ arriving' = Tail(arriving)
    /\ UNCHANGED <<pc, code, last_code, recording, memory, stored, answer, pressed, cut>>

(***************************************************************************)
(* send_code.  When the line fails it raises, and last_code stays.         *)
(***************************************************************************)
noted_First(c, written) == c                                 \* mutant

noted(c, written) == IF written THEN c ELSE last_code

SendCode(c) ==
    /\ pc = "idle"
    /\ \E written \in BOOLEAN :
        /\ last_code' = noted(c, written)
        /\ IF ~ written THEN UNCHANGED <<arduino, answer>>
           ELSE LET sent == IF last_code = c THEN memory ELSE c
                IN  \/ Transmits(sent) /\ answer' = [asked |-> c, sent |-> sent]
                    \/ Ignores /\ answer' = [asked |-> c, sent |-> None]
    /\ UNCHANGED <<pc, code, waiting, stored, pressed, cut>>

(***************************************************************************)
(* learn_code.  It reads until nothing is waiting, be it the whole or not. *)
(***************************************************************************)
AskToRecord ==
    /\ pc = "idle"
    /\ recording' = TRUE
    /\ pc' = "waits"
    /\ code' = <<>>
    /\ stored' = <<>>
    /\ pressed' = {}
    /\ UNCHANGED <<last_code, waiting, arriving, memory, answer, cut>>

Read ==
    /\ pc \in {"waits", "reads"}
    /\ waiting # <<>>
    /\ pc' = "reads"
    /\ code' = Append(code, Head(waiting))
    /\ waiting' = Tail(waiting)
    /\ UNCHANGED <<last_code, arduino, stored, answer, pressed, cut>>

\* A list of bytes is equal to no code that send_code compares it with.
Learn ==
    /\ stored' = code
    /\ last_code' = None
    /\ UNCHANGED cut

ReturnFalse ==
    /\ cut' = TRUE
    /\ UNCHANGED <<stored, last_code>>

Judge ==
    /\ pc = "reads"
    /\ waiting = <<>>
    /\ pc' = "idle"
    /\ IF whole(code) THEN Learn ELSE ReturnFalse
    /\ UNCHANGED <<code, waiting, arduino, answer, pressed>>

\* The line failed, be it before or after the Arduino was asked to record.
LearningFails ==
    /\ pc # "idle"
    /\ pc' = "idle"
    /\ ReturnFalse
    /\ UNCHANGED <<code, waiting, arduino, answer, pressed>>

\* The server is killed and started again; the Arduino starts with its line.
Restart ==
    /\ pc' = "idle"
    /\ code' = <<>>
    /\ last_code' = None
    /\ waiting' = <<>>
    /\ arriving' = <<>>
    /\ recording' = FALSE
    /\ memory' = None
    /\ stored' = <<>>
    /\ answer' = [asked |-> None, sent |-> None]
    /\ pressed' = {}
    /\ cut' = FALSE

Next ==
    \/ \E c \in Codes : PressRemote(c)
    \/ Arrive
    \/ \E c \in Codes : SendCode(c)
    \/ AskToRecord
    \/ Read
    \/ Judge
    \/ LearningFails
    \/ Restart

Spec == Init /\ [][Next]_vars

-----------------------------------------------------------------------------
(***************************************************************************)
(* Properties                                                              *)
(***************************************************************************)
\* A button that was learnt has a whole code or none, although the server reads no
\* more than what has arrived, and finds what an earlier learning left unread; unless
\* what it finds begins in the middle of a code with a byte that is 116 by chance:
\* then the rest of the code, and of what follows it, can have the length its third
\* byte tells.
LearntIsWhole ==
    stored # <<>> => \/ \E c \in Codes : stored = Frame(c)
                     \/ cut /\ stored[1][2] > 1

\* The code of a button is one that a remote sent after the user had asked to learn
\* it, unless an earlier learning ended without a code and left something behind.
LearntIsNew == \A n \in DOMAIN stored : cut \/ stored[n][1] \in pressed

\* What is sent is what was asked for, although most of the time the server only has
\* the Arduino repeat its last code, and although the line may fail; unless a
\* learning ended without a code and left the Arduino recording, or with another code.
SentIsAsked == answer.sent = answer.asked \/ cut
=============================================================================
