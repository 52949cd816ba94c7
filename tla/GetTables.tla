----------------------------- MODULE GetTables -----------------------------
(***************************************************************************)
(* get_tables, with which the web process builds a page: one select for    *)
(* each table, each of which sees what is committed at that moment, while  *)
(* the websocket server goes on handling requests.  A page that gets a     *)
(* bind without its button breaks off where it lists the bind.             *)
(***************************************************************************)
EXTENDS WebRemoteStore

Order_BindsFirst ==   \* mutant
    <<"button_binds", "key_binds", "voice_binds", "remotes", "remote_buttons", "activities">>

\* The tables in the order of the selects.
Order ==
    <<"remotes", "remote_buttons", "activities", "button_binds", "key_binds", "voice_binds">>

VARIABLES
    step,    \* how many tables the load under way has read
    read,    \* their rows
    upTo,    \* history: the sequence of each table when it was read
    astray   \* history: references of rows that led nowhere when the row was read

loadVars == <<vars, step, read, upTo, astray>>

LoadReferences ==
    [from: BindTables, col: {"activity_id"}, to: {"activities"}]
        \cup [from: BindTables, col: {"button_id"}, to: {"remote_buttons"}]
        \cup [from: BindTables \cup {"remote_buttons"}, col: {"remote_id"}, to: {"remotes"}]

ReadTables == {Order[n] : n \in 1..step}

Nothing == [t \in Tables |-> <<>>]

-----------------------------------------------------------------------------
LoadInit ==
    /\ Init
    /\ step = 0
    /\ read = Nothing
    /\ upTo = [t \in Tables |-> 0]
    /\ astray = {}

LeadNowhere(t) ==
    {pair \in {ref \in LoadReferences : ref.from = t} \X IdsIn(disk, t) :
        ~ Resolves(disk, pair[1], pair[2])}

Select ==
    /\ step < Len(Order)
    /\ step' = step + 1
    /\ LET t == Order[step + 1]
       IN  /\ read' = [read EXCEPT ![t] = disk[t].rows]
           /\ upTo' = [upTo EXCEPT ![t] = disk[t].seq]
           /\ astray' = astray \cup LeadNowhere(t)
    /\ UNCHANGED vars

\* The page is sent, and another may be asked for.
SendPage ==
    /\ step = Len(Order)
    /\ seen' = [t \in Tables |-> seen[t] \cup DOMAIN read[t]]
    /\ owners' = owners \cup
          {[button_id |-> b, remote_id |-> read["remote_buttons"][b].remote_id] :
              b \in DOMAIN read["remote_buttons"]}
    /\ step' = 0
    /\ read' = Nothing
    /\ upTo' = [t \in Tables |-> 0]
    /\ astray' = {}
    /\ UNCHANGED <<db, disk, txn, gone>>

LoadNext ==
    \/ Next /\ UNCHANGED <<step, read, upTo, astray>>
    \/ Select
    \/ SendPage

LoadSpec == LoadInit /\ [][LoadNext]_loadVars
-----------------------------------------------------------------------------
(***************************************************************************)
(* Properties                                                              *)
(***************************************************************************)
\* What a page gets is closed under references, although it is read in pieces while
\* rows are added and deleted: a reference that led somewhere when its row was read
\* leads to a row of the page, unless that row was added after its table was read.
\* Deletes cannot break it, since binds are read after all that they refer to.
LoadedResolves ==
    \A ref \in LoadReferences : \A i \in DOMAIN read[ref.from] :
        LET target == read[ref.from][i][ref.col]
        IN  ref.to \in ReadTables =>
                \/ target \in DOMAIN read[ref.to]
                \/ target > upTo[ref.to]
                \/ <<ref, i>> \in astray
=============================================================================
