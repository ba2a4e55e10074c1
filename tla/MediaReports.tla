---------------------------- MODULE MediaReports ----------------------------
(***************************************************************************)
(* What a player promises the application about the reports of its media   *)
(* (end, error, delay), whatever threads and queues are between: each is   *)
(* told once and in the order it was posted. It may be lost only           *)
(*   - if nobody listens for its kind, and while a media is set up the     *)
(*     listeners are those the player was opened with, or                  *)
(*   - at the tail of what is due, when the application itself stops,      *)
(*     closes or replaces the media.                                       *)
(* It promises less than the documentation does: a media that is closed or *)
(* replaced takes the listeners with it, and nobody is told anything from  *)
(* then on.                                                                *)
(***************************************************************************)
EXTENDS Naturals, Sequences

CONSTANTS Kinds, Medias

VARIABLES
    open,       \* "new", "open", or "gone"
    media,      \* the media set up, 0 for none
    running,    \* it was asked to play or pause, and not stopped
    listens,    \* the kinds of reports somebody listens for
    due,        \* reports posted and not told
    told        \* reports told

vars == <<open, media, running, listens, due, told>>

Init ==
    /\ open = "new"
    /\ media = 0
    /\ running = FALSE
    /\ listens = {}
    /\ due = <<>>
    /\ told = <<>>

\* The last of what is due is lost.
Cut == \E n \in 0 .. Len(due) : due' = SubSeq(due, 1, n)

\* A player opens, with a media set up or without.
Open ==
    /\ open = "new"
    /\ open' = "open"
    /\ media' \in Medias \cup {0}
    /\ listens' \in SUBSET Kinds
    /\ UNCHANGED <<running, due, told>>

Post ==
    /\ running
    /\ \E k \in Kinds : due' = Append(due, k)
    /\ UNCHANGED <<open, media, running, listens, told>>

\* The first ones are told.
Tell ==
    /\ open # "new"
    /\ \E n \in 1 .. Len(due) :
        /\ told' = told \o SubSeq(due, 1, n)
        /\ due' = SubSeq(due, n + 1, Len(due))
    /\ UNCHANGED <<open, media, running, listens>>

\* One for which nobody listens is passed over.
Miss ==
    /\ \E i \in 1 .. Len(due) :
        /\ due[i] \notin listens
        /\ due' = SubSeq(due, 1, i - 1) \o SubSeq(due, i + 1, Len(due))
    /\ UNCHANGED <<open, media, running, listens, told>>

\* A media is set up where there is none; who listens stays.
SetUp ==
    /\ open = "open"
    /\ media = 0
    /\ media' \in Medias
    /\ running' \in BOOLEAN
    /\ UNCHANGED <<open, listens, due, told>>

Run ==
    /\ media # 0
    /\ running' = TRUE
    /\ UNCHANGED <<open, media, listens, due, told>>

Stop ==
    /\ running
    /\ running' = FALSE
    /\ Cut
    /\ UNCHANGED <<open, media, listens, told>>

\* The media is closed, also to set up another one: nobody listens any more.
Close ==
    /\ open = "open"
    /\ media' = 0
    /\ running' = FALSE
    /\ listens' = {}
    /\ IF running THEN Cut ELSE UNCHANGED due
    /\ UNCHANGED <<open, told>>

\* The player goes, with the last of what is due.
Leave ==
    /\ open = "open"
    /\ open' = "gone"
    /\ media' = 0
    /\ running' = FALSE
    /\ listens' = {}
    /\ Cut
    /\ UNCHANGED told

Next == Open \/ Post \/ Tell \/ Miss \/ SetUp \/ Run \/ Stop \/ Close \/ Leave

Spec == Init /\ [][Next]_vars
=============================================================================
