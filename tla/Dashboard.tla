----------------------------- MODULE Dashboard -----------------------------
(***************************************************************************)
(* The connection table and the category counts of tui.py, refreshed once  *)
(* a second from the tracker the handlers write: what is on the screen is   *)
(* always the tracker of some time ago, and the keys act on the row under   *)
(* the cursor.  A refresh runs without an await, so it is one step.        *)
(*                                                                         *)
(* Connections are numbered as the tracker numbers them.  Of a row's cells  *)
(* the status and the throttle are kept, which only change when the refresh *)
(* finds a reason to rewrite them; the traffic, speed and time of an active *)
(* row are rewritten every time.  _in_table is the set of the rows, and     *)
(* _display_set that of the order.                                          *)
(***************************************************************************)
EXTENDS Tracker, SequencesExt

CONSTANTS
    Category,
    CategoryOf,   \* the category each connection was given when it was opened
    Outcome,      \* bound: the ways the connections end, of CLOSED, DENIED and FAILED
    Throttled,    \* bound: the connections that are given limits
    MaxVersion    \* bound: session resets stop at this structure_version

ASSUME ConnNumbered == Conn \subseteq Nat
ASSUME CategoryAssumption == CategoryOf \in [Conn -> Category]
ASSUME BoundsAssumption == Outcome \subseteq Ended /\ Throttled \subseteq Conn

VARIABLES
    limited,      \* connections whose relay has a limit
    order,        \* _display_order
    rows,         \* the DataTable, top row first
    cursor,       \* its cursor_row
    cells,        \* the status and throttle cells of each row
    lastStatus,   \* _last_statuses
    showHistory,  \* _show_history
    shownHistory, \* _last_show_history
    throttleNews, \* throttle_version has moved past _last_throttle_v
    totals        \* _cat_cumulative

tableVars == <<order, rows, cursor, cells, lastStatus, shownHistory, totals>>
vars == <<trackerVars, tableVars, limited, showHistory, throttleNews>>

Nobody == 0    \* no row is selected; connection ids start at 1

Clamp(i, n) == IF n = 0 THEN 0 ELSE IF i < n THEN i ELSE n - 1

Selected == IF rows = <<>> THEN Nobody ELSE rows[cursor + 1]

Known == active \cup Range(history)
Visible == active \cup (IF showHistory THEN Range(history) ELSE {})

Cells(c) == [status |-> status[c], limited |-> status[c] \in Live /\ c \in limited]
NoCells == [status |-> "NONE", limited |-> FALSE]

ActiveOf(cat) == Cardinality({c \in active : CategoryOf[c] = cat})

\* Mutant: the cursor is put back to its place, whoever is there now.
RestoreCursorByPlace(table, at, saved) == Clamp(at, Len(table))

\* The cursor goes back to the row of saved, or stays where the table has it.
RestoreCursor(table, at, saved) ==
    IF saved \in Range(table) THEN SelectInSeq(table, LAMBDA c : c = saved) - 1
    ELSE Clamp(at, Len(table))

Init ==
    /\ TrackerInit
    /\ limited = {}
    /\ order = <<>> /\ rows = <<>> /\ cursor = 0
    /\ cells = [c \in Conn |-> NoCells]
    /\ lastStatus = [c \in Conn |-> "NONE"]
    /\ showHistory = TRUE /\ shownHistory = TRUE
    /\ throttleNews = FALSE
    /\ totals = [cat \in Category |-> 0]

----------------------------------------------------------------------------
(* The handlers, as far as the table sees them. *)

Quiet == UNCHANGED <<tableVars, showHistory>>

Opens(c) ==
    /\ status[c] = "NONE"
    /\ \A d \in Conn : d < c => status[d] # "NONE"
    /\ OpenConnection(c)
    /\ Quiet /\ UNCHANGED <<limited, throttleNews>>

\* The record becomes ACTIVE and its limit is registered in one go.
TunnelOpens(c) ==
    /\ status[c] = "CONNECTING"
    /\ Activate(c)
    /\ limited' \in {limited, limited \cup ({c} \cap Throttled)}
    /\ Quiet /\ UNCHANGED throttleNews

Ends(c) ==
    /\ \/ status[c] = "CONNECTING" /\ "DENIED" \in Outcome /\ Deny(c)
       \/ status[c] \in Live /\ "FAILED" \in Outcome /\ Close(c, "FAILED")
       \/ status[c] = "ACTIVE" /\ "CLOSED" \in Outcome /\ Close(c, "CLOSED")
    /\ limited' = limited \ {c}
    /\ Quiet /\ UNCHANGED throttleNews

\* set_conn_throttle raises throttle_version, also when it changes nothing.
SetThrottle(c) ==
    /\ status[c] = "ACTIVE" /\ c \in Throttled
    /\ limited' \in {limited \cup {c}, limited \ {c}}
    /\ throttleNews' = TRUE
    /\ Quiet /\ UNCHANGED trackerVars

----------------------------------------------------------------------------
(* The refresh. *)

\* New connections join the order by their number and are counted.
NewConns == SetToSortSeq(Known \ Range(order), <)
Registered == order \o NewConns

Counted ==
    [cat \in Category |->
        totals[cat] + Cardinality({c \in Range(NewConns) : CategoryOf[c] = cat})]

\* Mutant: the rows of ended connections come after those of active ones.
RowsOfActiveFirst(ids) ==
    SelectSeq(ids, LAMBDA c : c \in active) \o SelectSeq(ids, LAMBDA c : c \in Visible \ active)

RowsOf(ids) == SelectSeq(ids, LAMBDA c : c \in Visible)

\* The history was switched on or off: the table is built anew.
Rebuild ==
    /\ shownHistory # showHistory
    /\ shownHistory' = showHistory
    /\ throttleNews' = FALSE
    /\ order' = SelectSeq(Registered, LAMBDA c : c \in Known)
    /\ rows' = RowsOf(order')
    /\ cells' = [c \in Conn |-> IF c \in Range(rows') THEN Cells(c) ELSE NoCells]
    /\ lastStatus' = [c \in Conn |-> IF c \in Range(order') THEN status[c] ELSE lastStatus[c]]
    /\ cursor' = RestoreCursor(rows', 0, Selected)

\* Mutant: a row is rewritten when it is added, and for a new throttle only.
CellsWhenAdded(c) ==
    IF c \notin Range(rows) THEN Cells(c)
    ELSE IF throttleNews /\ c \in active THEN [cells[c] EXCEPT !.limited = c \in limited]
    ELSE cells[c]

\* A row is written when it is added or its status changed; a new throttle
\* version rewrites the throttle of the active rows.
CellsOf(c) ==
    IF c \notin Range(rows) \/ lastStatus[c] # status[c] THEN Cells(c)
    ELSE IF throttleNews /\ c \in active THEN [cells[c] EXCEPT !.limited = c \in limited]
    ELSE cells[c]

(* Rows leave first when their record has left the history, then when it is *)
(* no longer to be shown; new rows go to the bottom.  The cursor is put back *)
(* only for the second kind.                                                *)
Update ==
    LET kept == SelectSeq(rows, LAMBDA c : c \in Known)
        at == Clamp(cursor, Len(kept))
        shown == RowsOf(kept)
        hidesAbove == \E i \in DOMAIN kept : i - 1 <= at /\ kept[i] \notin Visible
    IN  /\ shownHistory = showHistory
        /\ order' = SelectSeq(Registered, LAMBDA c : c \in Known)
        /\ rows' = shown \o SelectSeq(order', LAMBDA c : c \in Visible \ Range(rows))
        /\ cells' = [c \in Conn |-> IF c \in Range(rows') THEN CellsOf(c) ELSE NoCells]
        /\ lastStatus' = [c \in Conn |->
               IF c \in Range(order) \ Known THEN "NONE"
               ELSE IF c \in Range(NewConns) \cup Visible THEN status[c]
               ELSE lastStatus[c]]
        /\ cursor' = IF hidesAbove
                     THEN RestoreCursor(rows', Clamp(at, Len(shown)), Selected)
                     ELSE Clamp(at, Len(shown))
        /\ throttleNews' = FALSE
        /\ UNCHANGED shownHistory

RefreshUI ==
    /\ Rebuild \/ Update
    /\ totals' = Counted
    /\ UNCHANGED <<trackerVars, limited, showHistory>>

----------------------------------------------------------------------------
(* The keys. *)

MoveCursor ==
    /\ \E i \in DOMAIN rows : cursor' = i - 1 /\ i - 1 # cursor
    /\ UNCHANGED <<trackerVars, limited, order, rows, cells, lastStatus, showHistory,
                   shownHistory, throttleNews, totals>>

\* H
ToggleHistory ==
    /\ showHistory' = ~showHistory
    /\ UNCHANGED <<trackerVars, tableVars, limited, throttleNews>>

\* Mutant: the counts begin at zero again.
RecountNone == totals' = [cat \in Category |-> 0]

\* The counts become those of the active connections, shown yet or not.
Recount == totals' = [cat \in Category |-> ActiveOf(cat)]

\* The session reset keeps the rows of the active connections the table knows.
ResetSession ==
    /\ version < MaxVersion
    /\ SoftReset
    /\ order' = SelectSeq(order, LAMBDA c : c \in active)
    /\ rows' = order'
    /\ cells' = [c \in Conn |-> IF c \in Range(rows') THEN Cells(c) ELSE NoCells]
    /\ lastStatus' = [c \in Conn |->
           IF c \in Range(rows') THEN status[c]
           ELSE IF c \in Range(order) THEN "NONE" ELSE lastStatus[c]]
    /\ cursor' = RestoreCursor(rows', 0, Selected)
    /\ Recount
    /\ UNCHANGED <<limited, showHistory, shownHistory, throttleNews>>

----------------------------------------------------------------------------

Next ==
    \/ \E c \in Conn : Opens(c) \/ TunnelOpens(c) \/ Ends(c) \/ SetThrottle(c)
    \/ RefreshUI \/ MoveCursor \/ ToggleHistory \/ ResetSession

Spec == Init /\ [][Next]_vars

----------------------------------------------------------------------------

TypeOK ==
    /\ limited \subseteq {c \in Conn : status[c] = "ACTIVE"}
    /\ order \in Seq(Conn) /\ IsInjective(order)
    /\ rows \in Seq(Conn) /\ IsInjective(rows) /\ Range(rows) \subseteq Range(order)
    /\ cursor \in Nat /\ cursor = Clamp(cursor, Len(rows))
    /\ cells \in [Conn -> [status : Status, limited : BOOLEAN]]
    /\ lastStatus \in [Conn -> Status]
    /\ showHistory \in BOOLEAN /\ shownHistory \in BOOLEAN /\ throttleNews \in BOOLEAN
    /\ totals \in [Category -> Nat]

\* What a refresh leaves on the screen is the tracker: a row for every connection
\* that is active or, with the history shown, among the ended ones, with its
\* status and throttle as they are.  The refresh only writes what it takes to have
\* changed (tui.py:987, 998).
RowsFollowRecords ==
    [][RefreshUI => /\ Range(rows') = Visible
                    /\ \A c \in Visible : cells'[c] = Cells(c)]_vars

\* "Stable-order table refresh: rows never move" (tui.py:869), across evictions,
\* the history key and session resets: the rows that stay, stay in their order.
RowsNeverMove ==
    [][SelectSeq(rows, LAMBDA c : c \in Range(rows')) =
           SelectSeq(rows', LAMBDA c : c \in Range(rows))]_vars

Redraws == RefreshUI \/ ResetSession

\* A connection that stays on the screen stays selected, or D, A and K act on
\* another one than the operator chose: unless a row was evicted with its record.
SelectionKept ==
    [][Redraws /\ Range(rows) \subseteq Known
           => (Selected \in Range(rows') => Selected' = Selected)]_vars

\* The same for every refresh, as "restore cursor to the same connection" says
\* (tui.py:840, 947-948).
SelectionStays ==
    [][Redraws => (Selected \in Range(rows') => Selected' = Selected)]_vars

\* "n_active ~n_total" (tui.py:1123): every connection the panel counts as active
\* is in the total of its category, whatever resets came in between.
TotalsCoverActive ==
    [][Redraws => \A cat \in Category : totals'[cat] >= ActiveOf(cat)]_vars
=============================================================================
