---------------------------- MODULE ScreenProofs ----------------------------
(***************************************************************************)
(* What the user sees.  For every set of sizes and glyphs, every screen and *)
(* every number of changes, resizes and reattaches: the client shows a      *)
(* screen the server had, never a mixture of two (StateSync); and the       *)
(* terminal shows what the client's grid says, though the renderer paints   *)
(* only what changed (Renderer).                                            *)
(***************************************************************************)
EXTENDS StateSync, Renderer, TLAPS

\* The client's grid is right because the diffs in flight are (DiffsTruthful), and
\* those because the history agrees with what was sent (BaseAvailable).
IInv == TypeOK /\ GridIsSnapshot /\ BaseAvailable /\ DiffsTruthful

\* Grid::new gives a screen.
LEMMA NewGridType == \A d \in Dims : NewGrid(d) \in Screens
  BY BlankAssumption DEF NewGrid, Screens

\* encode_diff (diff.rs:93-118) gives a diff.
LEMMA EncodeType ==
    ASSUME NEW base \in Screens, NEW target \in Screens
    PROVE  EncodeFull(target) \in Diffs /\ EncodeDiff(base, target) \in Diffs
  <1> DEFINE changes == {i \in Cells : target.cells[i] # base.cells[i]}
  <1>1. EncodeFull(target) \in [full : BOOLEAN, dims : Dims, cells : [Cells -> Glyphs]]
    BY DEF EncodeFull, Screens
  <1>2. EncodeFull(target) \in Diffs
    BY <1>1 DEF Diffs
  <1>3. [full |-> FALSE, dims |-> target.dims, cells |-> [i \in changes |-> target.cells[i]]]
          \in [full : BOOLEAN, dims : Dims, cells : [changes -> Glyphs]]
    BY DEF Screens
  <1>4. changes \in SUBSET Cells
    OBVIOUS
  <1>5. [full |-> FALSE, dims |-> target.dims, cells |-> [i \in changes |-> target.cells[i]]]
          \in Diffs
    BY <1>3, <1>4, Zenon DEF Diffs
  <1>6. QED
    BY <1>2, <1>5 DEF EncodeDiff

\* A full snapshot makes any grid the target (diff.rs:145-152).
LEMMA FullYieldsTarget ==
    ASSUME NEW g \in Screens, NEW target \in Screens
    PROVE  ApplyDiff(g, EncodeFull(target)) = target
  BY DEF ApplyDiff, EncodeFull, Screens

\* A delta makes a grid with the cells of its base the target (diff.rs:153-165).
LEMMA DiffYieldsTarget ==
    ASSUME NEW g \in Screens, NEW base \in Screens, NEW target \in Screens,
           EncodeDiff(base, target).full \/ g.cells = base.cells
    PROVE  ApplyDiff(g, EncodeDiff(base, target)) = target
  <1>1. CASE base.dims # target.dims
    BY <1>1, FullYieldsTarget DEF EncodeDiff
  <1>2. CASE base.dims = target.dims
    <2> DEFINE changes == {i \in Cells : target.cells[i] # base.cells[i]}
               delta == [full |-> FALSE, dims |-> target.dims,
                         cells |-> [i \in changes |-> target.cells[i]]]
    <2>1. EncodeDiff(base, target) = delta
      BY <1>2 DEF EncodeDiff
    <2>2. g.cells = base.cells
      BY <2>1
    <2>3. /\ delta.dims = target.dims /\ DOMAIN delta.cells = changes
          /\ \A i \in changes : delta.cells[i] = target.cells[i]
      OBVIOUS
    <2> HIDE DEF delta
    <2>4. ApplyDiff(g, delta).cells = target.cells
      BY <2>2, <2>3 DEF ApplyDiff, Screens
    <2>5. QED
      BY <2>1, <2>3, <2>4 DEF ApplyDiff, Screens
  <1>3. QED
    BY <1>1, <1>2

\* Fresh shells satisfy the inductive invariant.
LEMMA InitIInv == Init => IInv
  <1> SUFFICES ASSUME Init PROVE IInv
    OBVIOUS
  <1>1. PICK d \in Dims :
          /\ screen = NewGrid(d) /\ last_sent = NewGrid(d) /\ grid = NewGrid(d)
          /\ seq = 0 /\ acked_seq = 0 /\ current_seq = 0
          /\ history = [k \in {0} |-> NewGrid(d)]
          /\ snap = [k \in {0} |-> NewGrid(d)]
          /\ force_full = FALSE /\ need_ack = FALSE
          /\ to_client = {} /\ to_server = {}
          /\ outputs = 0 /\ resizes = 0 /\ attaches = 0
    BY DEF Init
  <1>2. 0 .. 0 = {0} /\ NewGrid(d) \in Screens
    BY NewGridType
  <1>3. TypeOK
    <2>1. /\ DOMAIN history \subseteq 0 .. seq /\ DOMAIN snap = 0 .. seq
          /\ \A k \in DOMAIN history : history[k] \in Screens
          /\ \A k \in 0 .. seq : snap[k] \in Screens
      BY <1>1, <1>2
    <2>2. /\ outputs \in Nat /\ resizes \in Nat
          /\ attaches \in Nat
      BY <1>1
    <2>3. QED
      BY <1>1, <1>2, <2>1, <2>2, Zenon DEF TypeOK
  <1>4. GridIsSnapshot /\ BaseAvailable /\ DiffsTruthful
    BY <1>1 DEF GridIsSnapshot, BaseAvailable, DiffsTruthful
  <1>5. QED
    BY <1>3, <1>4 DEF IInv

\* poll_diff (shell.rs:104-131) gives a new number only to a new screen, and the diff
\* it sends is taken between screens both sides know.
LEMMA PollDiffIInv == ASSUME IInv, PollDiff PROVE IInv'
  <1> DEFINE changed == screen # last_sent
             n == IF changed THEN seq + 1 ELSE seq
             b == IF force_full THEN 0 ELSE acked_seq
             d == DiffToSend(screen)
             new == [seq |-> n, base |-> b, data |-> d]
  <1>1. /\ seq \in Nat /\ acked_seq \in Nat /\ acked_seq \in DOMAIN history
        /\ DOMAIN history \subseteq 0 .. seq /\ DOMAIN snap = 0 .. seq
        /\ acked_seq <= seq /\ screen \in Screens /\ last_sent = snap[seq]
    BY DEF IInv, TypeOK, BaseAvailable
  <1>2. /\ n # acked_seq /\ seq' = n /\ last_sent' = screen
        /\ to_client' = to_client \cup {new}
        /\ UNCHANGED <<screen, acked_seq, client, to_server, counts>>
        /\ force_full' = FALSE
    BY DEF PollDiff
  <1>3. n \in Nat /\ seq <= n /\ b \in Nat /\ b < n /\ b <= seq
    <2>1. n \in Nat /\ seq <= n /\ acked_seq < n
      BY <1>1, <1>2
    <2>2. b = 0 \/ b = acked_seq
      OBVIOUS
    <2>3. QED
      BY <1>1, <2>1, <2>2
  <1>4. /\ DOMAIN snap' = 0 .. n /\ snap'[n] = screen
        /\ \A k \in 0 .. seq : snap'[k] = snap[k]
    <2>1. CASE changed
      <3>1. snap' = [k \in (0 .. seq) \cup {seq + 1} |-> IF k = seq + 1 THEN screen ELSE snap[k]]
        BY <1>1, <2>1 DEF PollDiff
      <3>2. (0 .. seq) \cup {seq + 1} = 0 .. seq + 1
        BY <1>1
      <3>3. QED
        BY <1>1, <2>1, <3>1, <3>2
    <2>2. CASE ~changed
      BY <1>1, <2>2 DEF PollDiff
    <2>3. QED
      BY <2>1, <2>2
  <1>5. /\ DOMAIN history' \subseteq 0 .. n /\ acked_seq \in DOMAIN history'
        /\ \A k \in DOMAIN history' : history'[k] = snap'[k]
    <2>1. \A k \in DOMAIN history : history[k] = snap[k] /\ k \in 0 .. seq
      BY <1>1 DEF IInv, BaseAvailable
    <2>2. CASE changed
      <3>1. history' = [k \in DOMAIN history \cup {seq + 1} |->
                            IF k = seq + 1 THEN screen ELSE history[k]]
        BY <2>2 DEF PollDiff
      <3>2. QED
        BY <1>1, <1>4, <2>1, <2>2, <3>1
    <2>3. CASE ~changed
      BY <1>1, <1>4, <2>1, <2>3 DEF PollDiff
    <2>4. QED
      BY <2>2, <2>3
  <1>6. d \in {EncodeFull(snap'[n]), EncodeDiff(snap'[b], snap'[n])} /\ d \in Diffs
    <2>1. CASE force_full
      BY <1>1, <1>4, <2>1, EncodeType DEF DiffToSend
    <2>2. CASE ~force_full
      <3>1. history[acked_seq] = snap'[b] /\ history[acked_seq] \in Screens
        BY <1>1, <1>4, <2>2 DEF IInv, TypeOK, BaseAvailable
      <3>2. QED
        BY <1>1, <1>4, <2>2, <3>1, EncodeType DEF DiffToSend
    <2>3. QED
      BY <2>1, <2>2
  <1>7. new \in StateDiffs /\ new.seq = n /\ new.base = b /\ new.data = d
    BY <1>3, <1>6 DEF StateDiffs
  <1> HIDE DEF new, n, b, d
  <1>8. TypeOK'
    <2>1. to_client' \subseteq StateDiffs
      BY <1>2, <1>7 DEF IInv, TypeOK
    <2>2. \A k \in 0 .. n : snap'[k] \in Screens
      <3>1. ASSUME NEW k \in 0 .. n PROVE k \in 0 .. seq \/ k = n
        BY <1>1, <1>3 DEF n
      <3>2. QED
        BY <1>1, <1>4, <3>1 DEF IInv, TypeOK
    <2>3. \A k \in DOMAIN history' : history'[k] \in Screens
      BY <1>5, <2>2
    <2>4. QED
      BY <1>2, <1>3, <1>4, <1>5, <2>1, <2>2, <2>3, Zenon DEF IInv, TypeOK, client, counts
  <1>9. GridIsSnapshot'
    <2>1. current_seq \in 0 .. seq
      BY <1>1 DEF IInv, TypeOK, GridIsSnapshot
    <2>2. QED
      BY <1>1, <1>2, <1>3, <1>4, <2>1 DEF IInv, GridIsSnapshot, client
  <1>10. BaseAvailable'
    BY <1>2, <1>4, <1>5 DEF BaseAvailable
  <1>11. DiffsTruthful'
    <2>1. ASSUME NEW f \in to_client
          PROVE  /\ f.base < f.seq /\ f.seq <= n
                 /\ f.data \in {EncodeFull(snap'[f.seq]), EncodeDiff(snap'[f.base], snap'[f.seq])}
      <3>1. f.base \in Nat /\ f.seq \in Nat
        BY DEF IInv, TypeOK, StateDiffs
      <3>2. /\ f.base < f.seq /\ f.seq <= seq
            /\ f.data \in {EncodeFull(snap[f.seq]), EncodeDiff(snap[f.base], snap[f.seq])}
        BY DEF IInv, DiffsTruthful
      <3>3. f.seq \in 0 .. seq /\ f.base \in 0 .. seq
        BY <1>1, <3>1, <3>2
      <3>4. snap'[f.seq] = snap[f.seq] /\ snap'[f.base] = snap[f.base]
        BY <1>4, <3>3
      <3>5. f.seq <= n
        BY <1>1, <1>3, <3>1, <3>2
      <3>6. QED
        BY <3>2, <3>4, <3>5
    <2>2. /\ new.base < new.seq /\ new.seq <= n
          /\ new.data \in {EncodeFull(snap'[new.seq]), EncodeDiff(snap'[new.base], snap'[new.seq])}
      BY <1>3, <1>6, <1>7
    <2>3. QED
      BY <1>2, <2>1, <2>2 DEF DiffsTruthful
  <1>12. QED
    BY <1>8, <1>9, <1>10, <1>11 DEF IInv

\* apply_state_diff (shell.rs:183-193) turns the screen of one number into the screen
\* of another.
LEMMA ReceiveDiffIInv == ASSUME IInv, NEW f \in to_client, ReceiveDiff(f) PROVE IInv'
  <1>1. /\ f \in StateDiffs /\ f.seq \in Nat /\ f.base \in Nat
        /\ f.base < f.seq /\ f.seq <= seq
        /\ f.data \in {EncodeFull(snap[f.seq]), EncodeDiff(snap[f.base], snap[f.seq])}
    BY DEF IInv, TypeOK, DiffsTruthful, StateDiffs
  <1>2. snap[f.seq] \in Screens /\ snap[f.base] \in Screens /\ grid \in Screens /\ seq \in Nat
    BY <1>1 DEF IInv, TypeOK
  <1>3. /\ UNCHANGED <<server, to_server, counts>> /\ need_ack' = TRUE
        /\ to_client' \subseteq to_client
    BY DEF ReceiveDiff
  <1>4. CASE Applicable(f) /\ Applies(grid, f.data)
    <2>1. grid' = ApplyDiff(grid, f.data) /\ current_seq' = f.seq
      BY <1>4 DEF ReceiveDiff
    <2>2. f.data.full \/ grid.cells = snap[f.base].cells
      BY <1>4 DEF Applicable, IInv, GridIsSnapshot
    <2>3. ApplyDiff(grid, f.data) = snap[f.seq]
      <3>1. CASE f.data = EncodeFull(snap[f.seq])
        BY <1>2, <3>1, FullYieldsTarget
      <3>2. CASE f.data = EncodeDiff(snap[f.base], snap[f.seq])
        BY <1>2, <2>2, <3>2, DiffYieldsTarget
      <3>3. QED
        BY <1>1, <3>1, <3>2
    <2>4. GridIsSnapshot'
      BY <1>1, <1>3, <2>1, <2>3 DEF GridIsSnapshot, server
    <2>5. TypeOK'
      BY <1>1, <1>2, <1>3, <2>1, <2>3 DEF IInv, TypeOK, server, counts
    <2>6. QED
      BY <1>3, <2>4, <2>5 DEF IInv, BaseAvailable, DiffsTruthful, server
  <1>5. CASE ~(Applicable(f) /\ Applies(grid, f.data))
    <2>1. UNCHANGED <<grid, current_seq>>
      BY <1>5 DEF ReceiveDiff
    <2>2. QED
      BY <1>3, <2>1 DEF IInv, TypeOK, GridIsSnapshot, BaseAvailable, DiffsTruthful, server, counts
  <1>6. QED
    BY <1>4, <1>5

\* on_state_ack (shell.rs:82-88) prunes the history below the new base, not the base.
LEMMA ReceiveAckIInv == ASSUME IInv, NEW n \in to_server, ReceiveAck(n) PROVE IInv'
  <1>1. /\ UNCHANGED <<screen, seq, last_sent, force_full, snap, client, to_client, counts>>
        /\ to_server' \subseteq to_server /\ n \in Nat
    BY Zenon DEF ReceiveAck, IInv, TypeOK
  <1>2. CASE n > acked_seq /\ n \in DOMAIN history
    <2>1. /\ acked_seq' = n
          /\ history' = [k \in {j \in DOMAIN history : j >= n} |-> history[k]]
      BY <1>2 DEF ReceiveAck, OnStateAck
    <2>2. /\ acked_seq' \in DOMAIN history' /\ DOMAIN history' \subseteq DOMAIN history
          /\ \A k \in DOMAIN history' : history'[k] = history[k]
      BY <1>1, <1>2, <2>1
    <2>3. QED
      BY <1>1, <2>1, <2>2
      DEF IInv, TypeOK, GridIsSnapshot, BaseAvailable, DiffsTruthful, client, counts
  <1>3. CASE ~(n > acked_seq /\ n \in DOMAIN history)
    <2>1. UNCHANGED <<acked_seq, history>>
      BY <1>3 DEF ReceiveAck, OnStateAck
    <2>2. QED
      BY <1>1, <2>1
      DEF IInv, TypeOK, GridIsSnapshot, BaseAvailable, DiffsTruthful, client, counts
  <1>4. QED
    BY <1>2, <1>3

\* rebind_to_new_client (shell.rs:49-58) starts both sides from a blank screen.
LEMMA RebindIInv == ASSUME IInv, NEW d \in Dims, RebindToNewClient(d) PROVE IInv'
  <1> DEFINE blank == NewGrid(screen.dims)
  <1>1. /\ acked_seq' = 0 /\ history' = [k \in {0} |-> blank] /\ last_sent' = blank
        /\ force_full' = TRUE /\ snap' = [k \in DOMAIN snap |-> blank]
        /\ grid' = NewGrid(d) /\ current_seq' = 0 /\ need_ack' = FALSE
        /\ to_client' = {} /\ to_server' = {}
        /\ UNCHANGED <<screen, seq, outputs, resizes>>
    BY DEF RebindToNewClient
  <1>2. attaches' \in Nat
    BY DEF RebindToNewClient, IInv, TypeOK
  <1>3. blank \in Screens /\ NewGrid(d) \in Screens /\ blank.cells = NewGrid(d).cells
    BY NewGridType DEF IInv, TypeOK, Screens, NewGrid
  <1>4. seq \in Nat /\ 0 \in 0 .. seq /\ seq \in 0 .. seq /\ DOMAIN snap = 0 .. seq
    BY DEF IInv, TypeOK
  <1> HIDE DEF blank
  <1>5. TypeOK'
    BY <1>1, <1>2, <1>3, <1>4, Zenon DEF IInv, TypeOK
  <1>6. GridIsSnapshot' /\ BaseAvailable' /\ DiffsTruthful'
    BY <1>1, <1>3, <1>4 DEF GridIsSnapshot, BaseAvailable, DiffsTruthful
  <1>7. QED
    BY <1>5, <1>6 DEF IInv

\* Every step of state synchronisation preserves the inductive invariant.
LEMMA NextIInv == IInv /\ [Next]_vars => IInv'
  <1> SUFFICES ASSUME IInv, [Next]_vars PROVE IInv'
    OBVIOUS
  <1>1. ASSUME NEW s \in Screens, FeedOutput(s) PROVE IInv'
    <2>1. outputs' \in Nat
      BY <1>1 DEF FeedOutput, IInv, TypeOK
    <2>2. QED
      BY <1>1, <2>1
      DEF FeedOutput, IInv, TypeOK, GridIsSnapshot, BaseAvailable, DiffsTruthful, client
  <1>2. ASSUME NEW d \in Dims, Resize(d) PROVE IInv'
    <2>1. resizes' \in Nat
      BY <1>2 DEF Resize, IInv, TypeOK
    <2>2. screen' \in Screens
      BY <1>2, BlankAssumption DEF Resize, Resized, Screens, IInv, TypeOK
    <2>3. QED
      BY <1>2, <2>1, <2>2
      DEF Resize, IInv, TypeOK, GridIsSnapshot, BaseAvailable, DiffsTruthful, client
  <1>3. CASE PollDiff
    BY <1>3, PollDiffIInv
  <1>4. ASSUME NEW f \in to_client, ReceiveDiff(f) PROVE IInv'
    BY <1>4, ReceiveDiffIInv
  <1>5. CASE SendAck
    BY <1>5, Zenon
    DEF SendAck, IInv, TypeOK, GridIsSnapshot, BaseAvailable, DiffsTruthful, server, counts
  <1>6. ASSUME NEW n \in to_server, ReceiveAck(n) PROVE IInv'
    BY <1>6, ReceiveAckIInv
  <1>7. ASSUME NEW d \in Dims, RebindToNewClient(d) PROVE IInv'
    BY <1>7, RebindIInv
  <1>8. ASSUME NEW f \in to_client, LoseDiff(f) PROVE IInv'
    BY <1>8
    DEF LoseDiff, IInv, TypeOK, GridIsSnapshot, BaseAvailable, DiffsTruthful, server, client, counts
  <1>9. ASSUME NEW n \in to_server, LoseAck(n) PROVE IInv'
    BY <1>9
    DEF LoseAck, IInv, TypeOK, GridIsSnapshot, BaseAvailable, DiffsTruthful, server, client, counts
  <1>10. CASE UNCHANGED vars
    BY <1>10
    DEF vars, IInv, TypeOK, GridIsSnapshot, BaseAvailable, DiffsTruthful, server, client, counts
  <1>11. QED
    BY <1>1, <1>2, <1>3, <1>4, <1>5, <1>6, <1>7, <1>8, <1>9, <1>10 DEF Next

\* The inductive invariant holds of every behaviour.
LEMMA SyncIInv == Spec => []IInv
  BY InitIInv, NextIInv, PTL DEF Spec

\* Both shells and the frames in flight keep their types (shell.rs:19-27, 136-141).
THEOREM SyncTypeCorrect == Spec => []TypeOK
  BY SyncIInv, PTL DEF IInv

\* Whatever is lost, reordered or sent twice, the client shows exactly the screen its
\* current_seq stands for (shell.rs:183-193), and the server can always compute the next
\* diff from the acknowledged screen (shell.rs:82-88, 118-124).
THEOREM SyncScreensAgree == Spec => []ScreensAgree
  BY SyncIInv, PTL DEF IInv, ScreensAgree

\* No diff in flight is ever wrong about the screens it names (shell.rs:104-131).
THEOREM SyncDiffsTruthful == Spec => []DiffsTruthful
  BY SyncIInv, PTL DEF IInv

-----------------------------------------------------------------------------
\* The renderer.  What the terminal shows, and what was painted on it last, is a screen:
\* some rows, whatever they hold, and a cursor.
IsScreen(s) ==
    /\ s = [rows |-> s.rows, cursor |-> s.cursor, visible |-> s.visible]
    /\ \E n \in 1..MaxRows : s.rows \in [1..n -> {s.rows[i] : i \in 1..n}]

\* As long as the terminal keeps its size, the loop knows it.
RendererIInv ==
    /\ IsScreen(tty)
    /\ last # NoGrid => IsScreen(last)
    /\ resized \in BOOLEAN /\ unseen \in BOOLEAN
    /\ ~resized => last_size = Len(tty.rows)
    /\ PaintExact

\* A screen is as high as its rows are many.
LEMMA ScreenFacts ==
  ASSUME NEW s, IsScreen(s)
  PROVE  /\ Len(s.rows) \in 1..MaxRows /\ DOMAIN s.rows = 1..Len(s.rows)
         /\ s.rows = [r \in 1..Len(s.rows) |-> s.rows[r]]
  <1>1. PICK n \in 1..MaxRows : s.rows \in [1..n -> {s.rows[i] : i \in 1..n}]
    BY DEF IsScreen
  <1>2. n \in Nat
    BY RendererAssumption
  <1>3. Len(s.rows) = n
    BY <1>1, <1>2
  <1>4. QED
    BY <1>1, <1>3

\* What makes a screen.
LEMMA MakesScreen ==
  ASSUME NEW n \in 1..MaxRows, NEW rows, NEW c, NEW v, rows = [r \in 1..n |-> rows[r]]
  PROVE  IsScreen([rows |-> rows, cursor |-> c, visible |-> v]) /\ Len(rows) = n
  <1>1. n \in Nat
    BY RendererAssumption
  <1>2. rows \in [1..n -> {rows[i] : i \in 1..n}]
    OBVIOUS
  <1>3. QED
    BY <1>1, <1>2 DEF IsScreen

\* A grid, stamped or not, is a screen of its size.
LEMMA StampedFacts ==
  ASSUME NEW g \in Grids, NEW b \in BOOLEAN
  PROVE  /\ IsScreen(Stamped(g, b))
         /\ Stamped(g, b).cursor \in 1..Len(Stamped(g, b).rows)
  <1>1. PICK n \in 1..MaxRows : g \in [rows : [1..n -> Texts], cursor : 1..n, visible : BOOLEAN]
    BY DEF Grids
  <1> DEFINE s == Stamped(g, b)
  <1>2. /\ s = [rows |-> s.rows, cursor |-> g.cursor, visible |-> g.visible]
        /\ s.rows = [r \in 1..n |-> s.rows[r]]
    <2>1. CASE b
      <3>1. s = [g EXCEPT !.rows = [g.rows EXCEPT ![1] = "banner"]]
        BY <2>1 DEF Stamped
      <3>2. QED
        BY <1>1, <3>1, Zenon
    <2>2. CASE ~b
      BY <1>1, <2>2 DEF Stamped
    <2>3. QED
      BY <2>1, <2>2
  <1> HIDE DEF s
  <1>3. IsScreen([rows |-> s.rows, cursor |-> g.cursor, visible |-> g.visible]) /\ Len(s.rows) = n
    BY <1>2, MakesScreen
  <1>4. g.cursor \in 1..n
    BY <1>1
  <1>5. s.cursor = g.cursor
    BY <1>2
  <1>6. QED
    BY <1>2, <1>3, <1>4, <1>5 DEF s

\* A cleared terminal is a screen.
LEMMA ClearedFacts ==
  ASSUME NEW n \in 1..MaxRows, NEW v
  PROVE  /\ IsScreen([rows |-> Cleared(n), cursor |-> 1, visible |-> v])
         /\ Len(Cleared(n)) = n
  <1>1. Cleared(n) = [r \in 1..n |-> Cleared(n)[r]]
    BY DEF Cleared
  <1>2. QED
    BY <1>1, MakesScreen

\* A turn of the loop paints the grid: only the changed rows if the terminal shows what
\* was painted last, and all of them if the size is new (tty.rs:163-244).
LEMMA PaintKeeps ==
  ASSUME RendererIInv, NEW g \in Grids, NEW b \in BOOLEAN, Paint(g, b)
  PROVE  RendererIInv'
  <1> DEFINE s == Stamped(g, b)
             seen == Len(tty.rows) # last_size
             before == IF seen THEN NoGrid ELSE last
             changed == ChangedRows(before, s)
             height == Len(tty.rows)
  <1>1. IsScreen(s) /\ s.cursor \in 1..Len(s.rows)
    BY StampedFacts
  <1>2. /\ Len(s.rows) \in Nat \ {0} /\ DOMAIN s.rows = 1..Len(s.rows)
        /\ s.rows = [r \in 1..Len(s.rows) |-> s.rows[r]]
        /\ s = [rows |-> s.rows, cursor |-> s.cursor, visible |-> s.visible]
    BY <1>1, ScreenFacts, RendererAssumption DEF IsScreen
  <1>3. /\ tty' = Painted(before, s) /\ last' = s /\ last_size' = height
        /\ resized' = FALSE /\ unseen' = (~seen /\ (unseen \/ resized))
    BY DEF Paint
  <1>4. height \in 1..MaxRows
    BY ScreenFacts, Zenon DEF RendererIInv
  <1>5. /\ tty' = [rows |-> tty'.rows, cursor |-> tty'.cursor, visible |-> tty'.visible]
        /\ tty'.rows = [r \in 1..height |-> tty'.rows[r]]
    BY <1>3 DEF Painted
  <1>6. IsScreen(tty') /\ Len(tty'.rows) = height
    BY <1>4, <1>5, MakesScreen
  <1>7. ASSUME Len(s.rows) = height, ~unseen' PROVE tty' = s
    <2>1. changed \subseteq 1..height
      BY <1>2, <1>7 DEF ChangedRows
    <2>2. /\ \A r \in 1..height : tty'.rows[r] = IF r \in changed THEN s.rows[r] ELSE tty.rows[r]
          /\ tty'.cursor = IF changed = {} /\ before.cursor = s.cursor THEN tty.cursor ELSE s.cursor
          /\ tty'.visible = CursorShown(before, s, changed # {})
      <3> DEFINE onRow(r) == {c \in changed : c = r \/ (r = height /\ c > height)}
                 lowest(S) == CHOOSE c \in S : \A d \in S : d <= c
      <3> HIDE DEF changed, before, s, height
      <3>1. ASSUME NEW r \in 1..height
            PROVE  tty'.rows[r] = IF onRow(r) = {} THEN tty.rows[r] ELSE s.rows[lowest(onRow(r))]
        BY <1>3 DEF Painted, changed, height
      <3>2. ASSUME NEW r \in 1..height PROVE onRow(r) = IF r \in changed THEN {r} ELSE {}
        <4>1. ASSUME NEW c PROVE c \in onRow(r) <=> (c \in changed /\ c = r)
          <5>1. height \in Nat
            BY <1>4, RendererAssumption
          <5>2. c \in changed => ~(c > height)
            BY <2>1, <5>1
          <5>3. QED
            BY <5>2
        <4> HIDE DEF onRow
        <4> QED
          BY <4>1
      <3>3. ASSUME NEW r \in 1..height PROVE lowest({r}) = r
        BY <1>4
      <3>4. \A r \in 1..height : tty'.rows[r] = IF r \in changed THEN s.rows[r] ELSE tty.rows[r]
        <4> HIDE DEF onRow, lowest
        <4> QED
          BY <3>1, <3>2, <3>3
      <3>5. s.cursor <= height
        BY <1>1, <1>7, <1>4
      <3>6. /\ tty'.cursor = IF changed = {} /\ before.cursor = s.cursor THEN tty.cursor ELSE s.cursor
            /\ tty'.visible = CursorShown(before, s, changed # {})
        BY <1>3, <3>5 DEF Painted, changed, height
      <3>7. QED
        BY <3>4, <3>6
    <2>3. CASE Len(before.rows) # height
      <3>1. changed = 1..height /\ changed # {}
        BY <1>2, <1>7, <2>3, <1>4 DEF ChangedRows
      <3>2. tty'.rows = s.rows
        BY <1>2, <1>5, <1>7, <2>2, <3>1
      <3>3. tty'.cursor = s.cursor /\ tty'.visible = s.visible
        BY <2>2, <3>1 DEF CursorShown
      <3>4. QED
        BY <1>2, <1>5, <3>2, <3>3
    <2>4. CASE Len(before.rows) = height
      <3>1. before # NoGrid
        BY <2>4, <1>4 DEF NoGrid
      <3>2. ~seen /\ ~unseen /\ ~resized /\ before = last
        BY <1>3, <1>7, <3>1 DEF RendererIInv
      <3>3. tty = before
        BY <2>4, <3>1, <3>2 DEF RendererIInv, PaintExact
      <3>4. ASSUME NEW r \in 1..height PROVE tty'.rows[r] = s.rows[r]
        BY <1>2, <1>7, <2>2, <3>3, <2>4 DEF ChangedRows
      <3>5. tty'.rows = s.rows
        BY <1>2, <1>5, <1>7, <3>4
      <3>6. tty'.cursor = s.cursor
        BY <2>2, <3>3
      <3>7. tty'.visible = s.visible
        BY <2>2, <3>3 DEF CursorShown
      <3>8. QED
        BY <1>2, <1>5, <3>5, <3>6, <3>7
    <2>5. QED
      BY <2>3, <2>4
  <1>8. PaintExact'
    BY <1>3, <1>6, <1>7 DEF PaintExact
  <1>9. QED
    BY <1>1, <1>3, <1>6, <1>8, Zenon DEF RendererIInv

\* Every step of the renderer keeps its invariant.
LEMMA RendererNextKeeps == RendererIInv /\ [RendererNext]_rendererVars => RendererIInv'
  <1> SUFFICES ASSUME RendererIInv, [RendererNext]_rendererVars PROVE RendererIInv'
    OBVIOUS
  <1>1. ASSUME NEW g \in Grids, NEW b \in BOOLEAN, Paint(g, b) PROVE RendererIInv'
    BY <1>1, PaintKeeps
  <1>2. ASSUME NEW n \in 1..MaxRows, ResizeTty(n) PROVE RendererIInv'
    <2>1. tty' = [rows |-> Cleared(n), cursor |-> 1, visible |-> tty.visible]
      BY <1>2, Zenon DEF ResizeTty, RendererIInv, IsScreen
    <2>2. IsScreen(tty')
      BY <2>1, ClearedFacts
    <2>3. resized' = TRUE /\ UNCHANGED <<last, unseen>>
      BY <1>2 DEF ResizeTty
    <2>4. QED
      BY <2>2, <2>3 DEF RendererIInv, PaintExact
  <1>3. CASE UNCHANGED rendererVars
    BY <1>3 DEF rendererVars, RendererIInv, PaintExact
  <1>4. QED
    BY <1>1, <1>2, <1>3 DEF RendererNext

\* It holds of a cleared terminal on which nothing is painted yet.
LEMMA RendererInitHolds == RendererInit => RendererIInv
  <1> SUFFICES ASSUME RendererInit PROVE RendererIInv
    OBVIOUS
  <1>1. PICK n \in 1..MaxRows : /\ tty = [rows |-> Cleared(n), cursor |-> 1, visible |-> TRUE]
                                /\ last_size = n
    BY Zenon DEF RendererInit
  <1>2. IsScreen(tty) /\ Len(tty.rows) = n
    BY <1>1, ClearedFacts
  <1>3. QED
    BY <1>1, <1>2, Zenon DEF RendererInit, RendererIInv, PaintExact

\* Whatever grids are painted, with and without the banner, and whatever sizes the
\* terminal is given, painting only what changed shows the same as painting all
\* (tty.rs:163-244, status.rs:49-66).
THEOREM RendererPaintExact == RendererSpec => []PaintExact
  <1>1. RendererIInv => PaintExact
    BY DEF RendererIInv
  <1>2. QED
    BY <1>1, RendererInitHolds, RendererNextKeeps, PTL DEF RendererSpec

============================================================================
