---------------------------- MODULE LinePrefetchers ----------------------------
(* The prefetchers next_line, ip_stride and va_ampm_lite: the calls a cache    *)
(* makes, on block numbers that wrap at LP_LINES. The prefetch queue takes     *)
(* `room' more lines during one call. A call of va_ampm_lite that finds its    *)
(* page takes several steps, one for each distance it tries.                   *)
EXTENDS LruTable

CONSTANTS
  LP_LINES, LP_PAGE,     \* block numbers; blocks of a page
  LineAccesses,          \* the pairs <<ip, line>> the program may touch
  TRACKER_SETS, TRACKER_WAYS, STRIDE_DEGREE,
  REGION_WAYS, MAX_DISTANCE, AMPM_DEGREE,
  virtual_prefetch,
  MaxLineAccesses        \* bound

ASSUME LineAssumption ==
  /\ {LP_LINES, LP_PAGE, TRACKER_SETS, TRACKER_WAYS, REGION_WAYS, STRIDE_DEGREE} \subseteq Nat \ {0}
  /\ {MAX_DISTANCE, AMPM_DEGREE} \subseteq Nat
  /\ LineAccesses \subseteq Nat \X (0 .. LP_LINES - 1)

VARIABLES
  kind,      \* the module that is built in
  tracker,   \* ip_stride::table
  active_lookahead,  \* a set of at most one [line, stride, degree]
  regions,   \* va_ampm_lite::regions
  search,    \* the locals of a call of va_ampm_lite that looks for lines
  history,   \* the accesses <<ip, line>>
  wanted     \* [lines, standing]: what the last step asked for; what was asked for before
             \* in regions tracked ever since
lineVars == <<kind, tracker, active_lookahead, regions, search, history, wanted>>

Line(n) == n % LP_LINES
PageOf(l) == l \div LP_PAGE

NoSearch == [direction |-> 0, i |-> 1, issued |-> 0, room |-> 0]

LineInit ==
  /\ kind \in {"next_line", "ip_stride", "va_ampm_lite"}
  /\ tracker = NewTable(TRACKER_SETS, TRACKER_WAYS)
  /\ active_lookahead = {}
  /\ regions = NewTable(1, REGION_WAYS)
  /\ search = NoSearch
  /\ history = <<>>
  /\ wanted = [lines |-> {}, standing |-> {}]

-------------------------------------------------------------------------------
(* ip_stride: instructions are told apart by their address without two bits. *)
Tracked(ip, l, stride) ==
  [index |-> ip \div 4, tag |-> ip \div 4, last_cl_addr |-> l, last_stride |-> stride]

(* The stride and the entry's last one; an ip that is not found has stride 0. *)
StrideOf(ip, l) ==
  LET entry == Tracked(ip, l, 0)
  IN  IF Hits(tracker, entry) THEN l - DataOf(tracker, entry).last_cl_addr ELSE 0

StartsLookahead(ip, l) ==
  /\ StrideOf(ip, l) # 0
  /\ StrideOf(ip, l) = DataOf(tracker, Tracked(ip, l, 0)).last_stride

StrideOperate(ip, l) ==
  LET looked == CheckHit(tracker, Tracked(ip, l, 0))
  IN  /\ tracker' = Fill(looked, Tracked(ip, l, StrideOf(ip, l)))
      /\ active_lookahead' = IF StartsLookahead(ip, l)
                             THEN {[line |-> l, stride |-> StrideOf(ip, l), degree |-> STRIDE_DEGREE]}
                             ELSE active_lookahead
      /\ wanted' = [wanted EXCEPT !.lines = {}]
      /\ UNCHANGED <<regions, search>>

(* prefetcher_cycle_operate: one step ahead, within the page. *)
StrideCycle(room) ==
  /\ kind = "ip_stride"
  /\ \E ahead \in active_lookahead :
       LET next == Line(ahead.line + ahead.stride)
           left == [line |-> next, stride |-> ahead.stride, degree |-> ahead.degree - 1]
           stays == virtual_prefetch \/ PageOf(next) = PageOf(ahead.line)
           taken == stays /\ room > 0
       IN  /\ active_lookahead' = IF taken THEN {a \in {left} : a.degree # 0}
                                  ELSE {a \in {ahead} : stays}
           /\ wanted' = [wanted EXCEPT !.lines = {n \in {next} : taken}]
  /\ UNCHANGED <<kind, tracker, regions, search, history>>

-------------------------------------------------------------------------------
(* va_ampm_lite: a region is a page, with the blocks accessed and prefetched. *)
Region(l) == [index |-> PageOf(l), tag |-> PageOf(l), access_map |-> {}, prefetch_map |-> {}]
Mapped(table, l) == IF Hits(table, Region(l)) THEN DataOf(table, Region(l)) ELSE Region(l)
check_cl_access(table, l) == l \in Mapped(table, l).access_map
check_cl_prefetch(table, l) == l \in Mapped(table, l).prefetch_map

MarkAccess(table, l) == Fill(table, [Mapped(table, l) EXCEPT !.access_map = @ \cup {l}])
MarkPrefetch_Unmarked(table, l) == CheckHit(table, Region(l))    \* mutant
MarkPrefetch(table, l) ==
  Fill(CheckHit(table, Region(l)), [Mapped(table, l) EXCEPT !.prefetch_map = @ \cup {l}])

(* The line of this step, if it is to be asked for, and the table after all    *)
(* the looks at it, as far as the conjunction of the code goes.                *)
Fresh(l, d) ==
  /\ check_cl_access(regions, Line(l - d)) /\ check_cl_access(regions, Line(l - 2 * d))
  /\ ~check_cl_access(regions, Line(l + d)) /\ ~check_cl_prefetch(regions, Line(l + d))
Looked(l, d) ==
  LET near == CheckHit(regions, Region(Line(l - d)))
      far == CheckHit(near, Region(Line(l - 2 * d)))
      ahead == CheckHit(far, Region(Line(l + d)))
  IN  CASE ~check_cl_access(regions, Line(l - d)) -> near
        [] check_cl_access(regions, Line(l - d)) /\ ~check_cl_access(regions, Line(l - 2 * d)) -> far
        [] OTHER -> IF check_cl_access(regions, Line(l + d)) THEN ahead
                    ELSE CheckHit(ahead, Region(Line(l + d)))

StillTracked == {b \in wanted.standing \cup wanted.lines : Hits(regions, Region(b))}

(* An access to a page that is not tracked makes room for it and marks nothing. *)
AmpmOperate(l, room) ==
  LET looked == CheckHit(regions, Region(l))
      tracked == Hits(regions, Region(l))
  IN  /\ regions' = IF tracked THEN MarkAccess(looked, l) ELSE Fill(looked, Region(l))
      /\ search' = IF tracked THEN [NoSearch EXCEPT !.direction = 1, !.room = room] ELSE NoSearch
      /\ wanted' = [lines |-> {}, standing |-> StillTracked]
      /\ UNCHANGED <<tracker, active_lookahead>>

(* One pass of the inner loop; a line the queue refuses does not count. *)
AmpmStep ==
  LET l == history[Len(history)][2]
      d == IF search.direction = 1 THEN search.i ELSE -search.i
      taken == Fresh(l, d) /\ Line(l + d) # l /\ search.room > 0
  IN  /\ search.direction # 0 /\ search.i <= MAX_DISTANCE /\ search.issued < AMPM_DEGREE
      /\ regions' = IF taken THEN MarkPrefetch(Looked(l, d), Line(l + d)) ELSE Looked(l, d)
      /\ search' = [search EXCEPT !.i = @ + 1, !.issued = IF taken THEN @ + 1 ELSE @,
                                  !.room = IF taken THEN @ - 1 ELSE @]
      /\ wanted' = [lines |-> {b \in {Line(l + d)} : taken}, standing |-> StillTracked]
      /\ UNCHANGED <<kind, tracker, active_lookahead, history>>

(* The end of the inner loop: the other direction, or the end of the call. *)
AmpmTurn ==
  /\ search.direction # 0 /\ (search.i > MAX_DISTANCE \/ search.issued >= AMPM_DEGREE)
  /\ search' = IF search.direction = 1 THEN [NoSearch EXCEPT !.direction = -1, !.room = search.room]
               ELSE NoSearch
  /\ UNCHANGED <<kind, tracker, active_lookahead, regions, history, wanted>>

-------------------------------------------------------------------------------
(* prefetcher_cache_operate of the module that is built in. *)
LineOperate(ip, l, room) ==
  /\ search.direction = 0
  /\ Len(history) < MaxLineAccesses
  /\ history' = Append(history, <<ip, l>>)
  /\ UNCHANGED kind
  /\ \/ /\ kind = "next_line"
        /\ wanted' = [wanted EXCEPT !.lines = {Line(l + 1)}]
        /\ UNCHANGED <<tracker, active_lookahead, regions, search>>
     \/ kind = "ip_stride" /\ StrideOperate(ip, l)
     \/ kind = "va_ampm_lite" /\ AmpmOperate(l, room)

LineNext ==
  \/ \E a \in LineAccesses, room \in {0, 1, 2 * AMPM_DEGREE} : LineOperate(a[1], a[2], room)
  \/ \E room \in {0, 1} : StrideCycle(room)
  \/ AmpmStep \/ AmpmTurn

LineSpec == LineInit /\ [][LineNext]_lineVars

-------------------------------------------------------------------------------
(* Access number q is the last one before number m that ip_stride takes for    *)
(* one of the same instruction.                                                *)
SameIp(q, m) == history[q][1] \div 4 = history[m][1] \div 4
Precedes(q, m) ==
  /\ q \in DOMAIN history /\ q < m /\ SameIp(q, m)
  /\ \A k \in DOMAIN history : q < k /\ k < m => ~SameIp(k, m)

(* The line is one to STRIDE_DEGREE strides ahead of an access that came two   *)
(* equal strides after another one of its instruction, and in its page.        *)
OnAStride(line) ==
  \E p, q, m \in DOMAIN history :
    LET stride == history[m][2] - history[q][2]
    IN  /\ Precedes(p, q) /\ Precedes(q, m)
        /\ stride # 0 /\ stride = history[q][2] - history[p][2]
        /\ \E k \in 1 .. STRIDE_DEGREE : line = Line(history[m][2] + k * stride)
        /\ virtual_prefetch \/ PageOf(line) = PageOf(history[m][2])

(* The line continues a pattern of two accessed blocks, was not asked for     *)
(* since its page came into the table, and is as far as the two are apart.    *)
OnAPattern(line) ==
  LET l == history[Len(history)][2]
      seen == {history[m][2] : m \in DOMAIN history}
  IN  /\ line \notin wanted.standing
      /\ \E d \in (1 .. MAX_DISTANCE) \cup {-n : n \in 1 .. MAX_DISTANCE} :
           line = Line(l + d) /\ {Line(l - d), Line(l - 2 * d)} \subseteq seen

(* What the modules ask for has its reason in the accesses so far, whatever    *)
(* instructions and pages were thrown out of their tables in between           *)
(* (ip_stride.cc, va_ampm_lite.cc, next_line.cc).                              *)
PrefetchesHaveReasons ==
  \A line \in wanted.lines :
    CASE kind = "next_line" -> line = Line(history[Len(history)][2] + 1)
      [] kind = "ip_stride" -> OnAStride(line)
      [] OTHER -> OnAPattern(line)
===============================================================================
