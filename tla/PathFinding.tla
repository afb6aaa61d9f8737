---------------------------- MODULE PathFinding ----------------------------
(* A path finding session (PathFinding/algorithm.cpp): A* over the distance *)
(* map of a field, in passes that a time limit may interrupt and a later    *)
(* call takes up again.  A session is made once and reset for every search; *)
(* its arrays are allocated on the first reset and keep their contents.     *)
(* One action per pass of the loop.  The arrays hold 5000, 480000, 160000   *)
(* and 200000 entries and are not checked for room; the fields here stay    *)
(* far below.                                                               *)
EXTENDS DistanceMap

CONSTANTS Requests,     \* what a new session may be asked for: records of
                        \* field, start, dest and weight
          MoreRequests, \* what a session may be asked for after that
          Loops,        \* passes between two looks at the clock (50)
          Answers       \* which of run, runref and runcount is called

VARIABLES session, \* CalcPath_session
          request, \* what the session was last reset to look for
          used,    \* resets so far
          call,    \* the call that is running, or "none"
          loop,    \* passes since the clock was looked at
          answer   \* what the last call returned: the code and the path

pathVars == <<session, request, used, call, loop, answer>>

Unknown == 999999    \* lookup of a cell no path has reached
NoAnswer == [code |-> 0, path |-> <<>>]

(* Coordinates are unsigned shorts: one to the left of column 0 is 65535. *)
Pos(x, y) == [x |-> x % 65536, y |-> y % 65536]

AbsDiff(a, b) == IF a > b THEN a - b ELSE b - a
Distance(p, q) == AbsDiff(p.x, q.x) + AbsDiff(p.y, q.y)

Index(s, p) == p.y * s.width + p.x + 1

(* CalcPath_getMap: a cell outside the map is a wall.  The distance comes   *)
(* back as a signed char; a field whose every cell has a wall within 127    *)
(* steps reads the same.                                                    *)
GetMap(s, p) ==
    IF p.x >= s.width \/ p.y >= s.height THEN 0 ELSE s.map[Index(s, p)]

(* CalcPath_new *)
PathInit ==
    /\ session = [first_time |-> TRUE]
    /\ request = <<>> /\ used = 0 /\ call = "none" /\ loop = 0 /\ answer = NoAnswer

(* reset and CalcPath_init.  Callers hand over the field's distance map and *)
(* start on the map; where the last search got to is forgotten.             *)
InitialSession(r) ==
    LET width == r.field.width
        first == [p |-> r.start, g |-> 0, f |-> Distance(r.start, r.dest), parent |-> -1]
    IN  [first_time |-> FALSE,
         map |-> MakeDistMap(r.field), width |-> width, height |-> r.field.height,
         weight |-> r.weight, start |-> r.start, dest |-> r.dest,
         solution |-> <<>>, fullList |-> <<first>>,
         openList |-> <<[val |-> first.f, index |-> 1]>>,
         lookup |-> Computed([i \in DOMAIN r.field.raw |-> Unknown])]

Reset(r) ==
    /\ call = "none"
    /\ session' = LET s == InitialSession(r)
                  IN  [s EXCEPT !.lookup[Index(s, r.start)] = 0]
    /\ request' = r
    /\ used' = used + 1
    /\ answer' = NoAnswer
    /\ UNCHANGED <<call, loop>>

-----------------------------------------------------------------------------
(* The open list is ordered by falling estimate, the best entry last.       *)
(* QuickfindFloatMax halves the list until it knows where val belongs;      *)
(* positions here count from 0, as in the code.                             *)
RECURSIVE QuickfindFloatMax(_, _, _, _)
QuickfindFloatMax(a, val, lo, hi) ==
    LET x   == (lo + hi) \div 2
        mid == a[x + 1].val
    IN  IF val = mid THEN x
        ELSE IF x # hi - 1 /\ val < mid THEN QuickfindFloatMax(a, val, x, hi)
        ELSE IF x # lo /\ val > mid THEN QuickfindFloatMax(a, val, lo, x)
        ELSE IF val < mid THEN x + 1 ELSE x

(* Mutant: the newest entry is taken to be the best. *)
OpenedLast(openList, entry) == Append(openList, entry)

Opened(openList, entry) ==
    LET found == IF openList = <<>> THEN 0
                 ELSE QuickfindFloatMax(openList, entry.val, 0, Len(openList))
    IN  InsertAt(openList, found + 1, entry)

(* The four neighbours in the order the code looks at them: left, up on the *)
(* page, right, down.  Walls and the cell the search came from are left out.*)
Successors(s, cur) ==
    LET p == s.fullList[cur].p
        parent == s.fullList[cur].parent
        Open(q) == GetMap(s, q) # 0 /\ (parent = -1 \/ s.fullList[parent].p # q)
    IN  SelectSeq(<<Pos(p.x - 1, p.y), Pos(p.x, p.y - 1),
                    Pos(p.x + 1, p.y), Pos(p.x, p.y + 1)>>, Open)

(* Every successor takes a place in the full list; only one that is cheaper *)
(* than what is known of its cell gets its values and is opened.            *)
Visit(s, cur, q) ==
    LET newg == s.fullList[cur].g + s.weight[GetMap(s, q)]
        f    == newg + Distance(q, s.dest)
        suc  == Len(s.fullList) + 1
    IN  IF newg >= s.lookup[Index(s, q)]
        THEN [s EXCEPT !.fullList = Append(@, [p |-> q])]
        ELSE [s EXCEPT !.fullList = Append(@, [p |-> q, g |-> newg, f |-> f,
                                               parent |-> cur]),
                       !.lookup[Index(s, q)] = newg,
                       !.openList = Opened(@, [val |-> f, index |-> suc])]

Expanded(s, cur) ==
    FoldLeft(LAMBDA t, q : Visit(t, cur, q), s, Successors(s, cur))

(* From the destination back to the start. *)
RECURSIVE Traced(_, _)
Traced(fullList, cur) ==
    IF cur = -1 THEN <<>>
    ELSE <<fullList[cur].p>> \o Traced(fullList, fullList[cur].parent)

-----------------------------------------------------------------------------
(* run, runref and runcount: CalcPath_pathStep, and its result for Perl.    *)
(* Callers reset the session before each new search.                        *)
Return(code, path) ==
    /\ answer' = [code |-> code, path |-> path]
    /\ call' = "none" /\ loop' = 0
    /\ UNCHANGED <<request, used>>

Run(name) ==
    /\ call = "none" /\ answer.code = 0
    /\ IF session.first_time
       THEN Return(-1, <<>>) /\ UNCHANGED session
       ELSE IF GetMap(session, session.start) = 0 \/ GetMap(session, session.dest) = 0
       THEN Return(-1, <<>>) /\ UNCHANGED session
       ELSE /\ call' = name /\ loop' = 0
            /\ UNCHANGED <<session, request, used, answer>>

(* Every so many passes the clock is read, and may say that time is up. *)
TimeOut ==
    /\ call # "none" /\ loop + 1 = Loops
    /\ Return(0, <<>>)
    /\ UNCHANGED session

NextPass == loop' = (loop + 1) % Loops

(* The open list is empty: there is no path. *)
Fail ==
    /\ call # "none" /\ session.openList = <<>>
    /\ Return(-1, <<>>)
    /\ UNCHANGED session

Best == Last(session.openList).index
Popped == [session EXCEPT !.openList = Front(@)]

(* The cell has been reached more cheaply since this entry was opened. *)
Stale(s, cur) == s.fullList[cur].g > s.lookup[Index(s, s.fullList[cur].p)]

Skip ==
    /\ call # "none" /\ session.openList # <<>> /\ Stale(session, Best)
    /\ session' = Popped
    /\ NextPass
    /\ UNCHANGED <<request, used, call, answer>>

Expand ==
    /\ call # "none" /\ session.openList # <<>> /\ ~ Stale(session, Best)
    /\ session.fullList[Best].p # session.dest
    /\ session' = Expanded(Popped, Best)
    /\ NextPass
    /\ UNCHANGED <<request, used, call, answer>>

(* The path is turned around for Perl; the number returned counts its cells.*)
Finish ==
    /\ call # "none" /\ session.openList # <<>> /\ ~ Stale(session, Best)
    /\ session.fullList[Best].p = session.dest
    /\ LET solution == session.solution \o Traced(session.fullList, Best)
       IN  /\ session' = [Popped EXCEPT !.solution = solution]
           /\ Return(Len(solution),
                     IF call = "runcount" THEN <<>> ELSE Reverse(solution))

PathNext ==
    \/ used = 0 /\ \E r \in Requests : Reset(r)
    \/ used = 1 /\ \E r \in MoreRequests : Reset(r)
    \/ \E name \in Answers : Run(name)
    \/ TimeOut
    \/ Fail
    \/ Skip
    \/ Expand
    \/ Finish

-----------------------------------------------------------------------------
(* The cost of the cheapest path from the start to every cell, by letting   *)
(* each cell learn from its neighbours as often as there are cells.         *)
CellsOf(r) == (0..(r.field.width - 1)) \X (0..(r.field.height - 1))

Neighbours(c, d) == AbsDiff(c[1], d[1]) + AbsDiff(c[2], d[2]) = 1

Price(r, c) ==
    LET distance == ExactDistance(r.field, c[2] * r.field.width + c[1] + 1)
    IN  IF distance = 0 THEN Unknown ELSE r.weight[distance]

RECURSIVE Costs(_, _, _, _)
Costs(cost, price, cells, n) ==
    IF n = 0 THEN cost
    ELSE LET better == [c \in cells |->
                Min({cost[c]} \cup {cost[d] + price[c] : d \in {e \in cells : Neighbours(c, e)}})]
         IN  IF better = cost THEN cost ELSE Costs(better, price, cells, n - 1)

Cheapest(r) ==
    LET cells == CellsOf(r)
        at(p) == <<p.x, p.y>>
        price == [c \in cells |-> Price(r, c)]
        first == [c \in cells |-> IF c = at(r.start) /\ price[c] # Unknown
                                  THEN 0 ELSE Unknown]
        cost  == Costs(first, price, cells, Cardinality(cells))
    IN  IF at(r.dest) \in cells THEN cost[at(r.dest)] ELSE Unknown

CostOf(r, path) ==
    FoldLeft(LAMBDA sum, p : sum + Price(r, <<p.x, p.y>>), 0, Tail(path))

IsRoute(r, path) ==
    /\ path # <<>> /\ Head(path) = r.start /\ Last(path) = r.dest
    /\ \A i \in 1..Len(path) : /\ <<path[i].x, path[i].y>> \in CellsOf(r)
                               /\ Price(r, <<path[i].x, path[i].y>>) # Unknown
    /\ \A i \in 1..(Len(path) - 1) : Distance(path[i], path[i + 1]) = 1

(* Whatever the clock interrupted, and whatever the session was used for    *)
(* before: a search that ends with -1 had no path to find, and one that     *)
(* ends with a path goes from the start to the destination over             *)
(* neighbouring walkable cells, and no path costs less (CalcPath_pathStep   *)
(* with the weights of CalcPath_init).                                      *)
RoutesAreCheapest ==
    answer.code # 0 /\ used > 0 =>
        IF answer.code = -1 THEN Cheapest(request) >= Unknown
        ELSE LET path == Reverse(session.solution)
             IN  /\ IsRoute(request, path)
                 /\ CostOf(request, path) = Cheapest(request)
                 /\ answer.code = Len(path)
                 /\ answer.path \in {<<>>, path}

(* The map a search works on says of each cell exactly how far the nearest  *)
(* wall is (makeDistMap, whose scans lower values in place and against      *)
(* values read before).                                                     *)
DistancesAreExact ==
    used > 0 => \A i \in DOMAIN request.field.raw :
                    session.map[i] = ExactDistance(request.field, i)
=============================================================================
