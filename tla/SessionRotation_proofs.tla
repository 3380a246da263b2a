----------------------- MODULE SessionRotation_proofs -----------------------
(***************************************************************************)
(* Proofs about SessionRotation: what holds of the server's table follows  *)
(* from three kinds of change (a session is issued, rotated, or one of its *)
(* columns is set), and what the device holds from what the answers that   *)
(* are on their way are known to.                                          *)
(***************************************************************************)
EXTENDS SessionRotation, TLAPS

-----------------------------------------------------------------------------
(* The table                                                               *)

RowsType == rows \in [Sessions -> Row \cup {None}]

\* A session's root and the session it was rotated from are in the table.
Linked ==
    \A s \in Sessions : Issued(s) =>
        /\ Issued(rows[s].root)
        /\ rows[s].from # None => Issued(rows[s].from)

TableInv == RowsType /\ Linked /\ SingleUse /\ OneLivePerLogin

\* Some column of one row changes; a revoked session stays revoked.
Touch(s) ==
    \E row \in Row :
        /\ Issued(s)
        /\ row.root = rows[s].root
        /\ row.from = rows[s].from
        /\ rows[s].revoked => row.revoked
        /\ rows' = [rows EXCEPT ![s] = row]

RowsStep ==
    \/ UNCHANGED rows
    \/ \E n \in Sessions : Issue(n)
    \/ \E s, n \in Sessions : Rotate(s, n)
    \/ \E s \in Sessions : Touch(s)

\* A new row, at once.
LEMMA NewRowType ==
    ASSUME NEW root \in Sessions, NEW from \in Sessions \cup {None}
    PROVE  /\ NewRow(root, from) \in Row
           /\ NewRow(root, from) # None
           /\ NewRow(root, from).root = root
           /\ NewRow(root, from).from = from
           /\ ~NewRow(root, from).revoked
<1>1. NewRow(root, from) \in Row
  BY DEF NewRow, Row
<1>2. NewRow(root, from) # None
  BY <1>1, SessionAssumption
<1>3. QED
  BY <1>1, <1>2 DEF NewRow

\* The rows are records of their type.
LEMMA RowFields ==
    ASSUME RowsType, NEW s \in Sessions, Issued(s)
    PROVE  /\ rows[s] \in Row
           /\ rows[s].root \in Sessions
           /\ rows[s].from \in Sessions \cup {None}
           /\ rows[s].revoked \in BOOLEAN
           /\ rows[s].access \in BOOLEAN
           /\ rows[s].refresh \in BOOLEAN
BY SessionAssumption DEF RowsType, Issued, Row

\* A new session, at the head of a login of its own.
LEMMA IssueKeeps ==
    ASSUME TableInv, NEW n \in Sessions, Issue(n)
    PROVE  TableInv'
<1> USE SessionAssumption
<1>1. /\ rows[n] = None
      /\ rows' = [rows EXCEPT ![n] = NewRow(n, None)]
      /\ NewRow(n, None) \in Row
      /\ NewRow(n, None) # None
      /\ NewRow(n, None).root = n
      /\ NewRow(n, None).from = None
      /\ ~NewRow(n, None).revoked
  BY NewRowType DEF Issue
<1>2. RowsType'
  BY <1>1 DEF TableInv, RowsType
<1>3. /\ rows'[n] = NewRow(n, None)
      /\ \A s \in Sessions : s # n => rows'[s] = rows[s]
  BY <1>1 DEF TableInv, RowsType
<1>4. \A s \in Sessions : Issued(s)' <=> (s = n \/ Issued(s))
  BY <1>1, <1>3 DEF Issued
<1>5. \A s \in Sessions : Issued(s) =>
        s # n /\ rows[s].root \in Sessions /\ rows[s].from \in Sessions \cup {None}
  BY <1>1, RowFields DEF TableInv, Issued
<1>6. Linked'
  BY <1>1, <1>3, <1>4, <1>5 DEF TableInv, Linked
<1>7. \A s \in Sessions : s # n => (Unrevoked(s)' <=> Unrevoked(s))
  BY <1>3, <1>4 DEF Unrevoked
<1>8. SingleUse'
  BY <1>1, <1>3, <1>4, <1>5, <1>7 DEF TableInv, SingleUse, Linked
<1>9. OneLivePerLogin'
  <2> SUFFICES ASSUME NEW s \in Sessions, NEW t \in Sessions,
                      Unrevoked(s)', Unrevoked(t)', (rows[s].root = rows[t].root)'
               PROVE  s = t
    BY DEF OneLivePerLogin
  <2>1. CASE s # n /\ t # n
    BY <2>1, <1>3, <1>7 DEF TableInv, OneLivePerLogin
  <2>2. \A x \in Sessions : x # n /\ Unrevoked(x)' => rows'[x].root # n
    BY <1>1, <1>3, <1>5, <1>7 DEF TableInv, Linked, Unrevoked, Issued
  <2>3. QED
    BY <2>1, <2>2, <1>1, <1>3
<1>10. QED
  BY <1>2, <1>6, <1>8, <1>9 DEF TableInv

\* A rotation: the old session ends as the new one begins.
LEMMA RotateKeeps ==
    ASSUME TableInv, NEW o \in Sessions, NEW n \in Sessions, Rotate(o, n)
    PROVE  TableInv'
<1> USE SessionAssumption
<1> DEFINE new == NewRow(rows[o].root, o)
           old == [rows[o] EXCEPT !.revoked = TRUE]
<1>1. Unrevoked(o) /\ Issued(o) /\ rows[n] = None /\ o # n /\ o # None
  BY DEF Rotate, Refreshable, Unrevoked, Issued
<1>2. /\ rows[o] \in Row
      /\ rows[o].root \in Sessions
      /\ rows[o].from \in Sessions \cup {None}
  BY <1>1, RowFields DEF TableInv
<1>3. /\ new \in Row /\ new # None
      /\ new.root = rows[o].root /\ new.from = o /\ ~new.revoked
  BY <1>1, <1>2, NewRowType
<1>4. /\ old \in Row /\ old # None
      /\ old.root = rows[o].root /\ old.from = rows[o].from /\ old.revoked
  BY <1>2 DEF Row
<1>5. rows' = [rows EXCEPT ![o] = old, ![n] = new]
  BY <1>1 DEF Rotate, TableInv, RowsType
<1> HIDE DEF new, old
<1>6. /\ rows' \in [Sessions -> Row \cup {None}]
      /\ rows'[o] = old
      /\ rows'[n] = new
      /\ \A s \in Sessions : s # n /\ s # o => rows'[s] = rows[s]
  BY <1>1, <1>3, <1>4, <1>5 DEF TableInv, RowsType
<1>7. \A s \in Sessions : Issued(s)' <=> (s = n \/ Issued(s))
  BY <1>1, <1>3, <1>4, <1>6 DEF Issued
<1>8. \A s \in Sessions : Issued(s) =>
        /\ s # n
        /\ rows[s].root \in Sessions
        /\ rows[s].from \in Sessions \cup {None}
        /\ rows'[s].root = rows[s].root
        /\ rows'[s].from = rows[s].from
  BY <1>1, <1>4, <1>6, RowFields DEF TableInv, Issued
<1>9. Linked'
  BY <1>1, <1>3, <1>6, <1>7, <1>8 DEF TableInv, Linked
<1>10. /\ Unrevoked(n)'
       /\ ~Unrevoked(o)'
       /\ \A s \in Sessions : s # n /\ s # o => (Unrevoked(s)' <=> Unrevoked(s))
  BY <1>1, <1>3, <1>4, <1>6, <1>7 DEF Unrevoked
<1>11. \A s \in Sessions : Issued(s) => rows[s].from # o /\ rows[s].from # n
  BY <1>1, <1>8 DEF TableInv, SingleUse, Linked, Issued
<1>12. SingleUse'
  <2> SUFFICES ASSUME NEW s \in Sessions, NEW t \in Sessions,
                      Issued(s)', Issued(t)', (rows[s].from # None)'
               PROVE  /\ ~Unrevoked(rows[s].from)'
                      /\ (rows[s].from = rows[t].from)' => s = t
    BY DEF SingleUse
  <2>1. CASE s = n
    <3>1. rows'[s].from = o
      BY <2>1, <1>3, <1>6
    <3>2. t # n => rows'[t].from # o
      BY <1>7, <1>8, <1>11
    <3>3. QED
      BY <2>1, <3>1, <3>2, <1>10
  <2>2. CASE s # n
    <3>1. Issued(s) /\ rows'[s].from = rows[s].from /\ rows[s].from \in Sessions
      BY <2>2, <1>7, <1>8
    <3>2. ~Unrevoked(rows[s].from)
      BY <3>1, <1>1 DEF TableInv, SingleUse
    <3>3. rows[s].from # n /\ rows[s].from # o
      BY <3>1, <1>11
    <3>4. ~Unrevoked(rows[s].from)'
      BY <3>1, <3>2, <3>3, <1>10
    <3>5. CASE t = n
      BY <3>1, <3>3, <3>4, <3>5, <1>3, <1>6
    <3>6. CASE t # n
      BY <3>1, <3>4, <3>6, <1>7, <1>8 DEF TableInv, SingleUse
    <3>7. QED
      BY <3>5, <3>6
  <2>3. QED
    BY <2>1, <2>2
<1>13. OneLivePerLogin'
  <2> SUFFICES ASSUME NEW s \in Sessions, NEW t \in Sessions,
                      Unrevoked(s)', Unrevoked(t)', (rows[s].root = rows[t].root)'
               PROVE  s = t
    BY DEF OneLivePerLogin
  <2>1. s # o /\ t # o
    BY <1>10
  <2>2. \A x \in Sessions : x # n /\ Unrevoked(x)' =>
            Unrevoked(x) /\ x # o /\ rows'[x].root = rows[x].root
    BY <1>8, <1>10 DEF Unrevoked
  <2>3. \A x \in Sessions : x # n /\ Unrevoked(x)' => rows'[x].root # rows[o].root
    BY <2>2, <1>1 DEF TableInv, OneLivePerLogin
  <2>4. rows'[n].root = rows[o].root
    BY <1>3, <1>6
  <2>5. QED
    BY <2>2, <2>3, <2>4 DEF TableInv, OneLivePerLogin
<1>14. QED
  BY <1>6, <1>9, <1>12, <1>13 DEF TableInv, RowsType

\* A column of one row is set.
LEMMA TouchKeeps ==
    ASSUME TableInv, NEW o \in Sessions, Touch(o)
    PROVE  TableInv'
<1> USE SessionAssumption
<1>1. PICK row \in Row :
        /\ Issued(o)
        /\ row.root = rows[o].root
        /\ row.from = rows[o].from
        /\ rows[o].revoked => row.revoked
        /\ rows' = [rows EXCEPT ![o] = row]
  BY DEF Touch
<1>2. /\ rows' \in [Sessions -> Row \cup {None}]
      /\ rows'[o] = row
      /\ \A s \in Sessions : s # o => rows'[s] = rows[s]
  BY <1>1 DEF TableInv, RowsType
<1>3. \A s \in Sessions : Issued(s)' <=> Issued(s)
  BY <1>1, <1>2 DEF Issued
<1>4. \A s \in Sessions : Issued(s) =>
        /\ rows[s].root \in Sessions
        /\ rows[s].from \in Sessions \cup {None}
        /\ rows'[s].root = rows[s].root
        /\ rows'[s].from = rows[s].from
  BY <1>1, <1>2, RowFields DEF TableInv
<1>5. \A s \in Sessions : Unrevoked(s)' => Unrevoked(s)
  BY <1>1, <1>2, <1>3 DEF Unrevoked
<1>6. Linked'
  BY <1>3, <1>4 DEF TableInv, Linked
<1>7. SingleUse'
  BY <1>3, <1>4, <1>5 DEF TableInv, SingleUse
<1>8. OneLivePerLogin'
  BY <1>4, <1>5 DEF TableInv, OneLivePerLogin, Unrevoked
<1>9. QED
  BY <1>2, <1>6, <1>7, <1>8 DEF TableInv, RowsType

-----------------------------------------------------------------------------
(* The server's steps                                                      *)

LEMMA RowsStepKeeps ==
    ASSUME TableInv, RowsStep
    PROVE  TableInv'
<1>1. CASE UNCHANGED rows
  BY <1>1 DEF TableInv, RowsType, Linked, SingleUse, OneLivePerLogin, Issued, Unrevoked
<1>2. QED
  BY <1>1, IssueKeeps, RotateKeeps, TouchKeeps DEF RowsStep

\* What a call can do to the table: nothing it answers with was there before,
\* and nothing but the session it names is revoked.
LEMMA ServeEffect ==
    ASSUME TableInv, NEW does, NEW of \in Sessions \cup {None},
           NEW answer \in Answers, Serve(does, of, answer)
    PROVE  /\ RowsStep
           /\ answer \in Sessions => rows[answer] = None /\ Unrevoked(answer)'
           /\ \A s \in Sessions : Issued(s) => Issued(s)'
           /\ \A s \in Sessions : Unrevoked(s) =>
                Unrevoked(s)' \/ (s = of /\ does \in {"refresh", "logout"})
<1> USE SessionAssumption
<1>1. CASE UNCHANGED rows /\ answer \notin Sessions
  BY <1>1 DEF RowsStep, Issued, Unrevoked
<1>2. CASE does = "refresh" /\ answer \in Sessions /\ Rotate(of, answer)
  <2> DEFINE old == [rows[of] EXCEPT !.revoked = TRUE]
             new == NewRow(rows[of].root, of)
  <2>1. /\ of \in Sessions /\ Issued(of) /\ rows[answer] = None /\ of # answer
        /\ rows' = [rows EXCEPT ![of].revoked = TRUE, ![answer] = new]
    BY <1>2 DEF Rotate, Refreshable, Unrevoked, Issued
  <2>2. rows[of] \in Row /\ rows[of].root \in Sessions
    BY <2>1, RowFields DEF TableInv
  <2>3. new # None /\ ~new.revoked
    BY <2>1, <2>2, NewRowType
  <2>4. old \in Row
    BY <2>2 DEF Row
  <2>5. old # None
    BY <2>4
  <2>6. /\ rows'[of] = old
        /\ rows'[answer] = new
        /\ \A s \in Sessions : s # of /\ s # answer => rows'[s] = rows[s]
    BY <1>2, <2>1 DEF TableInv, RowsType
  <2> HIDE DEF old, new
  <2>7. QED
    BY <1>2, <2>1, <2>3, <2>5, <2>6 DEF RowsStep, Issued, Unrevoked
<1>3. CASE does = "login" /\ answer \in Sessions /\ Issue(answer)
  <2>1. rows[answer] = None /\ rows' = [rows EXCEPT ![answer] = NewRow(answer, None)]
    BY <1>3 DEF Issue
  <2>2. NewRow(answer, None) # None /\ ~NewRow(answer, None).revoked
    BY <1>3, NewRowType
  <2>3. /\ rows'[answer] = NewRow(answer, None)
        /\ \A s \in Sessions : s # answer => rows'[s] = rows[s]
    BY <1>3, <2>1 DEF TableInv, RowsType
  <2>4. QED
    BY <1>3, <2>1, <2>2, <2>3 DEF RowsStep, Issued, Unrevoked
<1>4. CASE does = "logout" /\ answer = "ok" /\ Revoke(of)
  <2> DEFINE row == [rows[of] EXCEPT !.revoked = TRUE]
  <2>1. of \in Sessions /\ Issued(of) /\ rows' = [rows EXCEPT ![of] = row]
    BY <1>4 DEF Revoke, Authentic, Unrevoked, Issued, TableInv, RowsType
  <2>2. rows[of] \in Row
    BY <2>1, RowFields DEF TableInv
  <2>3. row \in Row /\ row.root = rows[of].root /\ row.from = rows[of].from /\ row.revoked
    BY <2>2 DEF Row
  <2> HIDE DEF row
  <2>4. row # None
    BY <2>3
  <2>5. Touch(of)
    BY <2>1, <2>3 DEF Touch
  <2>6. rows'[of] = row /\ \A s \in Sessions : s # of => rows'[s] = rows[s]
    BY <2>1 DEF TableInv, RowsType
  <2>7. answer \notin Sessions
    BY <1>4 DEF Verdicts
  <2>8. QED
    BY <1>4, <2>1, <2>4, <2>5, <2>6, <2>7 DEF RowsStep, Issued, Unrevoked
<1>5. answer \in {"ok", "denied", "invalid"} => answer \notin Sessions
  BY DEF Verdicts
<1>6. QED
  BY <1>1, <1>2, <1>3, <1>4, <1>5 DEF Serve

\* Time only sets a column.
LEMMA ExpiryEffect ==
    ASSUME TableInv, NEW s \in Sessions, AccessExpires(s) \/ RefreshExpires(s)
    PROVE  /\ RowsStep
           /\ \A x \in Sessions : Issued(x) => Issued(x)'
           /\ \A x \in Sessions : Unrevoked(x) => Unrevoked(x)'
<1> USE SessionAssumption
<1>1. PICK row : /\ row \in Row
                 /\ row.root = rows[s].root
                 /\ row.from = rows[s].from
                 /\ row.revoked = rows[s].revoked
                 /\ rows' = [rows EXCEPT ![s] = row]
  <2>1. Issued(s) /\ rows[s] \in Row
    BY RowFields DEF AccessExpires, RefreshExpires, Unrevoked, TableInv
  <2>2. CASE AccessExpires(s)
    <3>1. rows' = [rows EXCEPT ![s] = [rows[s] EXCEPT !.access = FALSE]]
      BY <2>2 DEF AccessExpires, TableInv, RowsType
    <3>2. QED
      BY <2>1, <3>1 DEF Row
  <2>3. CASE RefreshExpires(s)
    <3>1. rows' = [rows EXCEPT ![s] = [rows[s] EXCEPT !.refresh = FALSE]]
      BY <2>3 DEF RefreshExpires, TableInv, RowsType
    <3>2. QED
      BY <2>1, <3>1 DEF Row
  <2>4. QED
    BY <2>2, <2>3
<1>2. row # None
  BY <1>1
<1>3. rows'[s] = row /\ \A x \in Sessions : x # s => rows'[x] = rows[x]
  BY <1>1 DEF TableInv, RowsType
<1>4. Issued(s)
  BY DEF AccessExpires, RefreshExpires, Unrevoked
<1>5. Touch(s)
  BY <1>1, <1>4 DEF Touch
<1>6. QED
  BY <1>1, <1>2, <1>3, <1>4, <1>5 DEF RowsStep, Issued, Unrevoked

-----------------------------------------------------------------------------
(* The device                                                              *)

\* Every session the device can name was issued.
Traceable ==
    /\ held # None => Issued(held)
    /\ \A t \in Tasks :
        /\ tasks[t].of # None => Issued(tasks[t].of)
        /\ tasks[t].does \in {"refresh", "logout"} => tasks[t].of # None
    /\ \A call \in late : Issued(call.of)

\* A session that is on its way to the device is known to no one else.
Unheard ==
    \A t \in Tasks, n \in Sessions : tasks[t].heard = n =>
        /\ Unrevoked(n)
        /\ held # n
        /\ \A u \in Tasks : tasks[u].of # n /\ (u # t => tasks[u].heard # n)
        /\ \A call \in late : call.of # n

Inv == TableInv /\ TypeOK /\ Traceable /\ Unheard /\ HeldIsLive

LEMMA InitInv == Init => Inv
<1> SUFFICES ASSUME Init PROVE Inv
  OBVIOUS
<1> USE SessionAssumption
<1>1. Idle \in Task /\ Idle.of = None /\ Idle.heard = None /\ Idle.does = "idle"
  BY DEF Idle, Task, Follow
<1>2. \A s \in Sessions : ~Issued(s) /\ ~Unrevoked(s)
  BY DEF Init, Issued, Unrevoked
<1>3. TableInv
  BY <1>2 DEF Init, TableInv, RowsType, Linked, SingleUse, OneLivePerLogin
<1>4. TypeOK
  BY <1>1 DEF Init, TypeOK
<1>5. Traceable /\ Unheard /\ HeldIsLive
  BY <1>1 DEF Init, Traceable, Unheard, HeldIsLive
<1>6. QED
  BY <1>3, <1>4, <1>5 DEF Inv

\* A late call is one the server may still be asked.
LEMMA LateCalls ==
    ASSUME TypeOK, NEW call \in late
    PROVE  call.of \in Sessions /\ call.does \in {"refresh", "logout"}
BY DEF TypeOK, Late

\* The device keeps its invariant when the server serves a call for nobody.
LEMMA TableMoves ==
    ASSUME Inv, RowsStep, UNCHANGED <<held, fresh, tasks, late>>,
           \A s \in Sessions : Issued(s) => Issued(s)',
           \A s \in Sessions : Unrevoked(s) =>
                Unrevoked(s)' \/ \E call \in late :
                    call.does \in {"refresh", "logout"} /\ call.of = s
    PROVE  Inv'
<1> USE SessionAssumption
<1>1. TableInv'
  BY RowsStepKeeps DEF Inv
<1>2. TypeOK'
  BY <1>1 DEF Inv, TypeOK, TableInv, RowsType
<1>3. /\ \A t \in Tasks : tasks[t].of \in Sessions \cup {None}
      /\ held \in Sessions \cup {None}
      /\ \A call \in late : call.of \in Sessions
  BY LateCalls DEF Inv, TypeOK, Task
<1>4. Traceable'
  BY <1>3 DEF Inv, Traceable
<1>5. Unheard'
  BY DEF Inv, Unheard
<1>6. HeldIsLive'
  BY <1>3 DEF Inv, HeldIsLive, Revoking
<1>7. QED
  BY <1>1, <1>2, <1>4, <1>5, <1>6 DEF Inv

\* It keeps it when the server answers one of its tasks.
LEMMA ServeTaskKeeps ==
    ASSUME Inv, NEW t \in Tasks, NEW answer \in Answers, ServeTask(t, answer)
    PROVE  Inv'
<1> USE SessionAssumption
<1>1. /\ tasks[t].heard = None
      /\ Serve(tasks[t].does, tasks[t].of, answer)
      /\ tasks' = [tasks EXCEPT ![t].heard = answer]
      /\ UNCHANGED <<held, fresh, late>>
  BY DEF ServeTask
<1>2. /\ \A u \in Tasks : tasks[u] \in Task /\ tasks[u].of \in Sessions \cup {None}
      /\ held \in Sessions \cup {None}
      /\ \A call \in late : call.of \in Sessions
  BY LateCalls DEF Inv, TypeOK, Task
<1>3. /\ RowsStep
      /\ answer \in Sessions => rows[answer] = None /\ Unrevoked(answer)'
      /\ \A s \in Sessions : Issued(s) => Issued(s)'
      /\ \A s \in Sessions : Unrevoked(s) =>
            Unrevoked(s)' \/ (s = tasks[t].of /\ tasks[t].does \in {"refresh", "logout"})
  BY <1>1, <1>2, ServeEffect DEF Inv
<1>4. TableInv'
  BY <1>3, RowsStepKeeps DEF Inv
<1>5. /\ tasks' \in [Tasks -> Task]
      /\ tasks'[t].heard = answer
      /\ \A u \in Tasks : /\ u # t => tasks'[u] = tasks[u]
                          /\ tasks'[u].of = tasks[u].of
                          /\ tasks'[u].does = tasks[u].does
  BY <1>1, <1>2 DEF Inv, TypeOK, Task, Answers
<1>6. TypeOK'
  BY <1>1, <1>4, <1>5 DEF Inv, TypeOK, TableInv, RowsType
<1>7. Traceable'
  BY <1>1, <1>2, <1>3, <1>5 DEF Inv, Traceable
<1>8. answer \in Sessions =>
        /\ held # answer
        /\ \A u \in Tasks : tasks[u].of # answer /\ tasks[u].heard # answer
        /\ \A call \in late : call.of # answer
  BY <1>3 DEF Inv, Traceable, Unheard, Issued, Unrevoked
<1>9. Unheard'
  <2> SUFFICES ASSUME NEW u \in Tasks, NEW n \in Sessions, tasks'[u].heard = n
               PROVE  /\ Unrevoked(n)'
                      /\ held # n
                      /\ \A v \in Tasks : tasks'[v].of # n /\ (v # u => tasks'[v].heard # n)
                      /\ \A call \in late : call.of # n
    BY <1>1 DEF Unheard
  <2>1. CASE u = t
    BY <2>1, <1>3, <1>5, <1>8
  <2>2. CASE u # t
    <3>1. tasks[u].heard = n
      BY <2>2, <1>5
    <3>2. /\ Unrevoked(n) /\ held # n
          /\ \A v \in Tasks : tasks[v].of # n /\ (v # u => tasks[v].heard # n)
          /\ \A call \in late : call.of # n
      BY <3>1 DEF Inv, Unheard
    <3>3. answer # n
      BY <3>1, <1>8
    <3>4. QED
      BY <3>2, <3>3, <1>3, <1>5
  <2>3. QED
    BY <2>1, <2>2
<1>10. HeldIsLive'
  BY <1>1, <1>2, <1>3, <1>5 DEF Inv, HeldIsLive, Revoking
<1>11. QED
  BY <1>4, <1>6, <1>7, <1>9, <1>10 DEF Inv

\* It keeps it when a task moves on: the store gets nothing but what the task
\* heard, the next call names what is stored, and a call that may revoke what
\* stays stored is forgotten only as a late one.
LEMMA TaskMoves ==
    ASSUME Inv, NEW t \in Tasks, NEW next \in Task, Become(t, next), UNCHANGED rows,
           next.heard = None,
           next.of \in {None, held'},
           next.does \in {"refresh", "logout"} => next.of # None,
           held' \in {held, None} \/ (held' \in Sessions /\ held' = tasks[t].heard),
           fresh' \in BOOLEAN, fresh' => held' # None,
           late' \subseteq Late,
           late \subseteq late',
           \A call \in late' : call \in late \/ call.of = tasks[t].of,
           (held' = held /\ held # None /\ held = tasks[t].of
                /\ tasks[t].does \in {"refresh", "logout"}) =>
                \E call \in late' : call.does \in {"refresh", "logout"} /\ call.of = held
    PROVE  Inv'
<1> USE SessionAssumption
<1>1. /\ \A u \in Tasks : tasks[u] \in Task /\ tasks[u].of \in Sessions \cup {None}
      /\ held \in Sessions \cup {None}
      /\ \A call \in late' : call.of \in Sessions
  BY DEF Inv, TypeOK, Task, Late
<1>2. /\ tasks' \in [Tasks -> Task]
      /\ tasks'[t] = next
      /\ \A u \in Tasks : u # t => tasks'[u] = tasks[u]
  BY DEF Inv, TypeOK, Become
<1>3. held' \in Sessions \cup {None}
  BY <1>1
<1>4. TypeOK'
  BY <1>2, <1>3 DEF Inv, TypeOK
<1>5. TableInv'
  BY DEF Inv, TableInv, RowsType, Linked, SingleUse, OneLivePerLogin, Issued, Unrevoked
<1>6. (\A s \in Sessions : (Issued(s)' <=> Issued(s)) /\ (Unrevoked(s)' <=> Unrevoked(s)))
  BY DEF Issued, Unrevoked
<1>7. held' # None => Issued(held')
  BY <1>1 DEF Inv, Traceable, Unheard, Unrevoked
<1>8. Traceable'
  BY <1>1, <1>2, <1>3, <1>6, <1>7 DEF Inv, Traceable
<1>9. Unheard'
  <2> SUFFICES ASSUME NEW u \in Tasks, NEW n \in Sessions, tasks'[u].heard = n
               PROVE  /\ Unrevoked(n)'
                      /\ held' # n
                      /\ \A v \in Tasks : tasks'[v].of # n /\ (v # u => tasks'[v].heard # n)
                      /\ \A call \in late' : call.of # n
    BY DEF Unheard
  <2>1. u # t /\ tasks[u].heard = n
    BY <1>2
  <2>2. /\ Unrevoked(n) /\ held # n
        /\ \A v \in Tasks : tasks[v].of # n /\ (v # u => tasks[v].heard # n)
        /\ \A call \in late : call.of # n
    BY <2>1 DEF Inv, Unheard
  <2>3. held' # n
    BY <2>1, <2>2
  <2>4. QED
    BY <2>2, <2>3, <1>2, <1>6
<1>10. HeldIsLive'
  <2> SUFFICES ASSUME held' # None, ~Unrevoked(held)'
               PROVE  Revoking(held)'
    BY DEF HeldIsLive
  <2>1. held' = held /\ held \in Sessions /\ ~Unrevoked(held)
    BY <1>1, <1>3, <1>6 DEF Inv, Unheard
  <2>2. Revoking(held)
    BY <2>1 DEF Inv, HeldIsLive
  <2>3. QED
    BY <2>1, <2>2, <1>2 DEF Revoking
<1>11. QED
  BY <1>4, <1>5, <1>8, <1>9, <1>10 DEF Inv

LEMMA IdleTask ==
    /\ Idle \in Task
    /\ Idle.of = None
    /\ Idle.heard = None
    /\ Idle.does = "idle"
BY DEF Idle, Task, Follow

LEMMA CallTask ==
    ASSUME NEW does \in Calls, NEW of \in Sessions \cup {None}, NEW follow \in Follow
    PROVE  /\ Call(does, of, follow) \in Task
           /\ Call(does, of, follow).does = does
           /\ Call(does, of, follow).of = of
           /\ Call(does, of, follow).heard = None
BY DEF Call, Task

LEMMA RefreshingTask ==
    ASSUME held \in Sessions \cup {None}, NEW follow \in Follow
    PROVE  /\ Refreshing(follow) \in Task
           /\ Refreshing(follow).heard = None
           /\ Refreshing(follow).of = held
           /\ Refreshing(follow).does \in {"refresh", "logout"} =>
                Refreshing(follow).of # None
<1>1. CASE held = None
  BY <1>1, IdleTask DEF Refreshing
<1>2. CASE held # None
  BY <1>2, CallTask DEF Refreshing, Calls
<1>3. QED
  BY <1>1, <1>2

\* Every step of a task is such a move.
LEMMA ClientStepKeeps ==
    ASSUME Inv, NEW t \in Tasks, ClientStep(t)
    PROVE  Inv'
<1> USE SessionAssumption, IdleTask
<1>1. /\ tasks[t] \in Task
      /\ held \in Sessions \cup {None}
      /\ fresh \in BOOLEAN
      /\ fresh => held # None
      /\ late \subseteq Late
  BY DEF Inv, TypeOK
<1>2. /\ tasks[t].does \in Calls \cup {"idle"}
      /\ tasks[t].of \in Sessions \cup {None}
      /\ tasks[t].follow \in Follow
  BY <1>1 DEF Task
<1>3. /\ "stop" \in Follow /\ "ask" \in Follow /\ "ask once more" \in Follow
      /\ "refresh" \in Calls /\ "ask" \in Calls /\ "logout" \in Calls /\ "login" \in Calls
  BY DEF Follow, Calls
<1>4. CASE Ask(t)
  <2> DEFINE next == IF fresh THEN Call("ask", held, "ask") ELSE Refreshing("ask")
  <2>1. /\ next \in Task /\ next.heard = None /\ next.of = held
        /\ next.does \in {"refresh", "logout"} => next.of # None
    <3>1. CASE fresh
      BY <3>1, <1>1, <1>3 DEF Call, Task
    <3>2. CASE ~fresh
      BY <3>2, <1>1, <1>3, RefreshingTask
    <3>3. QED
      BY <3>1, <3>2
  <2>2. Become(t, next) /\ UNCHANGED <<rows, held, fresh, late>> /\ tasks[t].does = "idle"
    BY <1>4 DEF Ask
  <2> HIDE DEF next
  <2>3. QED
    BY <1>1, <2>1, <2>2, TaskMoves
<1>5. CASE Restore(t)
  <2>1. /\ Become(t, Refreshing("stop")) /\ UNCHANGED <<rows, held, fresh, late>>
        /\ tasks[t].does = "idle"
    BY <1>5 DEF Restore
  <2>2. QED
    BY <1>1, <1>3, <2>1, RefreshingTask, TaskMoves
<1>6. CASE Logout(t)
  <2>1. /\ Become(t, Call("logout", held, "stop")) /\ UNCHANGED <<rows, held, fresh, late>>
        /\ tasks[t].does = "idle" /\ held # None
    BY <1>6 DEF Logout
  <2> DEFINE next == Call("logout", held, "stop")
  <2>2. next \in Task /\ next.heard = None /\ next.of = held
    BY <1>1, <1>3 DEF Call, Task
  <2> HIDE DEF next
  <2>3. Become(t, next)
    BY <2>1 DEF next
  <2>4. QED
    BY <1>1, <2>1, <2>2, <2>3, TaskMoves
<1>7. CASE Login(t)
  <2>1. /\ Become(t, Call("login", None, "stop")) /\ UNCHANGED <<rows, held, fresh, late>>
        /\ tasks[t].does = "idle"
    BY <1>7 DEF Login
  <2> DEFINE next == Call("login", None, "stop")
  <2>2. next \in Task /\ next.heard = None /\ next.of = None /\ next.does = "login"
    BY <1>3 DEF Call, Task
  <2> HIDE DEF next
  <2>3. Become(t, next)
    BY <2>1 DEF next
  <2>4. QED
    BY <1>1, <2>1, <2>2, <2>3, TaskMoves
<1>8. CASE Refreshed(t)
  <2> DEFINE next == IF tasks[t].follow = "stop" THEN Idle
                     ELSE Call("ask", tasks[t].heard, tasks[t].follow)
  <2>1. /\ tasks[t].heard \in Sessions
        /\ held' = tasks[t].heard /\ fresh' = TRUE
        /\ Become(t, next) /\ UNCHANGED <<rows, late>>
    BY <1>8 DEF Refreshed, Hears, Install
  <2>2. /\ next \in Task /\ next.heard = None /\ next.of \in {None, held'}
        /\ next.does \notin {"refresh", "logout"}
    <3>1. CASE tasks[t].follow = "stop"
      BY <3>1
    <3>2. CASE tasks[t].follow # "stop"
      <4>1. next = Call("ask", tasks[t].heard, tasks[t].follow)
        BY <3>2
      <4>2. QED
        BY <4>1, <1>2, <1>3, <2>1 DEF Call, Task
    <3>3. QED
      BY <3>1, <3>2
  <2>3. held' # held
    BY <2>1 DEF Inv, Unheard
  <2> HIDE DEF next
  <2>4. QED
    BY <1>1, <2>1, <2>2, <2>3, TaskMoves
<1>9. CASE RefreshInvalid(t)
  <2>1. held' = None /\ fresh' = FALSE /\ Become(t, Idle) /\ UNCHANGED <<rows, late>>
    BY <1>9 DEF RefreshInvalid, ClearSession
  <2>2. QED
    BY <1>1, <2>1, TaskMoves
<1>10. CASE Answered(t)
  <2>1. /\ Become(t, Idle) /\ UNCHANGED <<rows, held, fresh, late>>
        /\ tasks[t].does = "ask"
    BY <1>10 DEF Answered, Hears
  <2>2. QED
    BY <1>1, <2>1, TaskMoves
<1>11. CASE Denied(t)
  <2> DEFINE next == IF tasks[t].follow = "ask"
                     THEN Refreshing("ask once more") ELSE Idle
  <2>1. /\ Become(t, next) /\ UNCHANGED <<rows, held, fresh, late>>
        /\ tasks[t].does = "ask"
    BY <1>11 DEF Denied, Hears
  <2>2. /\ next \in Task /\ next.heard = None /\ next.of \in {None, held}
        /\ next.does \in {"refresh", "logout"} => next.of # None
    BY <1>1, <1>3, RefreshingTask
  <2> HIDE DEF next
  <2>3. QED
    BY <1>1, <2>1, <2>2, TaskMoves
<1>12. CASE LoggedOut(t)
  <2>1. held' = None /\ fresh' = FALSE /\ Become(t, Idle) /\ UNCHANGED <<rows, late>>
    BY <1>12 DEF LoggedOut, ClearSession
  <2>2. QED
    BY <1>1, <2>1, TaskMoves
<1>13. CASE LoggedIn(t)
  <2>1. /\ tasks[t].heard \in Sessions /\ tasks[t].does = "login"
        /\ held' = tasks[t].heard /\ fresh' = TRUE
        /\ Become(t, Idle) /\ UNCHANGED <<rows, late>>
    BY <1>13 DEF LoggedIn, Hears, Install
  <2>2. QED
    BY <1>1, <2>1, TaskMoves
<1> DEFINE own == [does |-> tasks[t].does, of |-> tasks[t].of]
<1>14. ASSUME NEW next, Lapse(t, next)
       PROVE  /\ Become(t, next)
              /\ UNCHANGED rows
              /\ late' \subseteq Late
              /\ late \subseteq late'
              /\ \A call \in late' : call \in late \/ call.of = tasks[t].of
              /\ tasks[t].of # None /\ tasks[t].does \in {"refresh", "logout"} =>
                    \E call \in late' : call.does \in {"refresh", "logout"}
                                            /\ call.of = tasks[t].of
  <2>1. Become(t, next) /\ UNCHANGED rows /\ late' = late \cup ({own} \cap Late)
    BY <1>14 DEF Lapse
  <2>2. own.of = tasks[t].of /\ own.does = tasks[t].does
    OBVIOUS
  <2>3. tasks[t].of # None /\ tasks[t].does \in {"refresh", "logout"} => own \in Late
    BY <1>2 DEF Late
  <2> HIDE DEF own
  <2>4. QED
    BY <1>1, <2>1, <2>2, <2>3
<1>15. CASE Timeout(t)
  <2>1. Lapse(t, Idle)
    BY <1>15 DEF Timeout
  <2>2. \/ held' = None /\ fresh' = FALSE
        \/ UNCHANGED <<held, fresh>>
    BY <1>15 DEF Timeout, ClearSession
  <2>3. /\ Become(t, Idle) /\ UNCHANGED rows /\ late' \subseteq Late /\ late \subseteq late'
        /\ \A call \in late' : call \in late \/ call.of = tasks[t].of
        /\ tasks[t].of # None /\ tasks[t].does \in {"refresh", "logout"} =>
                \E call \in late' : call.does \in {"refresh", "logout"}
                                        /\ call.of = tasks[t].of
    BY <1>14, <2>1
  <2>4. /\ held' \in {held, None}
        /\ fresh' \in BOOLEAN
        /\ fresh' => held' # None
    <3>1. CASE held' = None /\ fresh' = FALSE
      BY <3>1
    <3>2. CASE held' = held /\ fresh' = fresh
      BY <3>2, <1>1
    <3>3. QED
      BY <3>1, <3>2, <2>2
  <2>5. Idle.of \in {None, held'} /\ Idle.does \notin {"refresh", "logout"}
    OBVIOUS
  <2> HIDE DEF own
  <2>6. QED
    BY <2>3, <2>4, <2>5, TaskMoves
<1>16. CASE Retry(t)
  <2> DEFINE next == IF fresh \/ tasks[t].follow # "ask"
                     THEN Call("ask", held, tasks[t].follow) ELSE Refreshing("ask")
  <2>1. Lapse(t, next) /\ UNCHANGED <<held, fresh>> /\ held # None
    BY <1>16 DEF Retry
  <2>2. /\ next \in Task /\ next.heard = None /\ next.of = held
        /\ next.does \in {"refresh", "logout"} => next.of # None
    <3>1. CASE fresh \/ tasks[t].follow # "ask"
      <4>1. next = Call("ask", held, tasks[t].follow)
        BY <3>1
      <4>2. /\ Call("ask", held, tasks[t].follow) \in Task
            /\ Call("ask", held, tasks[t].follow).heard = None
            /\ Call("ask", held, tasks[t].follow).of = held
            /\ Call("ask", held, tasks[t].follow).does = "ask"
        BY <1>1, <1>2, <1>3 DEF Call, Task
      <4> HIDE DEF next
      <4>3. QED
        BY <4>1, <4>2
    <3>2. CASE ~(fresh \/ tasks[t].follow # "ask")
      BY <3>2, <1>1, <1>3, RefreshingTask
    <3>3. QED
      BY <3>1, <3>2
  <2> HIDE DEF next
  <2>3. /\ Become(t, next) /\ UNCHANGED rows /\ late' \subseteq Late /\ late \subseteq late'
        /\ \A call \in late' : call \in late \/ call.of = tasks[t].of
        /\ tasks[t].of # None /\ tasks[t].does \in {"refresh", "logout"} =>
                \E call \in late' : call.does \in {"refresh", "logout"}
                                        /\ call.of = tasks[t].of
    BY <1>14, <2>1
  <2>4. QED
    BY <1>1, <2>1, <2>2, <2>3, TaskMoves
<1>17. QED
  BY <1>4, <1>5, <1>6, <1>7, <1>8, <1>9, <1>10, <1>11, <1>12, <1>13, <1>15, <1>16
     DEF ClientStep

LEMMA NextKeeps == Inv /\ [Next]_vars => Inv'
<1> SUFFICES ASSUME Inv, [Next]_vars PROVE Inv'
  OBVIOUS
<1>1. CASE BecomesStale
  BY <1>1 DEF BecomesStale, Inv, TableInv, RowsType, Linked, SingleUse, OneLivePerLogin,
              TypeOK, Traceable, Unheard, HeldIsLive, Revoking, Issued, Unrevoked
<1>2. CASE \E t \in Tasks : ClientStep(t)
  BY <1>2, ClientStepKeeps
<1>3. CASE \E t \in Tasks, answer \in Answers : ServeTask(t, answer)
  BY <1>3, ServeTaskKeeps
<1>4. ASSUME NEW call \in late, NEW answer \in Answers, ServeLate(call, answer)
      PROVE  Inv'
  <2>1. call.of \in Sessions /\ call.does \in {"refresh", "logout"}
    BY LateCalls DEF Inv
  <2>2. Serve(call.does, call.of, answer) /\ UNCHANGED <<held, fresh, tasks, late>>
    BY <1>4 DEF ServeLate
  <2>3. /\ RowsStep
        /\ \A s \in Sessions : Issued(s) => Issued(s)'
        /\ \A s \in Sessions : Unrevoked(s) => Unrevoked(s)' \/ s = call.of
    BY <2>1, <2>2, ServeEffect DEF Inv
  <2>4. \A s \in Sessions : Unrevoked(s) => Unrevoked(s)' \/ \E c \in late :
            c.does \in {"refresh", "logout"} /\ c.of = s
    BY <2>1, <2>3
  <2>5. QED
    BY <2>2, <2>3, <2>4, TableMoves
<1>5. ASSUME NEW s \in Sessions, AccessExpires(s) \/ RefreshExpires(s)
      PROVE  Inv'
  <2>1. UNCHANGED <<held, fresh, tasks, late>>
    BY <1>5 DEF AccessExpires, RefreshExpires
  <2>2. QED
    BY <1>5, <2>1, ExpiryEffect, TableMoves DEF Inv
<1>6. CASE UNCHANGED vars
  BY <1>6 DEF vars, Inv, TableInv, RowsType, Linked, SingleUse, OneLivePerLogin,
              TypeOK, Traceable, Unheard, HeldIsLive, Revoking, Issued, Unrevoked
<1>7. QED
  BY <1>1, <1>2, <1>3, <1>4, <1>5, <1>6 DEF Next

\* Every reachable state satisfies the invariant.
THEOREM Invariant == Spec => []Inv
BY InitInv, NextKeeps, PTL DEF Spec

\* The types of the tables, the store and the tasks hold always.
THEOREM SessionTypeCorrect == Spec => []TypeOK
<1>1. Inv => TypeOK
  BY DEF Inv
<1>2. QED
  BY <1>1, Invariant, PTL

\* A refresh token is used once (Refresh, mysql_service.go:91).
THEOREM RotationIsSingleUse == Spec => []SingleUse
<1>1. Inv => SingleUse
  BY DEF Inv, TableInv
<1>2. QED
  BY <1>1, Invariant, PTL

\* No login forks: at most one of its sessions is unrevoked (Refresh,
\* mysql_service.go:91).
THEOREM LoginNeverForks == Spec => []OneLivePerLogin
<1>1. Inv => OneLivePerLogin
  BY DEF Inv, TableInv
<1>2. QED
  BY <1>1, Invariant, PTL

\* The device holds a revoked session only while its own call is unanswered or
\* after one was never answered (refresh_session, logout of api_client.gd).
THEOREM DeviceHoldsLive == Spec => []HeldIsLive
<1>1. Inv => HeldIsLive
  BY DEF Inv
<1>2. QED
  BY <1>1, Invariant, PTL

-----------------------------------------------------------------------------
(* The end of a login                                                      *)

\* No change of the table brings a login back.
LEMMA EndedKeeps ==
    ASSUME TableInv, RowsStep, NEW r \in Sessions, Ended(r)
    PROVE  Ended(r)'
<1> USE SessionAssumption
<1>1. CASE UNCHANGED rows
  BY <1>1 DEF Ended, Issued, Unrevoked
<1>2. ASSUME NEW n \in Sessions, Issue(n)
      PROVE  Ended(r)'
  <2> DEFINE new == NewRow(n, None)
  <2>1. rows[n] = None /\ rows' = [rows EXCEPT ![n] = new]
    BY <1>2 DEF Issue
  <2>2. new # None /\ new.root = n
    BY NewRowType
  <2> HIDE DEF new
  <2>3. rows'[n] = new /\ \A s \in Sessions : s # n => rows'[s] = rows[s]
    BY <2>1 DEF TableInv, RowsType
  <2>4. r # n
    BY <2>1 DEF Ended, Issued
  <2>5. QED
    BY <2>2, <2>3, <2>4 DEF Ended, Issued, Unrevoked
<1>3. ASSUME NEW o \in Sessions, NEW n \in Sessions, Rotate(o, n)
      PROVE  Ended(r)'
  <2> DEFINE new == NewRow(rows[o].root, o)
             old == [rows[o] EXCEPT !.revoked = TRUE]
  <2>1. /\ Unrevoked(o) /\ Issued(o) /\ rows[n] = None /\ o # n
        /\ rows' = [rows EXCEPT ![o].revoked = TRUE, ![n] = new]
    BY <1>3 DEF Rotate, Refreshable, Unrevoked, Issued
  <2>2. rows[o] \in Row /\ rows[o].root \in Sessions
    BY <2>1, RowFields DEF TableInv
  <2>3. new # None /\ new.root = rows[o].root
    BY <2>2, NewRowType
  <2>4. old \in Row /\ old.revoked
    BY <2>2 DEF Row
  <2>5. old # None
    BY <2>4
  <2>6. /\ rows'[o] = old
        /\ rows'[n] = new
        /\ \A s \in Sessions : s # o /\ s # n => rows'[s] = rows[s]
    BY <2>1 DEF TableInv, RowsType
  <2> HIDE DEF new, old
  <2>7. rows[o].root # r /\ r # n
    BY <2>1 DEF Ended, Issued
  <2>8. QED
    BY <2>1, <2>3, <2>4, <2>5, <2>6, <2>7 DEF Ended, Issued, Unrevoked
<1>4. ASSUME NEW o \in Sessions, Touch(o)
      PROVE  Ended(r)'
  <2>1. PICK row \in Row : /\ Issued(o)
                           /\ row.root = rows[o].root
                           /\ rows[o].revoked => row.revoked
                           /\ rows' = [rows EXCEPT ![o] = row]
    BY <1>4 DEF Touch
  <2>2. rows'[o] = row /\ \A s \in Sessions : s # o => rows'[s] = rows[s]
    BY <2>1 DEF TableInv, RowsType
  <2>3. row # None
    BY <2>1
  <2>4. QED
    BY <2>1, <2>2, <2>3 DEF Ended, Issued, Unrevoked
<1>5. QED
  BY <1>1, <1>2, <1>3, <1>4 DEF RowsStep

\* Every step is such a change.
LEMMA NextRows ==
    ASSUME Inv, Next
    PROVE  RowsStep
<1>1. CASE BecomesStale
  BY <1>1 DEF BecomesStale, RowsStep
<1>2. CASE \E t \in Tasks : ClientStep(t)
  BY <1>2 DEF ClientStep, RowsStep, Ask, Restore, Logout, Login, Refreshed, RefreshInvalid,
              Answered, Denied, LoggedOut, LoggedIn, Timeout, Retry, Lapse
<1>3. ASSUME NEW t \in Tasks, NEW answer \in Answers, ServeTask(t, answer)
      PROVE  RowsStep
  <2>1. tasks[t].of \in Sessions \cup {None}
    BY DEF Inv, TypeOK, Task
  <2>2. QED
    BY <1>3, <2>1, ServeEffect DEF ServeTask, Inv
<1>4. ASSUME NEW call \in late, NEW answer \in Answers, ServeLate(call, answer)
      PROVE  RowsStep
  BY <1>4, LateCalls, ServeEffect DEF ServeLate, Inv
<1>5. ASSUME NEW s \in Sessions, AccessExpires(s) \/ RefreshExpires(s)
      PROVE  RowsStep
  BY <1>5, ExpiryEffect DEF Inv
<1>6. QED
  BY <1>1, <1>2, <1>3, <1>4, <1>5 DEF Next

\* A login whose sessions are all revoked never has a live one again, whatever
\* refreshes of it are in flight (Refresh, Revoke of mysql_service.go).
THEOREM LoginsStayEnded == Spec => EndedStaysEnded
<1>1. Inv /\ [Next]_vars => [\A r \in Sessions : Ended(r) => Ended(r)']_vars
  BY EndedKeeps, NextRows DEF Inv
<1>2. QED
  BY <1>1, Invariant, PTL DEF EndedStaysEnded, Spec
=============================================================================
