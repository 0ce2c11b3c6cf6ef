-------------------------- MODULE TimeClockProofs ---------------------------
(***************************************************************************)
(* For any number of employees, rows and restarts: an employee for whom    *)
(* nothing went wrong is accounted for and has the hours of their own rows,*)
(* closed rows stay, and one employee is logged in at a time.              *)
(***************************************************************************)
EXTENDS TimeClock, SequenceLemmas

\* What the password alert is about: an employee who was on the list.
Picked ==
    screen = "password" =>
        /\ whatLoginOption \in {"Login", "Clock In"}
        /\ currentEmployee \in Employee
        /\ whatLoginOption = "Login" =>
             \E i \in DOMAIN clockedInEmployees : clockedInEmployees[i] = currentEmployee

ClockInv == TypeOK /\ Picked

-----------------------------------------------------------------------------
(* Types *)

\* removeLastObject leaves a list of the same kind, one shorter.
LEMMA RemoveLastObjectProperties ==
    ASSUME NEW S, NEW s \in Seq(S)
    PROVE  /\ removeLastObject(s) \in Seq(S)
           /\ Len(s) <= 1 => Len(removeLastObject(s)) = 0
<1>1. CASE s = <<>>
  BY <1>1 DEF removeLastObject
<1>2. CASE s # <<>>
  <2>1. Len(s) > 0 /\ Len(s) \in Nat
    BY <1>2
  <2>2. Front(s) \in Seq(S) /\ Len(Front(s)) = Len(s) - 1
    BY <2>1, FrontProperties
  <2> QED
    BY <1>2, <2>1, <2>2 DEF removeLastObject
<1> QED
  BY <1>1, <1>2

\* The rows after a clock out are rows, at the same places.
LEMMA CloseRowsType ==
    ASSUME TypeOK, NEW employee \in Entry
    PROVE  /\ closeRows(employee) \in Seq(Row)
           /\ DOMAIN closeRows(employee) = DOMAIN tblSalary
<1>1. employee.clockInTime \in Nat /\ now \in Nat
  BY DEF TypeOK, Entry
<1>2. timeBetweenDate(employee.clockInTime, now) \in Int
  BY <1>1 DEF timeBetweenDate
<1> DEFINE hrs == timeBetweenDate(employee.clockInTime, now)
<1> HIDE DEF hrs
<1>3. ASSUME NEW row \in Row
      PROVE  [row EXCEPT !.clockOut = now, !.hrs = hrs] \in Row
  BY <1>1, <1>2 DEF Row, hrs
<1>4. \A i \in DOMAIN tblSalary : tblSalary[i] \in Row
  BY DEF TypeOK
<1>5. \A i \in DOMAIN tblSalary : closeRows(employee)[i] \in Row
  BY <1>3, <1>4 DEF closeRows, hrs
<1>6. tblSalary \in Seq(Row) /\ DOMAIN tblSalary = 1..Len(tblSalary) /\ Len(tblSalary) \in Nat
  BY DEF TypeOK
<1>7. closeRows(employee) = [i \in 1..Len(tblSalary) |-> closeRows(employee)[i]]
  BY <1>6 DEF closeRows
<1> QED
  BY <1>5, <1>6, <1>7

\* The flags of the employees stay flags.
LEMMA StatementsType ==
    ASSUME TypeOK, NEW done, NEW e \in Employees, NEW ok, NEW value \in BOOLEAN,
           Statements(done, e, ok), setStatus(done, e, value)
    PROVE  /\ done \in 0..2
           /\ db' \in BOOLEAN
           /\ careful' \in [Employees -> BOOLEAN]
           /\ status' \in [Employees -> BOOLEAN]
<1>1. done \in 0..2
  BY DEF Statements
<1>2. db' \in BOOLEAN
  BY Zenon DEF Statements
<1>3. careful' \in [Employees -> BOOLEAN]
  <2>1. careful \in [Employees -> BOOLEAN]
    BY DEF TypeOK
  <2>2. (careful[e] /\ done = 2 /\ ok) \in BOOLEAN
    BY Zenon
  <2> QED
    BY <2>1, <2>2, Zenon DEF Statements
<1>4. status' \in [Employees -> BOOLEAN]
  BY Zenon DEF setStatus, TypeOK
<1> QED
  BY <1>1, <1>2, <1>3, <1>4
\* popToRoot leaves the screens in a state of their kinds.
LEMMA PopToRootType ==
    ASSUME TypeOK, popToRoot
    PROVE  /\ screen' = "home"
           /\ whatLoginOption' \in LoginChoices
           /\ allEmployees' \subseteq Employees
           /\ currentEmployee' \in Employee \cup {NoEmployee}
BY DEF TypeOK, popToRoot

LEMMA ClockInvInit ==
    ASSUME Init
    PROVE  ClockInv
<1>1. status \in [Employees -> BOOLEAN] /\ careful \in [Employees -> BOOLEAN]
  BY Zenon DEF Init
<1>2. clockedInEmployees \in Seq(Entry) /\ loggedInEmployee \in Seq(Entry) /\ tblSalary \in Seq(Row)
  BY DEF Init
<1>3. now \in Nat /\ isLoggedIn \in BOOLEAN /\ db \in BOOLEAN
  BY DEF Init
<1>4. TypeOK
  BY <1>1, <1>2, <1>3 DEF Init, TypeOK, LoginChoices
<1>5. Picked
  BY DEF Init, Picked
<1> QED
  BY <1>4, <1>5 DEF ClockInv

\* A clock in puts an employee with a time stamp into the list, and a row that
\* is open into the table.
LEMMA ClockInType ==
    ASSUME ClockInv, NEW done, ClockIn(done)
    PROVE  ClockInv' /\ done \in 0..2 /\ currentEmployee.empId \in Employees
<1> DEFINE e == currentEmployee.empId
           entry == clockedIn(currentEmployee)
<1>1. e \in Employees /\ now \in Nat
  BY DEF ClockInv, TypeOK, Picked, ClockIn, Employee
<1>2. entry \in Entry
  BY <1>1 DEF clockedIn, ClockInv, Picked, ClockIn, Employee, Entry
<1>3. newRow(e, now) \in Row
  BY <1>1 DEF newRow, Row
<1>4. TypeOK /\ Statements(done, e, ~InList(e)) /\ setStatus(done, e, TRUE) /\ popToRoot
  BY DEF ClockInv, ClockIn
<1>5. /\ done \in 0..2
      /\ db' \in BOOLEAN
      /\ careful' \in [Employees -> BOOLEAN]
      /\ status' \in [Employees -> BOOLEAN]
  BY <1>1, <1>4, StatementsType
<1>6. /\ clockedInEmployees' \in Seq(Entry)
      /\ tblSalary' \in Seq(Row)
      /\ UNCHANGED <<loggedInEmployee, isLoggedIn, now>>
  <2>1. clockedInEmployees' = Append(clockedInEmployees, entry)
    BY DEF ClockIn
  <2>2. tblSalary' = IF done > 0 THEN Append(tblSalary, newRow(e, now)) ELSE tblSalary
    BY DEF ClockIn
  <2>3. clockedInEmployees \in Seq(Entry) /\ tblSalary \in Seq(Row)
    BY <1>4 DEF TypeOK
  <2>4. UNCHANGED <<loggedInEmployee, isLoggedIn, now>>
    BY DEF ClockIn
  <2> HIDE DEF entry, e
  <2>5. Append(clockedInEmployees, entry) \in Seq(Entry)
    BY <1>2, <2>3
  <2>6. Append(tblSalary, newRow(e, now)) \in Seq(Row)
    BY <1>3, <2>3
  <2> QED
    BY <2>1, <2>2, <2>3, <2>4, <2>5, <2>6
<1>7. TypeOK'
  <2> HIDE DEF entry, e
  <2> QED
    BY <1>4, <1>5, <1>6, PopToRootType DEF TypeOK
<1>8. Picked'
  BY <1>4, PopToRootType DEF Picked
<1> QED
  BY <1>1, <1>5, <1>7, <1>8 DEF ClockInv

\* A clock out removes one employee from the list and closes rows.
LEMMA ClockOutType ==
    ASSUME ClockInv, NEW i \in DOMAIN clockedInEmployees, NEW done, ClockOut(i, done)
    PROVE  ClockInv' /\ done \in 0..2 /\ clockedInEmployees[i] \in Entry
<1> DEFINE employee == clockedInEmployees[i]
           e == employee.empId
<1>1. employee \in Entry /\ e \in Employees
  <2>1. employee \in Entry
    BY DEF ClockInv, TypeOK
  <2> QED
    BY <2>1 DEF Entry
<1>2. TypeOK /\ Statements(done, e, TRUE) /\ setStatus(done, e, FALSE) /\ popToRoot
  BY DEF ClockInv, ClockOut
<1>3. /\ done \in 0..2
      /\ db' \in BOOLEAN
      /\ careful' \in [Employees -> BOOLEAN]
      /\ status' \in [Employees -> BOOLEAN]
  BY <1>1, <1>2, StatementsType
<1>4. clockedInEmployees' \in Seq(Entry)
  BY RemoveAtProperties DEF ClockInv, TypeOK, ClockOut
<1>5. tblSalary' \in Seq(Row) /\ UNCHANGED <<loggedInEmployee, isLoggedIn, now>>
  BY <1>1, <1>2, CloseRowsType DEF ClockOut, TypeOK
<1>6. TypeOK'
  <2> HIDE DEF employee, e
  <2> QED
    BY <1>2, <1>3, <1>4, <1>5, PopToRootType DEF TypeOK
<1>7. Picked'
  BY <1>2, PopToRootType DEF Picked
<1> QED
  BY <1>1, <1>3, <1>6, <1>7 DEF ClockInv

\* The other steps.
LEMMA ClockInvNext ==
    ASSUME ClockInv, [Next]_vars
    PROVE  ClockInv'
<1> USE DEF ClockInv
<1>1. CASE loginSegue
  BY <1>1 DEF loginSegue, TypeOK, Picked, listVars, tableVars, employeesFromDatabase
<1>2. ASSUME NEW choice \in LoginChoices, pickEmployeeSegue(choice)
      PROVE  ClockInv'
  BY <1>2 DEF pickEmployeeSegue, TypeOK, Picked, listVars, tableVars
<1>3. CASE Back
  <2>1. CASE screen = "choices" /\ popToRoot
    BY <1>3, <2>1, PopToRootType DEF Back, TypeOK, Picked, listVars, tableVars
  <2>2. CASE screen' = "choices" /\ UNCHANGED <<whatLoginOption, allEmployees, currentEmployee>>
    BY <1>3, <2>2 DEF Back, TypeOK, Picked, listVars, tableVars
  <2> QED
    BY <1>3, <2>1, <2>2 DEF Back
<1>4. ASSUME NEW employee \in listToDisplay, enterPassword(employee)
      PROVE  ClockInv'
  <2>1. /\ employee \in Employee
        /\ whatLoginOption = "Login" =>
             \E i \in DOMAIN clockedInEmployees : clockedInEmployees[i] = employee
    <3>1. CASE whatLoginOption = "Clock In"
      <4>1. employee \in {[empId |-> e, clockInTime |-> Null] : e \in allEmployees}
        BY <1>4, <3>1 DEF listToDisplay
      <4>2. PICK e \in allEmployees : employee = [empId |-> e, clockInTime |-> Null]
        BY <4>1
      <4>3. e \in Employees
        BY DEF TypeOK
      <4> QED
        BY <3>1, <4>2, <4>3 DEF Employee
    <3>2. CASE whatLoginOption = "Login"
      <4>1. employee \in ToSet(clockedInEmployees)
        BY <1>4, <3>2 DEF listToDisplay
      <4>2. PICK i \in DOMAIN clockedInEmployees : clockedInEmployees[i] = employee
        BY <4>1 DEF ToSet
      <4>3. clockedInEmployees[i] \in Entry
        BY DEF TypeOK
      <4> QED
        BY <4>2, <4>3 DEF Entry, Employee
    <3> QED
      BY <1>4, <3>1, <3>2 DEF enterPassword
  <2> QED
    BY <1>4, <2>1 DEF enterPassword, TypeOK, Picked, listVars, tableVars
<1>5. ASSUME NEW employee, Logout(employee)
      PROVE  ClockInv'
  <2>1. popToRoot /\ loggedInEmployee' \in Seq(Entry)
    BY <1>5, RemoveLastObjectProperties DEF Logout, TypeOK
  <2> QED
    BY <1>5, <2>1, PopToRootType DEF Logout, TypeOK, Picked, tableVars
<1>6. CASE passwordFailed
  BY <1>6 DEF passwordFailed, TypeOK, Picked, listVars, tableVars
<1>7. CASE Login
  <2>1. currentEmployee \in Entry
    BY <1>7 DEF Login, Picked, TypeOK
  <2>2. removeLastObject(loggedInEmployee) \in Seq(Entry)
    BY RemoveLastObjectProperties DEF TypeOK
  <2>3. popToRoot /\ loggedInEmployee' \in Seq(Entry)
    BY <1>7, <2>1, <2>2 DEF Login, logInCurrent
  <2> QED
    BY <1>7, <2>3, PopToRootType DEF Login, logInCurrent, TypeOK, Picked, tableVars
<1>8. ASSUME NEW done, ClockIn(done)
      PROVE  ClockInv'
  BY <1>8, ClockInType
<1>9. ASSUME NEW done, NEW i \in DOMAIN clockedInEmployees, ClockOut(i, done)
      PROVE  ClockInv'
  BY <1>9, ClockOutType
<1>10. CASE Tick
  <2>1. now' \in Nat
    BY <1>10 DEF Tick, TypeOK
  <2>2. UNCHANGED <<screenVars, listVars, db, tableVars>>
    BY <1>10 DEF Tick
  <2> QED
    BY <2>1, <2>2 DEF TypeOK, Picked, screenVars, listVars, tableVars
<1>11. CASE LoseConnection
  BY <1>11 DEF LoseConnection, TypeOK, Picked, screenVars, listVars, tableVars
<1>12. CASE Relaunch
  <2>1. careful' \in [Employees -> BOOLEAN]
    BY <1>12, Zenon DEF Relaunch
  <2>2. isLoggedIn' \in BOOLEAN /\ db' \in BOOLEAN
    BY <1>12 DEF Relaunch
  <2>3. clockedInEmployees' \in Seq(Entry) /\ loggedInEmployee' \in Seq(Entry)
    BY <1>12 DEF Relaunch
  <2>4. popToRoot /\ UNCHANGED <<now, tblSalary, status>>
    BY <1>12 DEF Relaunch
  <2> QED
    BY <2>1, <2>2, <2>3, <2>4, PopToRootType DEF TypeOK, Picked
<1>13. CASE UNCHANGED vars
  BY <1>13 DEF vars, screenVars, listVars, tableVars, TypeOK, Picked
<1> HIDE DEF ClockInv
<1> QED
  BY <1>1, <1>2, <1>3, <1>4, <1>5, <1>6, <1>7, <1>8, <1>9, <1>10, <1>11, <1>12, <1>13
  DEF Next

\* Every variable of the time clock keeps its kind; whoever is in a list has
\* the time stamp that insertClockOut will subtract.
THEOREM ClockTypesHold == Spec => []TypeOK
<1>1. Init => ClockInv
  BY ClockInvInit
<1>2. ClockInv /\ [Next]_vars => ClockInv'
  BY ClockInvNext
<1>3. ClockInv => TypeOK
  BY DEF ClockInv
<1> QED
  BY <1>1, <1>2, <1>3, PTL DEF Spec
-----------------------------------------------------------------------------
(* Careful employees *)

CarefulInv == CarefulIsAccounted /\ CarefulHoursAreOwn

\* Clocking in and out and restarts are all that concerns the accounts.
LEMMA NextCases ==
    ASSUME [Next]_vars
    PROVE  \/ UNCHANGED <<clockedInEmployees, tblSalary, status, careful>>
           \/ \E done \in 0..2 : ClockIn(done)
           \/ \E done \in 0..2 : \E i \in DOMAIN clockedInEmployees : ClockOut(i, done)
           \/ Relaunch
BY DEF Next, vars, screenVars, listVars, tableVars, loginSegue, pickEmployeeSegue, Back,
       enterPassword, Logout, passwordFailed, Login, Tick, LoseConnection

\* An account stays as it is when the entries and rows of the employee do.
LEMMA SameAccount ==
    ASSUME NEW x \in Employees, Accounted(x), status'[x] <=> status[x],
           \A r \in DOMAIN tblSalary : tblSalary[r].empId = x => OwnHours(tblSalary[r]),
           \A i \in DOMAIN clockedInEmployees' :
             clockedInEmployees'[i].empId = x =>
               i \in DOMAIN clockedInEmployees /\ clockedInEmployees'[i] = clockedInEmployees[i],
           \A i \in DOMAIN clockedInEmployees :
             i \in DOMAIN clockedInEmployees' /\ clockedInEmployees'[i] = clockedInEmployees[i],
           \A r \in DOMAIN tblSalary' :
             tblSalary'[r].empId = x => r \in DOMAIN tblSalary /\ tblSalary'[r] = tblSalary[r],
           \A r \in DOMAIN tblSalary : r \in DOMAIN tblSalary' /\ tblSalary'[r] = tblSalary[r]
    PROVE  /\ Accounted(x)'
           /\ \A r \in DOMAIN tblSalary' : tblSalary'[r].empId = x => OwnHours(tblSalary'[r])
<1>1. OpenRows(x)' = OpenRows(x)
  BY DEF OpenRows, IsOpen
<1>2. InList(x)' <=> InList(x)
  BY DEF InList
<1>3. Accounted(x)'
  BY <1>1, <1>2 DEF Accounted, OpenRows
<1> QED
  BY <1>3

\* A clock in and the account of an employee x who stays careful.
LEMMA ClockInAccounts ==
    ASSUME ClockInv, CarefulInv, NEW done \in 0..2, ClockIn(done),
           NEW x \in Employees, careful'[x]
    PROVE  /\ Accounted(x)'
           /\ \A r \in DOMAIN tblSalary' : tblSalary'[r].empId = x => OwnHours(tblSalary'[r])
<1> DEFINE e == currentEmployee.empId
           entry == clockedIn(currentEmployee)
           n == Len(clockedInEmployees)
           m == Len(tblSalary)
<1>1. /\ e \in Employees
      /\ entry.empId = e /\ entry.clockInTime = now /\ entry \in Entry
  BY DEF ClockInv, TypeOK, Picked, ClockIn, Employee, Entry, clockedIn
<1>2. clockedInEmployees \in Seq(Entry) /\ n \in Nat /\ DOMAIN clockedInEmployees = 1..n
  BY DEF ClockInv, TypeOK
<1>3. tblSalary \in Seq(Row) /\ m \in Nat /\ DOMAIN tblSalary = 1..m
  BY DEF ClockInv, TypeOK
<1>4. /\ DOMAIN clockedInEmployees' = 1..(n + 1)
      /\ \A i \in 1..n : clockedInEmployees'[i] = clockedInEmployees[i]
      /\ clockedInEmployees'[n + 1] = entry
  <2>1. clockedInEmployees' = Append(clockedInEmployees, entry)
    BY DEF ClockIn
  <2> HIDE DEF entry, n
  <2>2. Append(clockedInEmployees, entry) \in Seq(Entry) /\ Len(clockedInEmployees) = n
    BY <1>1, <1>2 DEF n
  <2> QED
    BY <1>1, <1>2, <2>1, <2>2, PushProperties
<1>5. newRow(e, now) \in Row /\ newRow(e, now).empId = e /\ newRow(e, now).clockIn = now
      /\ IsOpen(newRow(e, now))
  BY <1>1 DEF newRow, Row, IsOpen, ClockInv, TypeOK
<1>6. done > 0 => /\ DOMAIN tblSalary' = 1..(m + 1)
                  /\ \A r \in 1..m : tblSalary'[r] = tblSalary[r]
                  /\ tblSalary'[m + 1] = newRow(e, now)
  <2>1. done > 0 => tblSalary' = Append(tblSalary, newRow(e, now))
    BY DEF ClockIn
  <2> DEFINE row == newRow(e, now)
  <2>2. row \in Row
    BY <1>5
  <2> HIDE DEF row, m
  <2>3. Append(tblSalary, row) \in Seq(Row) /\ Len(tblSalary) = m
    BY <1>3, <2>2 DEF m
  <2> QED
    BY <1>3, <2>1, <2>2, <2>3, PushProperties DEF row
<1>7. ~(done > 0) => tblSalary' = tblSalary
  BY DEF ClockIn
<1>8. careful[x] /\ (x = e => done = 2 /\ ~InList(e))
  BY Zenon DEF ClockIn, Statements, ClockInv, TypeOK
<1>9. Accounted(x)
  BY <1>8 DEF CarefulInv, CarefulIsAccounted
<1>10. \A r \in DOMAIN tblSalary : tblSalary[r].empId = x => OwnHours(tblSalary[r])
  BY <1>8, <1>9 DEF CarefulInv, CarefulHoursAreOwn
<1>11. x = e => status'[x]
  BY <1>8, Zenon DEF ClockIn, setStatus, ClockInv, TypeOK
<1>12. x # e => (status'[x] <=> status[x])
  BY Zenon DEF ClockIn, setStatus, ClockInv, TypeOK
<1> HIDE DEF e, entry, n, m
<1>13. CASE x = e
  <2>1. \A i \in 1..n : clockedInEmployees[i].empId # x
    BY <1>2, <1>8, <1>13 DEF InList
  <2>2. \A r \in 1..m : ~(tblSalary[r].empId = x /\ IsOpen(tblSalary[r]))
    BY <1>3, <1>8, <1>9, <1>13 DEF Accounted, OpenRows
  <2>3. done > 0
    BY <1>8, <1>13
  <2>4. \A i \in DOMAIN clockedInEmployees' : clockedInEmployees'[i].empId = x <=> i = n + 1
    BY <1>1, <1>2, <1>4, <1>13, <2>1
  <2>5. \A r \in DOMAIN tblSalary' :
            tblSalary'[r].empId = x /\ IsOpen(tblSalary'[r]) <=> r = m + 1
    BY <1>3, <1>5, <1>6, <1>13, <2>2, <2>3
  <2>6. n + 1 \in DOMAIN clockedInEmployees' /\ m + 1 \in DOMAIN tblSalary'
    BY <1>2, <1>3, <1>4, <1>6, <2>3
  <2>7. clockedInEmployees'[n + 1].clockInTime = tblSalary'[m + 1].clockIn
    BY <1>1, <1>4, <1>5, <1>6, <2>3
  <2>8. OpenRows(x)' = {m + 1}
    BY <2>5, <2>6 DEF OpenRows, IsOpen
  <2>9. InList(x)'
    BY <2>4, <2>6 DEF InList
  <2>10. Accounted(x)'
    BY <1>11, <1>13, <2>4, <2>7, <2>8, <2>9 DEF Accounted
  <2>11. ASSUME NEW r \in DOMAIN tblSalary', tblSalary'[r].empId = x
         PROVE  OwnHours(tblSalary'[r])
    <3>1. CASE r = m + 1
      BY <2>5, <2>11, <3>1 DEF OwnHours
    <3>2. CASE r # m + 1
      BY <1>3, <1>6, <1>10, <2>3, <2>11, <3>2
    <3> QED
      BY <3>1, <3>2
  <2> QED
    BY <2>10, <2>11
<1>14. CASE x # e
  <2>1. \A i \in DOMAIN clockedInEmployees' :
            clockedInEmployees'[i].empId = x =>
                i \in DOMAIN clockedInEmployees /\ clockedInEmployees'[i] = clockedInEmployees[i]
    BY <1>1, <1>2, <1>4, <1>14
  <2>2. \A i \in DOMAIN clockedInEmployees :
            i \in DOMAIN clockedInEmployees' /\ clockedInEmployees'[i] = clockedInEmployees[i]
    BY <1>2, <1>4
  <2>3. \A r \in DOMAIN tblSalary' :
            tblSalary'[r].empId = x => r \in DOMAIN tblSalary /\ tblSalary'[r] = tblSalary[r]
    BY <1>3, <1>5, <1>6, <1>7, <1>14
  <2>4. \A r \in DOMAIN tblSalary : r \in DOMAIN tblSalary' /\ tblSalary'[r] = tblSalary[r]
    BY <1>3, <1>6, <1>7
  <2> QED
    BY <1>9, <1>10, <1>12, <1>14, <2>1, <2>2, <2>3, <2>4, SameAccount
<1> QED
  BY <1>13, <1>14
\* A clock out and the account of an employee x who stays careful: the one
\* who clocks out has one place in the list and rows with its time.
LEMMA ClockOutAccounts ==
    ASSUME ClockInv, CarefulInv, NEW done \in 0..2,
           NEW i \in DOMAIN clockedInEmployees, ClockOut(i, done),
           NEW x \in Employees, careful'[x]
    PROVE  /\ Accounted(x)'
           /\ \A r \in DOMAIN tblSalary' : tblSalary'[r].empId = x => OwnHours(tblSalary'[r])
<1> DEFINE employee == clockedInEmployees[i]
           e == employee.empId
<1>1. employee \in Entry /\ e \in Employees
  <2>1. employee \in Entry
    BY DEF ClockInv, TypeOK
  <2> QED
    BY <2>1 DEF Entry
<1>2. careful[x] /\ (x = e => done = 2)
  BY <1>1, Zenon DEF ClockOut, Statements, ClockInv, TypeOK
<1>3. Accounted(x)
  BY <1>2 DEF CarefulInv, CarefulIsAccounted
<1>4. \A r \in DOMAIN tblSalary : tblSalary[r].empId = x => OwnHours(tblSalary[r])
  BY <1>2 DEF CarefulInv, CarefulHoursAreOwn
<1>5. x = e => ~status'[x]
  BY <1>2, Zenon DEF ClockOut, setStatus, ClockInv, TypeOK
<1>6. x # e => (status'[x] <=> status[x])
  BY Zenon DEF ClockOut, setStatus, ClockInv, TypeOK
<1>7. clockedInEmployees \in Seq(Entry) /\ clockedInEmployees' = RemoveAt(clockedInEmployees, i)
  BY DEF ClockInv, TypeOK, ClockOut
<1>8. /\ \A a, b \in DOMAIN clockedInEmployees' :
           \E k, l \in DOMAIN clockedInEmployees :
               /\ k # i /\ l # i
               /\ clockedInEmployees'[a] = clockedInEmployees[k]
               /\ clockedInEmployees'[b] = clockedInEmployees[l]
               /\ k = l => a = b
      /\ \A k \in DOMAIN clockedInEmployees :
           k # i => \E a \in DOMAIN clockedInEmployees' :
                        clockedInEmployees'[a] = clockedInEmployees[k]
  <2>1. PICK c : c = RemoveAt(clockedInEmployees, i)
    OBVIOUS
  <2>2. \A a, b \in DOMAIN c :
          \E k, l \in DOMAIN clockedInEmployees :
              /\ k # i /\ l # i
              /\ c[a] = clockedInEmployees[k] /\ c[b] = clockedInEmployees[l]
              /\ k = l => a = b
    BY <1>7, <2>1, RemoveAtKeepsOthers
  <2>3. \A k \in DOMAIN clockedInEmployees :
          k # i => \E a \in DOMAIN c : c[a] = clockedInEmployees[k]
    BY <1>7, <2>1, RemoveAtKeepsOthers
  <2>4. clockedInEmployees' = c
    BY <1>7, <2>1
  <2> QED
    BY <2>2, <2>3, <2>4
<1>9. now \in Nat /\ now # Null /\ \A r \in DOMAIN tblSalary : tblSalary[r] \in Row
  BY ClockAssumption DEF ClockInv, TypeOK
<1>10. DOMAIN tblSalary' = DOMAIN tblSalary
  BY <1>1, CloseRowsType DEF ClockOut, ClockInv
<1>11. ASSUME NEW r \in DOMAIN tblSalary, closes(tblSalary[r], e), done > 0
       PROVE  /\ tblSalary'[r].empId = e
              /\ tblSalary'[r].clockIn = tblSalary[r].clockIn
              /\ tblSalary'[r].clockOut = now
              /\ tblSalary'[r].hrs = now - employee.clockInTime
  <2>1. tblSalary'[r] = [tblSalary[r] EXCEPT !.clockOut = now,
                                             !.hrs = timeBetweenDate(employee.clockInTime, now)]
    BY <1>11 DEF ClockOut, closeRows
  <2>2. tblSalary[r] \in Row
    BY <1>9
  <2> QED
    BY <1>11, <2>1, <2>2 DEF Row, timeBetweenDate, closes
<1>12. \A r \in DOMAIN tblSalary :
         ~closes(tblSalary[r], e) \/ ~(done > 0) => tblSalary'[r] = tblSalary[r]
  BY DEF ClockOut, closeRows
<1>13. CASE x = e
  <2>1. \A a \in DOMAIN clockedInEmployees' : clockedInEmployees'[a].empId # x
    <3> SUFFICES ASSUME NEW a \in DOMAIN clockedInEmployees'
                 PROVE  clockedInEmployees'[a].empId # x
      OBVIOUS
    <3>1. PICK k \in DOMAIN clockedInEmployees :
            k # i /\ clockedInEmployees'[a] = clockedInEmployees[k]
      BY <1>8
    <3>2. clockedInEmployees[k].empId = x => k = i
      BY <1>3, <1>13 DEF Accounted
    <3> QED
      BY <3>1, <3>2
  <2>2. done > 0
    BY <1>2, <1>13
  <2>3. OpenRows(x)' = {}
    BY <1>9, <1>10, <1>11, <1>12, <1>13, <2>2 DEF OpenRows, IsOpen, closes
  <2>4. Accounted(x)'
    BY <1>5, <1>13, <2>1, <2>3 DEF Accounted, InList
  <2>5. ASSUME NEW r \in DOMAIN tblSalary', tblSalary'[r].empId = x
        PROVE  OwnHours(tblSalary'[r])
    <3>1. CASE closes(tblSalary[r], e)
      <4>1. r \in OpenRows(x)
        BY <1>10, <1>13, <3>1 DEF OpenRows, closes, IsOpen
      <4>2. employee.clockInTime = tblSalary[r].clockIn
        BY <1>3, <1>13, <4>1 DEF Accounted
      <4> QED
        BY <1>10, <1>11, <2>2, <3>1, <4>2 DEF OwnHours
    <3>2. CASE ~closes(tblSalary[r], e)
      BY <1>4, <1>10, <1>12, <2>5, <3>2
    <3> QED
      BY <3>1, <3>2
  <2> QED
    BY <2>4, <2>5
<1>14. CASE x # e
  <2>1. \A r \in DOMAIN tblSalary : tblSalary'[r].empId = tblSalary[r].empId
    BY <1>11, <1>12 DEF closes
  <2>2. \A r \in DOMAIN tblSalary : tblSalary[r].empId = x => tblSalary'[r] = tblSalary[r]
    BY <1>12, <1>14 DEF closes
  <2>3. OpenRows(x)' = OpenRows(x)
    BY <1>10, <2>1, <2>2 DEF OpenRows, IsOpen
  <2>4. InList(x)' <=> InList(x)
    <3>1. ASSUME NEW a \in DOMAIN clockedInEmployees', clockedInEmployees'[a].empId = x
          PROVE  \E k \in DOMAIN clockedInEmployees : clockedInEmployees[k].empId = x
      BY <1>8, <3>1
    <3>2. ASSUME NEW k \in DOMAIN clockedInEmployees, clockedInEmployees[k].empId = x
          PROVE  \E a \in DOMAIN clockedInEmployees' : clockedInEmployees'[a].empId = x
      <4>1. k # i
        BY <1>14, <3>2
      <4> QED
        BY <1>8, <3>2, <4>1
    <3> QED
      BY <3>1, <3>2 DEF InList
  <2>5. /\ \A a, b \in DOMAIN clockedInEmployees' :
             clockedInEmployees'[a].empId = x /\ clockedInEmployees'[b].empId = x => a = b
        /\ \A a \in DOMAIN clockedInEmployees', r \in OpenRows(x) :
             clockedInEmployees'[a].empId = x =>
                clockedInEmployees'[a].clockInTime = tblSalary'[r].clockIn
    <3>1. ASSUME NEW a \in DOMAIN clockedInEmployees', NEW b \in DOMAIN clockedInEmployees',
                 clockedInEmployees'[a].empId = x, clockedInEmployees'[b].empId = x
          PROVE  a = b
      <4>1. PICK k \in DOMAIN clockedInEmployees, l \in DOMAIN clockedInEmployees :
              /\ clockedInEmployees'[a] = clockedInEmployees[k]
              /\ clockedInEmployees'[b] = clockedInEmployees[l]
              /\ k = l => a = b
        BY <1>8
      <4> QED
        BY <1>3, <3>1, <4>1 DEF Accounted
    <3>2. ASSUME NEW a \in DOMAIN clockedInEmployees', NEW r \in OpenRows(x),
                 clockedInEmployees'[a].empId = x
          PROVE  clockedInEmployees'[a].clockInTime = tblSalary'[r].clockIn
      <4>1. PICK k \in DOMAIN clockedInEmployees : clockedInEmployees'[a] = clockedInEmployees[k]
        BY <1>8
      <4>2. tblSalary'[r] = tblSalary[r]
        BY <2>2 DEF OpenRows
      <4> QED
        BY <1>3, <3>2, <4>1, <4>2 DEF Accounted
    <3> QED
      BY <3>1, <3>2
  <2>6. Accounted(x)'
    BY <1>3, <1>6, <1>14, <2>3, <2>4, <2>5 DEF Accounted
  <2> QED
    BY <1>4, <1>10, <2>1, <2>2, <2>6
<1> QED
  BY <1>13, <1>14

\* After a restart, careful employees are those who were not clocked in.
LEMMA RelaunchAccounts ==
    ASSUME CarefulInv, Relaunch, NEW x \in Employees, careful'[x]
    PROVE  /\ Accounted(x)'
           /\ \A r \in DOMAIN tblSalary' : tblSalary'[r].empId = x => OwnHours(tblSalary'[r])
<1>1. careful[x] /\ ~InList(x)
  BY Zenon DEF Relaunch
<1>2. clockedInEmployees' = <<>> /\ UNCHANGED <<tblSalary, status>>
  BY DEF Relaunch
<1>3. OpenRows(x)' = OpenRows(x) /\ ~InList(x)'
  BY <1>2 DEF OpenRows, IsOpen, InList
<1>4. Accounted(x)
  BY <1>1 DEF CarefulInv, CarefulIsAccounted
<1>5. Accounted(x)'
  BY <1>1, <1>2, <1>3, <1>4 DEF Accounted
<1> QED
  BY <1>1, <1>2, <1>5 DEF CarefulInv, CarefulHoursAreOwn

\* Every step keeps careful employees accounted for.
LEMMA CarefulInvNext ==
    ASSUME ClockInv, CarefulInv, [Next]_vars
    PROVE  CarefulInv'
<1>1. CASE UNCHANGED <<clockedInEmployees, tblSalary, status, careful>>
  BY <1>1 DEF CarefulInv, CarefulIsAccounted, CarefulHoursAreOwn, Accounted, OpenRows, InList,
              IsOpen, OwnHours
<1>2. ASSUME \A x \in Employees : careful'[x] =>
                /\ Accounted(x)'
                /\ \A r \in DOMAIN tblSalary' :
                     tblSalary'[r].empId = x => OwnHours(tblSalary'[r])
      PROVE  CarefulInv'
  <2>1. \A r \in DOMAIN tblSalary' : tblSalary'[r].empId \in Employees
    <3>1. ClockInv'
      BY ClockInvNext
    <3>2. \A r \in DOMAIN tblSalary' : tblSalary'[r] \in Row
      BY <3>1 DEF ClockInv, TypeOK
    <3> QED
      BY <3>2 DEF Row
  <2>2. CarefulIsAccounted'
    BY <1>2 DEF CarefulIsAccounted
  <2>3. CarefulHoursAreOwn'
    BY <1>2, <2>1 DEF CarefulHoursAreOwn, OwnHours, IsOpen
  <2> QED
    BY <2>2, <2>3 DEF CarefulInv
<1>3. ASSUME NEW done \in 0..2, ClockIn(done)
      PROVE  CarefulInv'
  BY <1>2, <1>3, ClockInAccounts
<1>4. ASSUME NEW done \in 0..2, NEW i \in DOMAIN clockedInEmployees, ClockOut(i, done)
      PROVE  CarefulInv'
  BY <1>2, <1>4, ClockOutAccounts
<1>5. CASE Relaunch
  BY <1>2, <1>5, RelaunchAccounts
<1> QED
  BY <1>1, <1>3, <1>4, <1>5, NextCases

\* An employee for whom nothing went wrong is accounted for, and every closed
\* row of theirs has its own hours, whatever happened to the others.
THEOREM CarefulStaysAccounted == Spec => [](CarefulIsAccounted /\ CarefulHoursAreOwn)
<1>1. Init => CarefulInv
  BY DEF Init, CarefulInv, CarefulIsAccounted, CarefulHoursAreOwn, Accounted, OpenRows, InList
<1>2. Init => ClockInv
  BY ClockInvInit
<1>3. ClockInv /\ CarefulInv /\ [Next]_vars => ClockInv' /\ CarefulInv'
  BY ClockInvNext, CarefulInvNext
<1>4. CarefulInv => CarefulIsAccounted /\ CarefulHoursAreOwn
  BY DEF CarefulInv
<1> QED
  BY <1>1, <1>2, <1>3, <1>4, PTL DEF Spec

-----------------------------------------------------------------------------
(* Closed rows, and who is logged in *)

\* ... and the second part of it on its own: the rows of a careful employee have
\* their own hours, because a clock out closes the one row its object stands for.
THEOREM CarefulHoursStayOwn == Spec => []CarefulHoursAreOwn
BY CarefulStaysAccounted, PTL

\* A closed row is never changed again and never goes away.
THEOREM ClosedRowsNeverChange == Spec => ClosedRowsStay
<1>1. Init => ClockInv
  BY ClockInvInit
<1>2. ClockInv /\ [Next]_vars => ClockInv'
  BY ClockInvNext
<1>3. ASSUME ClockInv, [Next]_vars, NEW r \in DOMAIN tblSalary, ~IsOpen(tblSalary[r])
      PROVE  r \in DOMAIN tblSalary' /\ tblSalary'[r] = tblSalary[r]
  <2>1. CASE UNCHANGED <<clockedInEmployees, tblSalary, status, careful>> \/ Relaunch
    BY <2>1 DEF Relaunch
  <2>2. ASSUME NEW done \in 0..2, ClockIn(done)
        PROVE  r \in DOMAIN tblSalary' /\ tblSalary'[r] = tblSalary[r]
    <3> DEFINE row == newRow(currentEmployee.empId, now)
    <3>1. tblSalary' = tblSalary \/ tblSalary' = Append(tblSalary, row)
      BY <2>2 DEF ClockIn
    <3>2. tblSalary \in Seq(Row)
      BY <1>3 DEF ClockInv, TypeOK
    <3> HIDE DEF row
    <3> QED
      BY <3>1, <3>2
  <2>3. ASSUME NEW done \in 0..2, NEW i \in DOMAIN clockedInEmployees, ClockOut(i, done)
        PROVE  r \in DOMAIN tblSalary' /\ tblSalary'[r] = tblSalary[r]
    BY <1>3, <2>3 DEF ClockOut, closeRows, closes, IsOpen
  <2> QED
    BY <1>3, <2>1, <2>2, <2>3, NextCases
<1>4. ClockInv /\ [Next]_vars =>
        [\A r \in DOMAIN tblSalary :
           ~IsOpen(tblSalary[r]) =>
              r \in DOMAIN tblSalary' /\ tblSalary'[r] = tblSalary[r]]_vars
  BY <1>3
<1> QED
  BY <1>1, <1>2, <1>4, PTL DEF Spec, ClosedRowsStay

\* At most one employee is logged in, isLoggedIn says whether, and a password
\* for Login is asked of an employee who is clocked in.
THEOREM OneStaysLoggedIn == Spec => []OneLoggedIn
<1> DEFINE LoggedIn == Len(loggedInEmployee) = IF isLoggedIn THEN 1 ELSE 0
<1>1. Init => ClockInv /\ LoggedIn
  BY ClockInvInit DEF Init
<1>2. ASSUME ClockInv, LoggedIn, [Next]_vars
      PROVE  LoggedIn'
  <2>1. loggedInEmployee \in Seq(Entry) /\ isLoggedIn \in BOOLEAN
    BY <1>2 DEF ClockInv, TypeOK
  <2>2. /\ removeLastObject(loggedInEmployee) \in Seq(Entry)
        /\ Len(removeLastObject(loggedInEmployee)) = 0
    <3>1. LoggedIn
      BY <1>2
    <3>2. Len(loggedInEmployee) <= 1
      BY <3>1
    <3> HIDE DEF LoggedIn
    <3>3. /\ removeLastObject(loggedInEmployee) \in Seq(Entry)
          /\ Len(loggedInEmployee) <= 1 => Len(removeLastObject(loggedInEmployee)) = 0
      BY <2>1, RemoveLastObjectProperties
    <3> QED
      BY <3>2, <3>3
  <2>3. CASE UNCHANGED <<loggedInEmployee, isLoggedIn>>
    BY <1>2, <2>3
  <2>4. CASE Login
    <3>1. isLoggedIn' /\ loggedInEmployee' =
                Append(removeLastObject(loggedInEmployee), currentEmployee)
      BY <2>4 DEF Login, logInCurrent
    <3> QED
      BY <2>2, <3>1
  <2>5. ASSUME NEW employee, Logout(employee)
        PROVE  LoggedIn'
    BY <2>2, <2>5 DEF Logout
  <2>6. CASE Relaunch
    BY <2>6 DEF Relaunch
  <2> QED
    BY <1>2, <2>3, <2>4, <2>5, <2>6
    DEF Next, vars, screenVars, listVars, tableVars, loginSegue, pickEmployeeSegue, Back,
        enterPassword, passwordFailed, ClockIn, ClockOut, Tick, LoseConnection
<1>3. ClockInv /\ [Next]_vars => ClockInv'
  BY ClockInvNext
<1>4. ClockInv /\ LoggedIn => OneLoggedIn
  BY DEF ClockInv, Picked, OneLoggedIn, InList
<1> HIDE DEF LoggedIn
<1> QED
  BY <1>1, <1>2, <1>3, <1>4, PTL DEF Spec
=============================================================================
