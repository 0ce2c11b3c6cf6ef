----------------------------- MODULE TimeClock ------------------------------
(***************************************************************************)
(* Login, logout, clock in and clock out: LoginTableViewController.m,      *)
(* EmployeeListTableViewController.m, the lists of HomeViewController.m,   *)
(* and the statements of DatabaseAccess.m on tbl_salary and tbl_employee.  *)
(*                                                                         *)
(* The app keeps the clocked-in employees in a list in memory; the open    *)
(* rows are in the database.  The list is lost when the app ends, and a    *)
(* clock in or out is two statements, no transaction, whose results nobody *)
(* reads.  The variable careful is a history variable: nothing of that has *)
(* happened to this employee, who has also never clocked in twice.         *)
(***************************************************************************)
EXTENDS Integers, Sequences, SequencesExt

CONSTANTS
    Employees,   \* the ids in TBL_EMPLOYEE
    Null,        \* a NULL column, or nil
    MaxNow,      \* model bound: the clock stops here
    MaxRows,     \* model bound on the rows of tbl_salary
    MaxEntries   \* model bound on the list of clocked-in employees

ASSUME ClockAssumption ==
    /\ Null \notin Nat /\ Null \notin Employees
    /\ {MaxNow, MaxRows, MaxEntries} \subseteq Nat

VARIABLES
    screen,              \* home, choices, list or password
    whatLoginOption,
    allEmployees,        \* the employees read on the way to the screens
    currentEmployee,     \* the employee picked from a list
    clockedInEmployees,
    loggedInEmployee,
    isLoggedIn,
    db,                  \* whether the connection is up
    now,                 \* the clock, in the unit of the time stamps
    tblSalary,           \* rows of a clock in, a clock out and the hours
    status,              \* TBL_EMPLOYEE.STATUS
    careful

listVars == <<clockedInEmployees, loggedInEmployee, isLoggedIn>>
tableVars == <<tblSalary, status, careful>>
screenVars == <<screen, whatLoginOption, allEmployees, currentEmployee>>
vars == <<screenVars, listVars, db, now, tableVars>>

LoginChoices == {"Login", "Logout", "Clock In", "Clock Out"}

\* An Employee object.  A list holds an object at most once, so its place in
\* the list is its identity.
Employee == [empId : Employees, clockInTime : Nat \cup {Null}]
NoEmployee == [empId |-> Null, clockInTime |-> Null]

-----------------------------------------------------------------------------
(* Statements *)

employeesFromDatabase == IF db THEN Employees ELSE {}

newRow(empId, time) == [empId |-> empId, clockIn |-> time, clockOut |-> Null, hrs |-> Null]

\* Slip: the difference the other way round.
timeBetweenDateBackwards(first, second) == first - second

timeBetweenDate(first, second) == second - first

\* Slip: WHERE EMPLOYEE_ID only.
closesEveryRow(row, empId) == row.empId = empId

\* Slip: WHERE CLOCK_OUT IS NULL only.
closesOpenRows(row, empId) == row.clockOut = Null

\* WHERE EMPLOYEE_ID=... AND CLOCK_OUT IS NULL
closes(row, empId) == row.empId = empId /\ row.clockOut = Null

closeRows(employee) ==
    [i \in DOMAIN tblSalary |->
        IF closes(tblSalary[i], employee.empId)
        THEN [tblSalary[i] EXCEPT
                !.clockOut = now,
                !.hrs = timeBetweenDate(employee.clockInTime, now)]
        ELSE tblSalary[i]]

\* How many of the two statements of a clock in or out reach the tables.
\* When one does not, the connection is lost.
Statements(done, empId, wasCareful) ==
    /\ done \in IF db THEN 0..2 ELSE {0}
    /\ db' = (db /\ done = 2)
    /\ careful' = [careful EXCEPT ![empId] = @ /\ done = 2 /\ wasCareful]

setStatus(done, empId, value) ==
    status' = IF done = 2 THEN [status EXCEPT ![empId] = value] ELSE status

-----------------------------------------------------------------------------
(* The screens *)

Init ==
    /\ screen = "home"
    /\ whatLoginOption = "Login"
    /\ allEmployees = {}
    /\ currentEmployee = NoEmployee
    /\ clockedInEmployees = <<>>
    /\ loggedInEmployee = <<>>
    /\ isLoggedIn = FALSE
    /\ db \in BOOLEAN
    /\ now = 0
    /\ tblSalary = <<>>
    /\ status = [e \in Employees |-> FALSE]
    /\ careful = [e \in Employees |-> TRUE]

\* popToRootViewControllerAnimated: the two screens are gone.
popToRoot ==
    /\ screen' = "home"
    /\ allEmployees' = {}
    /\ currentEmployee' = NoEmployee
    /\ UNCHANGED whatLoginOption

loginSegue ==
    /\ screen = "home"
    /\ screen' = "choices"
    /\ allEmployees' = employeesFromDatabase
    /\ UNCHANGED <<whatLoginOption, currentEmployee, listVars, db, now, tableVars>>

\* A choice opens a new list; the two break choices do nothing.
pickEmployeeSegue(choice) ==
    /\ screen = "choices"
    /\ screen' = "list"
    /\ whatLoginOption' = choice
    /\ currentEmployee' = NoEmployee
    /\ UNCHANGED <<allEmployees, listVars, db, now, tableVars>>

Back ==
    /\ \/ screen = "choices" /\ popToRoot
       \/ /\ screen = "list"
          /\ screen' = "choices"
          /\ UNCHANGED <<whatLoginOption, allEmployees, currentEmployee>>
    /\ UNCHANGED <<listVars, db, now, tableVars>>

\* viewDidLoad.  The employees of Clock In are new objects, without a time.
listToDisplay ==
    CASE whatLoginOption = "Clock In" ->
            {[empId |-> e, clockInTime |-> Null] : e \in allEmployees}
      [] whatLoginOption = "Logout" -> ToSet(loggedInEmployee)
      [] OTHER -> ToSet(clockedInEmployees)

\* didSelectRowAtIndexPath of the options that ask for a password.
enterPassword(employee) ==
    /\ screen = "list"
    /\ whatLoginOption \in {"Login", "Clock In"}
    /\ screen' = "password"
    /\ currentEmployee' = employee
    /\ UNCHANGED <<whatLoginOption, allEmployees, listVars, db, now, tableVars>>

\* Cancel, or a wrong password: the list again.
passwordFailed ==
    /\ screen = "password"
    /\ screen' = "list"
    /\ UNCHANGED <<whatLoginOption, allEmployees, currentEmployee, listVars, db, now, tableVars>>

-----------------------------------------------------------------------------
(* addOrRemoveEmployeeFromList, for each option *)

\* Slip: the employee who was logged in is not removed.
logInBeside ==
    /\ isLoggedIn' = TRUE
    /\ loggedInEmployee' = Append(loggedInEmployee, currentEmployee)

\* removeLastObject of an empty array does nothing.
removeLastObject(list) == IF list = <<>> THEN <<>> ELSE Front(list)

logInCurrent ==
    /\ isLoggedIn' = TRUE
    /\ loggedInEmployee' = Append(removeLastObject(loggedInEmployee), currentEmployee)

Login ==
    /\ screen = "password"
    /\ whatLoginOption = "Login"
    /\ logInCurrent
    /\ popToRoot
    /\ UNCHANGED <<clockedInEmployees, db, now, tableVars>>

Logout(employee) ==
    /\ screen = "list"
    /\ whatLoginOption = "Logout"
    /\ isLoggedIn' = FALSE
    /\ loggedInEmployee' = removeLastObject(loggedInEmployee)
    /\ popToRoot
    /\ UNCHANGED <<clockedInEmployees, db, now, tableVars>>

\* Slip: the time stamp is not kept in the object.
clockedInWithoutTime(employee) == employee

\* insertClockIn sets the time stamp of the object that is already in the list.
clockedIn(employee) == [employee EXCEPT !.clockInTime = now]

InList(e) == \E i \in DOMAIN clockedInEmployees : clockedInEmployees[i].empId = e

IsOpen(row) == row.clockOut = Null

\* The list first, then the insert, then the status.
ClockIn(done) ==
    LET e == currentEmployee.empId
    IN  /\ screen = "password"
        /\ whatLoginOption = "Clock In"
        /\ Len(clockedInEmployees) < MaxEntries
        /\ Len(tblSalary) < MaxRows
        /\ clockedInEmployees' = Append(clockedInEmployees, clockedIn(currentEmployee))
        /\ Statements(done, e, ~InList(e))
        /\ tblSalary' = IF done > 0 THEN Append(tblSalary, newRow(e, now)) ELSE tblSalary
        /\ setStatus(done, e, TRUE)
        /\ popToRoot
        /\ UNCHANGED <<loggedInEmployee, isLoggedIn, now>>

\* removeObjectIdenticalTo: the picked object, which is in the list once, then
\* the rows, then the status.  The employee stays logged in.
ClockOut(i, done) ==
    LET employee == clockedInEmployees[i]
    IN  /\ screen = "list"
        /\ whatLoginOption = "Clock Out"
        /\ clockedInEmployees' = RemoveAt(clockedInEmployees, i)
        /\ Statements(done, employee.empId, TRUE)
        /\ tblSalary' = IF done > 0 THEN closeRows(employee) ELSE tblSalary
        /\ setStatus(done, employee.empId, FALSE)
        /\ popToRoot
        /\ UNCHANGED <<loggedInEmployee, isLoggedIn, now>>

-----------------------------------------------------------------------------
(* Surroundings *)

Tick ==
    /\ now < MaxNow
    /\ now' = now + 1
    /\ UNCHANGED <<screenVars, listVars, db, tableVars>>

LoseConnection ==
    /\ db
    /\ db' = FALSE
    /\ UNCHANGED <<screenVars, listVars, now, tableVars>>

\* The app ends, at any moment, and is started again: viewDidLoad of the home
\* screen makes empty lists.
Relaunch ==
    /\ popToRoot
    /\ clockedInEmployees' = <<>>
    /\ loggedInEmployee' = <<>>
    /\ isLoggedIn' = FALSE
    /\ db' \in BOOLEAN
    /\ careful' = [e \in Employees |-> careful[e] /\ ~InList(e)]
    /\ UNCHANGED <<now, tblSalary, status>>

Next ==
    \/ loginSegue
    \/ \E choice \in LoginChoices : pickEmployeeSegue(choice)
    \/ Back
    \/ \E employee \in listToDisplay : enterPassword(employee) \/ Logout(employee)
    \/ passwordFailed
    \/ Login
    \/ \E done \in 0..2 :
        \/ ClockIn(done)
        \/ \E i \in DOMAIN clockedInEmployees : ClockOut(i, done)
    \/ Tick
    \/ LoseConnection
    \/ Relaunch

Spec == Init /\ [][Next]_vars

-----------------------------------------------------------------------------
(* Properties *)

Row == [empId : Employees, clockIn : Nat, clockOut : Nat \cup {Null}, hrs : Int \cup {Null}]
Entry == [empId : Employees, clockInTime : Nat]

\* Every variable holds a value of its kind; in particular an employee in one
\* of the two lists always has the time stamp that a clock out subtracts.
TypeOK ==
    /\ screen \in {"home", "choices", "list", "password"}
    /\ whatLoginOption \in LoginChoices
    /\ allEmployees \subseteq Employees
    /\ currentEmployee \in Employee \cup {NoEmployee}
    /\ clockedInEmployees \in Seq(Entry)
    /\ loggedInEmployee \in Seq(Entry)
    /\ isLoggedIn \in BOOLEAN
    /\ db \in BOOLEAN
    /\ now \in Nat
    /\ tblSalary \in Seq(Row)
    /\ status \in [Employees -> BOOLEAN]
    /\ careful \in [Employees -> BOOLEAN]

OpenRows(e) == {r \in DOMAIN tblSalary : tblSalary[r].empId = e /\ IsOpen(tblSalary[r])}

\* An employee's one place in the list, the open row and the status agree.
Accounted(e) ==
    /\ \A i, j \in DOMAIN clockedInEmployees :
         clockedInEmployees[i].empId = e /\ clockedInEmployees[j].empId = e => i = j
    /\ \A i \in DOMAIN clockedInEmployees, r \in OpenRows(e) :
         clockedInEmployees[i].empId = e =>
            clockedInEmployees[i].clockInTime = tblSalary[r].clockIn
    /\ InList(e) <=> OpenRows(e) # {}
    /\ InList(e) <=> status[e]

\* As long as nothing went wrong for an employee, who clocked in only when
\* clocked out, the list in memory and the tables agree about them, whatever
\* happened to others: lost statements, restarts, second clock ins
\* (addOrRemoveEmployeeFromList, insertClockIn, insertClockOut).
CarefulIsAccounted == \A e \in Employees : careful[e] => Accounted(e)

\* ... and every row of theirs that is closed has the hours between its own
\* clock in and clock out.
OwnHours(row) == IsOpen(row) \/ row.hrs = row.clockOut - row.clockIn

CarefulHoursAreOwn ==
    \A r \in DOMAIN tblSalary : careful[tblSalary[r].empId] => OwnHours(tblSalary[r])

\* What was recorded stays: no later clock in or clock out, of anyone, changes
\* or removes a row that is closed (the WHERE clauses of insertClockOut).
ClosedRowsStay ==
    [][\A r \in DOMAIN tblSalary :
         ~IsOpen(tblSalary[r]) =>
            r \in DOMAIN tblSalary' /\ tblSalary'[r] = tblSalary[r]]_vars

\* HomeViewController.h 187, "only one will be logged in a time": the list of
\* logged-in employees has one element exactly when isLoggedIn says so, and
\* whoever logs in is clocked in at that moment.
OneLoggedIn ==
    /\ Len(loggedInEmployee) = IF isLoggedIn THEN 1 ELSE 0
    /\ screen = "password" /\ whatLoginOption = "Login" => InList(currentEmployee.empId)

\* EmployeeListTableViewController.m 190: addOrRemoveEmployeeFromList "takes
\* care of the array handling of users as well as inputting the correct values
\* into the database": every closed row would have its own hours.
EveryRowHasItsHours == \A r \in DOMAIN tblSalary : OwnHours(tblSalary[r])
=============================================================================
