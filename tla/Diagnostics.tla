---------------------------- MODULE Diagnostics ----------------------------
(***************************************************************************)
(* How the two suites read the diagnostic records of a handle: diagnostics   *)
(* of conformance.cpp and GetDiagMessage of odbc_test_utils.cpp report them  *)
(* all, HasDiagState looks for one among them, GetDiagState takes the first. *)
(*                                                                         *)
(* Messages and native errors are left out; a state is "wanted" if it is the *)
(* one that HasDiagState is asked for.                                      *)
(***************************************************************************)
EXTENDS Integers, Sequences

CONSTANTS MaxSmall     \* the largest SQLSMALLINT: 32767

ASSUME MaxSmallAssumption == MaxSmall \in Nat /\ MaxSmall > 0

VARIABLES
    posted,     \* what the handle has: states, and what is answered behind them
    reader,     \* the function that reads them, or "none"
    record,     \* number of the record it asks for
    seen,       \* numbers of the records it has taken, in ascending order
    found,      \* it returns true, or a state that is not empty
    noted,      \* it reports that SQLGetDiagRec failed
    reading

diagnosis == <<posted, reader, record, seen, found, noted, reading>>

States == {"wanted", "other"}
Readers == {"diagnostics", "GetDiagMessage", "HasDiagState", "GetDiagState"}

-----------------------------------------------------------------------------
(* SQLGetDiagRec, with or without a message cut off; the driver may also    *)
(* fail, or never come to an end.                                           *)

Answer ==
    IF record < 1 THEN "error"
    ELSE IF record <= Len(posted.states) THEN "success" ELSE posted.behind

StateRead == IF record <= Len(posted.states) THEN posted.states[record] ELSE "other"

\* Mutant: the record is not counted.
NextRecordSame == record

\* Mutant: the number is an int.
NextRecordWide == record + 1

\* ++ on a SQLSMALLINT: the smallest follows the largest.
NextRecord == IF record = MaxSmall THEN -(MaxSmall + 1) ELSE record + 1

-----------------------------------------------------------------------------
NotReading ==
    /\ reader = "none" /\ reading = FALSE
    /\ posted = [states |-> <<>>, behind |-> "no_data"]
    /\ record = 1 /\ seen = {} /\ found = FALSE /\ noted = FALSE

\* A function is called for a handle with the records of list.
Open(function, list) ==
    /\ reader' = function /\ posted' = list /\ reading' = TRUE
    /\ record' = 1 /\ seen' = {} /\ found' = FALSE /\ noted' = FALSE

Take == seen' = seen \cup {record}

Return(isFound, isNoted) ==
    reading' = FALSE /\ found' = isFound /\ noted' = isNoted

Continue == record' = NextRecord /\ UNCHANGED <<found, noted, reading>>

\* Mutant: any return code but success ends the report without a word.
DiagnosticsSilent ==
    /\ reading /\ reader = "diagnostics"
    /\ \/ Answer = "success" /\ Take /\ Continue
       \/ Answer # "success" /\ Return(found, FALSE) /\ UNCHANGED <<seen, record>>
    /\ UNCHANGED <<posted, reader>>

ReadDiagnostics ==
    /\ reading /\ reader = "diagnostics"
    /\ \/ Answer = "success" /\ Take /\ Continue
       \/ /\ Answer # "success" /\ Return(found, Answer = "error")
          /\ UNCHANGED <<seen, record>>
    /\ UNCHANGED <<posted, reader>>

GetDiagMessage ==
    /\ reading /\ reader = "GetDiagMessage"
    /\ \/ Answer = "success" /\ Take /\ Continue
       \/ Answer # "success" /\ Return(seen # {}, FALSE) /\ UNCHANGED <<seen, record>>
    /\ UNCHANGED <<posted, reader>>

HasDiagState ==
    /\ reading /\ reader = "HasDiagState"
    /\ \/ Answer = "success" /\ StateRead # "wanted" /\ Take /\ Continue
       \/ /\ Answer = "success" /\ StateRead = "wanted"
          /\ Take /\ Return(TRUE, FALSE) /\ UNCHANGED record
       \/ Answer # "success" /\ Return(FALSE, FALSE) /\ UNCHANGED <<seen, record>>
    /\ UNCHANGED <<posted, reader>>

GetDiagState ==
    /\ reading /\ reader = "GetDiagState"
    /\ \/ Answer = "success" /\ Take /\ Return(TRUE, FALSE) /\ UNCHANGED record
       \/ Answer # "success" /\ Return(FALSE, FALSE) /\ UNCHANGED <<seen, record>>
    /\ UNCHANGED <<posted, reader>>

Read == ReadDiagnostics \/ GetDiagMessage \/ HasDiagState \/ GetDiagState

-----------------------------------------------------------------------------
(* Properties.                                                             *)

(* A report of diagnostics that leaves records out says so, even when the   *)
(* driver never ends and the record number runs over; a state is found      *)
(* wherever it is in the list, behind any number of the server's messages.  *)
ReportsAreComplete ==
    (reader # "none" /\ ~reading) =>
        LET all == 1..Len(posted.states) IN
        /\ all \subseteq seen \/ reader \in {"HasDiagState", "GetDiagState"}
        /\ reader = "diagnostics" /\ ~noted => posted.behind = "no_data"
        /\ reader = "HasDiagState" => found = (\E i \in all : posted.states[i] = "wanted")
        /\ reader = "GetDiagState" => found = (Answer = "success")
=============================================================================
