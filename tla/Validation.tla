----------------------------- MODULE Validation -----------------------------
(***************************************************************************)
(* Row validation (src/app/domain/validation.py).  A posted row is a       *)
(* record whose fields hold a good value or one of two sentinels: Absent   *)
(* stands for every value the type test of a field rejects (missing, null, *)
(* wrong type, blank name, empty datetime), Malformed for a datetime text  *)
(* that HireDatetime.parse refuses.  A check yields the sequence of the    *)
(* errors it found, empty when the field is good, and all checks of a row  *)
(* run: nothing stops at the first error.                                  *)
(***************************************************************************)
EXTENDS Sequences

CONSTANTS
    Absent,     \* a field value of the wrong type, missing or empty
    Malformed   \* a datetime text that is not ISO 8601 with Z

ReasonCode == {"MISSING_ID", "MISSING_NAME", "MISSING_DATETIME", "MISSING_DEPARTMENT",
               "MISSING_JOB", "BAD_DATETIME_FORMAT", "UNKNOWN_DEPARTMENT", "UNKNOWN_JOB"}

Field == {"id", "name", "department", "job", "datetime", "department_id", "job_id"}

FieldError(field, code) == [field |-> field, reason_code |-> code]

\* One error when the test fails, none otherwise.
ErrorUnless(test, field, code) ==
    IF test THEN << >> ELSE << FieldError(field, code) >>

CheckId(row) == ErrorUnless(row.id # Absent, "id", "MISSING_ID")

CheckName(row, key) == ErrorUnless(row.name # Absent, key, "MISSING_NAME")

CheckFkId(value, key, code) == ErrorUnless(value # Absent, key, code)

CheckDatetime(row) ==
    IF row.datetime = Absent
      THEN << FieldError("datetime", "MISSING_DATETIME") >>
      ELSE ErrorUnless(row.datetime # Malformed, "datetime", "BAD_DATETIME_FORMAT")

\* A mutant of DimensionErrors: the name check is forgotten.
DimensionErrorsWithoutName(row, key) == CheckId(row)

\* validate_department and validate_job differ only in the name's key.
DimensionErrors(row, key) == CheckId(row) \o CheckName(row, key)

\* A mutant of CheckReference: a missing reference is reported as unknown, too.
CheckEveryReference(value, known, key, code) == ErrorUnless(known, key, code)

\* The existence error of a reference that is an integer and names no row: an
\* absent reference is not looked up.
CheckReference(value, known, key, code) == ErrorUnless(value = Absent \/ known, key, code)

\* The five field checks, then the existence of the two references.
HireErrors(row, departmentKnown, jobKnown) ==
    CheckId(row)
    \o CheckName(row, "name")
    \o CheckDatetime(row)
    \o CheckFkId(row.department_id, "department_id", "MISSING_DEPARTMENT")
    \o CheckFkId(row.job_id, "job_id", "MISSING_JOB")
    \o CheckReference(row.department_id, departmentKnown, "department_id", "UNKNOWN_DEPARTMENT")
    \o CheckReference(row.job_id, jobKnown, "job_id", "UNKNOWN_JOB")
=============================================================================
