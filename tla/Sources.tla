---- MODULE Sources ----
(***************************************************************************)
(* The importers of real logs (ingest/sources.py): which records become    *)
(* events, whose and of what kind.  Formats and their variants are read to *)
(* records of the fields that decide this; None is a field that is not     *)
(* there.                                                                  *)
(***************************************************************************)
EXTENDS Normalizer

CONSTANTS
    IgnoredAccounts    \* machine accounts and the system's own

\* The names mappers write of their own.
OwnFields ==
    {"event_id", "logon_type", "process", "privileged", "group", "member", "device",
     "terminal", "command", "audit_key", "attachments", "external", "to_removable_media",
     "rule", "target", "sensitivity_label"}

\* No policy forbids them.
ASSUME SourcesAssumption ==
    /\ OwnFields \subseteq DOMAIN lower
    /\ \A f \in OwnFields : lower[f] \notin forbidden_fields

RealUser(name) == IF name \in IgnoredAccounts THEN None ELSE name

----------------------------------------------------------------------------
(* Windows Security.                                                       *)

WindowsRecord ==
    [id : Nat, at : Time, subject : Text, target : Text, elevated : BOOLEAN,
     access : SUBSET STRING, fields : Fields, raises : BOOLEAN]

WindowsAction(rec) ==
    CASE rec.id = 4624 -> "logon_success"
      [] rec.id = 4625 -> "logon_failure"
      [] rec.id \in {4663, 5145} -> IF "delete" \in rec.access THEN "file_delete"
                                    ELSE IF "write" \in rec.access THEN "file_write"
                                    ELSE "file_read"
      [] rec.id = 4688 -> IF rec.elevated THEN "privileged_command" ELSE None
      [] rec.id = 1102 -> "log_cleared"
      [] rec.id = 4719 -> "audit_policy_change"
      [] rec.id \in {4728, 4732, 4756} -> "group_membership_change"
      [] rec.id = 6416 -> "usb_connect"
      [] OTHER -> None

\* A logon is of its target, everything else of its subject.
WindowsUser(rec) == RealUser(IF rec.id \in {4624, 4625} THEN rec.target ELSE rec.subject)

WindowsExtra(rec) ==
    {"event_id"} \cup
    CASE rec.id \in {4624, 4625} -> {"logon_type"}
      [] rec.id = 4688 -> {"process", "privileged"}
      [] rec.id \in {4728, 4732, 4756} -> {"group", "member"}
      [] rec.id = 6416 -> {"device"}
      [] OTHER -> {}

WindowsSecurityMapper(path, rec) ==
    IF None \in {rec.at, WindowsUser(rec), WindowsAction(rec)} THEN <<>>
    ELSE <<NewEvent(path, WindowsUser(rec), rec.at, WindowsAction(rec), WindowsExtra(rec),
                    rec.fields)>>

----------------------------------------------------------------------------
(* Linux auditd: one kernel event is several lines, of the same time and   *)
(* serial number, between lines of others.                                 *)

AuditLine ==
    [at : Nat, serial : Nat, type : STRING, acct : Text, AUID : Text, auid : Text,
     res : Text, key : Text, raises : BOOLEAN]

EventKey(line) == <<line.at, line.serial>>

\* Grouping that ends with the first line of another event.
AdjacentLines(file, key) ==
    LET own == {i \in DOMAIN file : EventKey(file[i]) = key}
        others == {i \in (DOMAIN file) \ own : i > Min(own)}
    IN  SubSeq(file, Min(own), (IF others = {} THEN Len(file) + 1 ELSE Min(others)) - 1)

LinesOf(file, key) == Selected(file, {i \in DOMAIN file : EventKey(file[i]) = key})

\* merged.get(name): the first line that has the field counts.
Merged(lines, name) ==
    LET having == {i \in DOMAIN lines : lines[i][name] # None}
    IN  IF having = {} THEN None ELSE lines[Min(having)][name]

Types(lines) == {line.type : line \in ToSet(lines)}

\* The account, else the login name, else the login uid; never root alone.
AuditUser(lines) ==
    LET acct == Merged(lines, "acct")
        auid == Merged(lines, "auid")
        user == IF acct \notin {None, "(unknown)"} THEN acct
                ELSE IF Merged(lines, "AUID") # None THEN Merged(lines, "AUID")
                ELSE IF auid \notin {None, "4294967295"} THEN "uid" \o auid
                ELSE None
    IN  IF user = "root" THEN None ELSE RealUser(user)

\* [action, extra], or None.  `key` is what the name of the watch contains.
AuditMeaning(lines) ==
    LET success == Merged(lines, "res") = "success"
        key == Merged(lines, "key")
        is(action, extra) == [action |-> action, extra |-> extra]
    IN  IF "USER_LOGIN" \in Types(lines)
        THEN is(IF success THEN "logon_success" ELSE "logon_failure", {"terminal"})
        ELSE IF "USER_AUTH" \in Types(lines) /\ ~success THEN is("logon_failure", {})
        ELSE IF "USER_CMD" \in Types(lines) THEN is("privileged_command", {"command", "privileged"})
        ELSE IF "SYSCALL" \notin Types(lines) \/ key \in {None, "(null)"} THEN None
        ELSE IF key = "usb" THEN is("usb_write", {})
        ELSE is(IF key = "write" THEN "file_write" ELSE "file_read", {"audit_key"})

AuditEvent(path, lines) ==
    LET meaning == AuditMeaning(lines)
    IN  IF None \in {AuditUser(lines), meaning} THEN <<>>
        ELSE <<NewEvent(path, AuditUser(lines), lines[1].at, meaning.action,
                        scrub([fields |-> meaning.extra]).fields, EventKey(lines[1]))>>

\* Groups in the order of their first lines.
read_auditd(path, file) ==
    LET first == {i \in DOMAIN file : \A j \in 1..(i - 1) : EventKey(file[j]) # EventKey(file[i])}
        begin == Selected(file, first)
    IN  Survivors([i \in DOMAIN begin |-> AuditEvent(path, LinesOf(file, EventKey(begin[i])))])

----------------------------------------------------------------------------
(* Microsoft 365.                                                          *)

M365Row ==
    [op : STRING, user : Text, data_user : Text, at : Time, domains : SUBSET STRING,
     label : SUBSET {"sensitivity_label"}, fields : Fields, raises : BOOLEAN]

M365Action(row, internal) ==
    CASE row.op \in {"New-InboxRule", "Set-InboxRule", "UpdateInboxRules"} ->
             IF row.domains # {} /\ (internal = {} \/ ~(row.domains \subseteq internal))
             THEN "mail_forward_rule_external" ELSE None
      [] row.op = "UserLoggedIn" -> "logon_success"
      [] row.op = "UserLoginFailed" -> "logon_failure"
      [] row.op \in {"FileAccessed", "FilePreviewed"} -> "file_read"
      [] row.op \in {"FileDownloaded", "FileSyncDownloadedFull"} -> "file_download"
      [] row.op = "FileCopied" -> "file_copy"
      [] row.op \in {"FileUploaded", "FileModified"} -> "file_write"
      [] row.op = "FileDeleted" -> "file_delete"
      [] row.op \in {"AnonymousLinkCreated", "SharingInvitationCreated", "AddedToSecureLink"} ->
             "external_share"
      [] row.op = "Send" -> "email_send"
      [] OTHER -> None

M365Mapper(path, internal, row) ==
    LET user == RealUser(IF row.user # None THEN row.user ELSE row.data_user)
        action == M365Action(row, internal)
        extra == CASE action = "mail_forward_rule_external" -> {"rule"}
                   [] action = "external_share" -> row.label \cup {"target"}
                   [] OTHER -> row.label
    IN  IF None \in {row.at, user, action} THEN <<>>
        ELSE <<NewEvent(path, user, row.at, action, extra, row.fields)>>

----------------------------------------------------------------------------
(* The HR extract, and the driver.                                         *)

EveryRow(path) ==
    [a \in {row.actor_id : row \in ToSet(Rows(path))} |->
        (CHOOSE row \in ToSet(Rows(path)) : row.actor_id = a).about]

\* By actor_id, the last row of each.
load_identities_csv(path) ==
    LET extract == Rows(path)
        rows(a) == {i \in DOMAIN extract : extract[i].actor_id = a}
    IN  [a \in {row.actor_id : row \in ToSet(extract)} \ {None} |-> extract[Max(rows(a))].about]

\* The mapper of a row of the command's format.
Mapper(cmd, row) ==
    CASE cmd.format = "windows" -> WindowsSecurityMapper(cmd.identities, row)
      [] cmd.format = "m365" -> M365Mapper(cmd.identities, cmd.internal, row)
      [] cmd.format = "cert" -> map_cert(cmd.identities, row)
      [] cmd.format \in {"jsonl", "csv"} -> map_generic(cmd.identities, row)

normalize_many(cmd, rows) == Survivors([i \in DOMAIN rows |-> Mapper(cmd, scrub(rows[i]))])

\* events.sort: stable.
SortedByTime(events) ==
    LET before == [i \in DOMAIN events |-> {j \in DOMAIN events :
                      \/ events[j].at < events[i].at
                      \/ events[j].at = events[i].at /\ j < i}]
        places == InOrder(DOMAIN events, before)
    IN  [n \in DOMAIN events |-> events[places[n]]]

\* Each path on its own, one after another.
import_files(cmd) ==
    SortedByTime(FlattenSeq([i \in DOMAIN cmd.paths |->
        IF cmd.format = "auditd" THEN read_auditd(cmd.identities, cmd.paths[i])
        ELSE normalize_many(cmd, cmd.paths[i])]))

\* One such row, of all the files, ends the import.
Raises(cmd) == \E path \in ToSet(cmd.paths) : \E row \in ToSet(path) : row.raises

Formats == {"windows", "m365", "cert", "jsonl", "csv", "auditd"}

Row(format) ==
    CASE format = "windows" -> WindowsRecord
      [] format = "m365" -> M365Row
      [] format = "cert" -> CertRow
      [] format \in {"jsonl", "csv"} -> GenericRow
      [] format = "auditd" -> AuditLine

\* The files of a command of this format.
Imports(format) ==
    [name : {"import"}, format : {format}, paths : Seq(Seq(Row(format))),
     identities : DOMAIN hr_csv \cup {None}, append : BOOLEAN, internal : SUBSET STRING]
====
