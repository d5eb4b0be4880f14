---- MODULE MCDataset ----
(***************************************************************************)
(* TLC instance of Dataset.  Adaeze and Ngozi are known to HR; Ada and the *)
(* service "svc" are not.                                                  *)
(***************************************************************************)
EXTENDS Dataset

MCForms == {<<"CORP\\aokafor", "aokafor">>, <<"adaeze.okafor@corp.example", "adaezeokafor">>,
            <<"ngozi", "ngozi">>, <<"N.Gozi", "ngozi">>, <<"uid1001", "uid1001">>,
            <<"u101", "u101">>, <<"u104", "u104">>, <<"Ada", "ada">>, <<"ada", "ada">>}

MCIdentifier == {form[1] : form \in MCForms} \cup {form[2] : form \in MCForms}

MCKey == [i \in MCIdentifier |->
              IF \E form \in MCForms : form[1] = i
              THEN (CHOOSE form \in MCForms : form[1] = i)[2] ELSE i]

MCLower == [f \in OwnFields \cup {"Password", "password", "content", "session"} |->
                IF f = "Password" THEN "password" ELSE f]

MCForbidden == {"password", "content"}
MCIgnored == {"WS-1042$", "system"}

HR == "hr.csv"

MCHr == HR :> <<[actor_id |-> "u101", about |-> "stays",
         aliases |-> {"CORP\\aokafor", "adaeze.okafor@corp.example"}],
        [actor_id |-> None, about |-> "stays", aliases |-> {"ngozi"}],
        [actor_id |-> "u104", about |-> "stays", aliases |-> {"uid1001", "N.Gozi"}],
        [actor_id |-> "u104", about |-> "leaves", aliases |-> {}]>>

Generate == [name |-> "generate", identities |-> [a \in {"u1"} |-> "leaves"],
             labels |-> [a \in {"u1"} |-> "exfiltration"],
             events |-> <<[at |-> 1, actor |-> "u1", action |-> "usb_write", extra |-> {},
                           user |-> None, path |-> None, of |-> {}]>>]

Import(format, paths, hr, append) ==
    [name |-> "import", format |-> format, paths |-> paths, identities |-> hr,
     append |-> append, internal |-> {"corp.example"}]

Record(id, at, subject, target) ==
    [id |-> id, at |-> at, subject |-> subject, target |-> target, elevated |-> id = 4688,
     access |-> IF id = 4663 THEN {"write"} ELSE {}, fields |-> {"session", "content"},
     raises |-> FALSE]

Windows == <<Record(4663, 3, "ngozi", None), Record(4624, 2, "WS-1042$", "CORP\\aokafor"),
             Record(4624, 2, None, "WS-1042$"), Record(4663, None, "ngozi", None),
             Record(4999, 2, "ngozi", None)>>

Line(at, serial, type, acct, auid) ==
    [at |-> at, serial |-> serial, type |-> type, acct |-> acct, AUID |-> None, auid |-> auid,
     res |-> "success", key |-> IF type = "SYSCALL" THEN "write" ELSE None,
     raises |-> FALSE]

\* Two lines each of two kernel events, and one of root.
Cwd == Line(4, 7, "CWD", None, None)
Syscall == Line(4, 7, "SYSCALL", None, "1001")
Login == Line(4, 8, "USER_LOGIN", "(unknown)", None)
LoginId == Line(4, 8, "EOE", None, "1001")
Root == Line(5, 7, "USER_CMD", "root", "1001")

AuditFiles == {<<Cwd, Login, LoginId, Syscall, Root>>, <<Root, Syscall, Login, Cwd, LoginId>>}

\* The log was rotated in the middle of an event.
Rotated == <<<<Login, LoginId, Cwd>>, <<Syscall, Root>>>>

Mail(op, user, domains) ==
    [op |-> op, user |-> user, data_user |-> "ngozi", at |-> 6, domains |-> domains,
     label |-> {}, fields |-> {"content"}, raises |-> FALSE]

M365 == <<Mail("Send", "adaeze.okafor@corp.example", {}),
          Mail("New-InboxRule", None, {"corp.example", "mail.example"}),
          Mail("New-InboxRule", None, {"corp.example"})>>

Generic(user, bytes, fields, extra) ==
    [at |-> 7, user |-> user, category |-> "file", action |-> "file_read", bytes |-> bytes,
     fields |-> fields, extra |-> extra, raises |-> FALSE]

\* A missing number is 0, one that is not a number drops the row.
Json == <<Generic("Ada", "missing", {"Password", "session", "content"}, {"content"}),
          Generic("N.Gozi", "text", {}, {})>>

\* Its second row is longer than the header.
Csv == <<Generic("N.Gozi", "number", {"session"}, {}),
         [Generic("Ada", "number", {}, {}) EXCEPT !.raises = TRUE]>>

Cert(file, activity, domains, size) ==
    [file |-> file, at |-> 1, user |-> "ada", activity |-> activity, removable |-> TRUE,
     domains |-> domains, size |-> size, fields |-> {"content"}, raises |-> FALSE]

CertRows == <<Cert("email", "send", {"mail.example"}, "text"),
              Cert("file", "file_copy", {}, "missing"),
              Cert("email", "send", {"mail.example"}, "missing")>>

MCCommands ==
    {Generate, Import("windows", <<Windows>>, HR, FALSE), Import("m365", <<M365>>, HR, TRUE),
     Import("jsonl", <<Json>>, None, FALSE), Import("cert", <<CertRows>>, HR, TRUE),
     Import("auditd", Rotated, HR, TRUE), Import("csv", <<Csv>>, HR, FALSE)}
    \cup {Import("auditd", <<file>>, HR, TRUE) : file \in AuditFiles}

\* docs/DATASET.md:44-46
MCRecipe == {Import("windows", <<Windows>>, HR, FALSE),
             Import("auditd", <<<<Cwd, Syscall>>>>, None, TRUE),
             Import("m365", <<M365>>, None, TRUE)}
====
