---- MODULE Normalizer ----
(***************************************************************************)
(* From a source's rows to events (normalize/normalizer.py), through the   *)
(* collection policy (privacy.py).  A row or an event keeps the names of   *)
(* its fields that no mapper looks at, not their values; sensitivities,    *)
(* hosts and addresses are left out.  A field without which the row is     *)
(* dropped is None if it is missing or does not parse.                     *)
(*                                                                         *)
(* A row `raises` if scrub or the mapper ends in an error that is not one  *)
(* of the three that drop a row: a CSV row longer than its header, which   *)
(* has no name for the rest, AuditData that is JSON but no object, a time  *)
(* or a number that overflows.                                             *)
(***************************************************************************)
EXTENDS Integers, Sequences, SequencesExt

CONSTANTS
    None,
    Identifier,        \* how sources and the HR extract write who it was
    canonical_key,     \* canonical_key[i]: without domain, case and punctuation
    lower,             \* lower[f]: the name of a field in lower case
    forbidden_fields,
    hr_csv             \* hr_csv[path]: the rows of an extract of HR, in order

ASSUME NormalizerAssumption ==
    /\ canonical_key \in [Identifier -> Identifier]
    /\ \A i \in Identifier : canonical_key[canonical_key[i]] = canonical_key[i]
    /\ \A f \in DOMAIN lower : lower[f] \in DOMAIN lower
    /\ forbidden_fields \subseteq {lower[f] : f \in DOMAIN lower}
    /\ \A path \in DOMAIN hr_csv : hr_csv[path] \in Seq(ToSet(hr_csv[path]))

\* Values of a row's fields.
Time == Nat \cup {None}
Numeral == {"missing", "number", "text"}
Text == STRING \cup {None}
Fields == SUBSET DOMAIN lower

----------------------------------------------------------------------------
(* Sequences.                                                              *)

\* The members of S, each after those of before[x].
InOrder(S, before) ==
    [n \in 1..Cardinality(S) |-> CHOOSE x \in S : Cardinality(before[x]) = n - 1]

\* The elements of s at the places P.
Selected(s, P) ==
    LET places == InOrder(P, [i \in P |-> {j \in P : j < i}])
    IN  [n \in 1..Cardinality(P) |-> s[places[n]]]

----------------------------------------------------------------------------
(* IdentityResolver, filled from an extract of HR, or empty.               *)

VerbatimNames(row) == row.aliases \cup {row.actor_id}

Keys(row) == {canonical_key[n] : n \in row.aliases \cup {row.actor_id}}

Rows(path) == IF path = None THEN <<>> ELSE hr_csv[path]

\* Later rows overwrite the keys of earlier ones; who is unknown is their key.
resolve(path, identifier) ==
    LET extract == Rows(path)
        key == canonical_key[identifier]
        registered == {i \in DOMAIN extract :
                          extract[i].actor_id # None /\ key \in Keys(extract[i])}
    IN  IF registered = {} THEN key ELSE extract[Max(registered)].actor_id

----------------------------------------------------------------------------
(* CollectionPolicy.                                                       *)

scrub_exactly(row) == [row EXCEPT !.fields = @ \ forbidden_fields]

\* The names at the top of the row, in any case; a nested `extra` is one field.
scrub(row) == [row EXCEPT !.fields = {f \in @ : lower[f] \notin forbidden_fields}]

\* A mapper returns an event or nothing: a row that cannot be mapped is dropped.
Survivors(mapped) == FlattenSeq(mapped)

\* user, path and of are history: who the source says it was, with which extract it
\* was resolved, and the names the row had at the top and nowhere else.
NewEvent(path, user, at, action, extra, of) ==
    [at |-> at, actor |-> resolve(path, user), action |-> action, extra |-> extra,
     user |-> user, path |-> path, of |-> of]

----------------------------------------------------------------------------
(* The mappers of rows close to the schema, and of CERT's.                 *)

GenericRow ==
    [at : Time, user : Text, category : Text, action : Text, bytes : Numeral,
     fields : Fields, extra : Fields, raises : BOOLEAN]

\* What Event.from_dict does not know joins the nested extra; a category it does
\* not know, or a number that is none, drops the row; one that is missing is 0.
map_generic(path, row) ==
    IF None \in {row.at, row.user, row.category, row.action} \/ row.bytes = "text" THEN <<>>
    ELSE <<NewEvent(path, row.user, row.at, row.action, row.extra \cup row.fields,
                    row.fields \ row.extra)>>

CERT_INTERNAL_DOMAIN == "dtaa.com"

CertRow ==
    [file : {"logon", "file", "device", "http", "email"}, at : Time, user : Text,
     activity : STRING, removable : BOOLEAN, domains : SUBSET STRING, size : Numeral,
     fields : Fields, raises : BOOLEAN]

FileActivities == {"file_copy", "file_write", "file_delete"}

CertAction(row) ==
    CASE row.file = "logon" -> IF row.activity = "logon" THEN "logon_success" ELSE "logoff"
      [] row.file = "file" -> IF row.activity \in FileActivities THEN row.activity ELSE "file_read"
      [] row.file = "device" -> IF row.activity = "connect" THEN "usb_connect" ELSE "usb_disconnect"
      [] row.file = "http" -> IF row.activity \in {"upload", "download"} THEN row.activity
                              ELSE "web_visit"
      [] row.file = "email" -> IF row.domains \subseteq {CERT_INTERNAL_DOMAIN} THEN "email_send"
                               ELSE "email_send_external"

CertExtra(row) ==
    CASE row.file = "email" -> {"attachments", "external"}
      [] row.file = "file" /\ row.removable -> {"to_removable_media"}
      [] OTHER -> {}

map_cert(path, row) ==
    IF None \in {row.at, row.user} \/ (row.file = "email" /\ row.size = "text") THEN <<>>
    ELSE <<NewEvent(path, row.user, row.at, CertAction(row), CertExtra(row), row.fields)>>
====
