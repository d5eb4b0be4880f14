---- MODULE Dataset ----
(***************************************************************************)
(* The dataset on disk (cli.py): events.jsonl, identities.json and         *)
(* labels.json, which `itds generate` and `itds import` write one after    *)
(* another, a buffer at a time, and which every `itds run` loads, one      *)
(* after another, without a lock.  Either may die, or run beside the       *)
(* other; commands that write are typed one after another.                 *)
(***************************************************************************)
EXTENDS Sources

CONSTANTS
    Commands,      \* generate and import, with their arguments
    Absent, Torn,  \* a file that is not there, or holds half of its JSON
    Garbled,       \* a line that is not JSON
    MaxCommands    \* bound: so many commands are typed

\* What a command writes.
Batch == [cmd \in Commands |-> IF cmd.name = "generate" THEN cmd.events ELSE import_files(cmd)]

FileLine == {Garbled} \cup UNION {ToSet(Batch[cmd]) : cmd \in Commands}

EventsFile == [lines : Seq(FileLine), tail : {"ended", "cut", "glued"}]

IsEvent(e) == e.at \in Nat /\ e.extra \subseteq DOMAIN lower /\ e.path \in DOMAIN hr_csv \cup {None}

\* Generated events name the actor, nobody has to be resolved.
IsGenerate(cmd) ==
    /\ cmd.name = "generate"
    /\ cmd.events \in Seq({e \in ToSet(cmd.events) : IsEvent(e) /\ e.user = None})
    /\ None \notin DOMAIN cmd.identities

ASSUME DatasetAssumption ==
    /\ \A cmd \in Commands : IsGenerate(cmd) \/ \E format \in Formats : cmd \in Imports(format)
    /\ None \notin Commands
    /\ Absent \notin EventsFile
    /\ MaxCommands \in Nat

VARIABLES
    events,      \* events.jsonl: [lines, tail], or Absent
    identities,  \* identities.json
    labels,      \* labels.json
    writer,      \* the command that writes: [at, cmd, left]
    reader,      \* the run that loads: [at, events, identities, labels, alone]
    typed,       \* number of commands typed
    done,        \* history: the commands completed since the file was last overwritten
    directory,   \* history: the last identities written
    sound        \* history: no command died, or one that writes all three files
                 \* was completed since

vars == <<events, identities, labels, writer, reader, typed, done, directory, sound>>

files == <<events, identities, labels>>
history == <<done, directory, sound>>

Directory(cmd) ==
    IF cmd.name = "generate" THEN cmd.identities ELSE load_identities_csv(cmd.identities)

HasDirectory(cmd) == cmd.name = "import" => cmd.identities # None

Appends(cmd) == cmd.name = "import" /\ cmd.append

Idle == [at |-> "idle", cmd |-> None, left |-> <<>>]

NoRun == [at |-> "idle", events |-> <<>>, identities |-> Absent, labels |-> Absent,
          alone |-> FALSE]

Init ==
    /\ events = Absent /\ identities = Absent /\ labels = Absent
    /\ writer = Idle
    /\ reader = NoRun
    /\ typed = 0
    /\ done = <<>> /\ directory = Absent /\ sound = TRUE

----------------------------------------------------------------------------
(* cmd_generate and cmd_import.                                            *)

At(place) == writer.at = place

\* Sources are read to the end first; if that raises, or without events, nothing
\* is written.
TypeCommand(cmd) ==
    /\ At("idle")
    /\ typed < MaxCommands
    /\ cmd.name = "import" => ~Raises(cmd)
    /\ Batch[cmd] # <<>>
    /\ writer' = [at |-> "open", cmd |-> cmd, left |-> Batch[cmd]]
    /\ reader' = [reader EXCEPT !.alone = FALSE]
    /\ typed' = typed + 1
    /\ UNCHANGED <<files, history>>

OpenEvents ==
    /\ At("open")
    /\ events' = IF Appends(writer.cmd) /\ events # Absent THEN events
                 ELSE [lines |-> <<>>, tail |-> "ended"]
    /\ writer' = [writer EXCEPT !.at = "lines"]
    /\ UNCHANGED <<identities, labels, reader, typed, history>>

\* A flush of the buffer ends within a line; after a torn tail, that is glued.
WriteHalf ==
    /\ At("lines") /\ writer.left # <<>>
    /\ events' = [events EXCEPT !.tail = IF @ = "ended" THEN "cut" ELSE "glued"]
    /\ writer' = [writer EXCEPT !.at = "half"]
    /\ UNCHANGED <<identities, labels, reader, typed, history>>

\* The rest of a line, or a line as a whole.
WriteLine ==
    /\ At("half") \/ (At("lines") /\ writer.left # <<>>)
    /\ LET whole == events.tail = (IF At("half") THEN "cut" ELSE "ended")
           line == IF whole THEN Head(writer.left) ELSE Garbled
       IN  events' = [lines |-> Append(events.lines, line), tail |-> "ended"]
    /\ writer' = [writer EXCEPT !.at = "lines", !.left = Tail(@)]
    /\ UNCHANGED <<identities, labels, reader, typed, history>>

\* _write_identities
TruncateIdentities ==
    /\ At("lines") /\ writer.left = <<>>
    /\ HasDirectory(writer.cmd)
    /\ identities' = Torn
    /\ writer' = [writer EXCEPT !.at = "identities"]
    /\ UNCHANGED <<events, labels, reader, typed, history>>

WriteIdentities ==
    /\ At("identities")
    /\ identities' = Directory(writer.cmd)
    /\ directory' = Directory(writer.cmd)
    /\ writer' = [writer EXCEPT !.at = "labels"]
    /\ UNCHANGED <<events, labels, reader, typed, done, sound>>

TruncateLabels ==
    /\ At("labels")
    /\ writer.cmd.name = "generate"
    /\ labels' = Torn
    /\ writer' = [writer EXCEPT !.at = "label text"]
    /\ UNCHANGED <<events, identities, reader, typed, history>>

KeptLabels(cmd) == IF cmd.name = "generate" THEN cmd.labels ELSE labels

\* The labels a command leaves.
FinalLabels(cmd) ==
    IF cmd.name = "generate" THEN cmd.labels ELSE IF cmd.append THEN labels ELSE Absent

Finish ==
    /\ \/ At("label text")
       \/ writer.cmd # None /\ writer.cmd.name = "import"
          /\ \/ At("labels")
             \/ At("lines") /\ writer.left = <<>> /\ ~HasDirectory(writer.cmd)
    /\ labels' = FinalLabels(writer.cmd)
    /\ done' = IF Appends(writer.cmd) THEN Append(done, writer.cmd) ELSE <<writer.cmd>>
    /\ sound' = (sound \/ (HasDirectory(writer.cmd) /\ ~Appends(writer.cmd)))
    /\ writer' = Idle
    /\ UNCHANGED <<events, identities, reader, typed, directory>>

WriterDies ==
    /\ ~At("idle")
    /\ sound' = (sound /\ At("open"))
    /\ writer' = Idle
    /\ UNCHANGED <<files, reader, typed, done, directory>>

----------------------------------------------------------------------------
(* cmd_run, to the end of _load_generated.  The read of a file is one step.*)

Readable(file) == file.tail = "ended" /\ Garbled \notin ToSet(file.lines)

LoadEvents ==
    /\ reader.at = "idle"
    /\ events # Absent /\ Readable(events)    \* otherwise it prints or raises, and ends
    /\ reader' = [NoRun EXCEPT !.at = "identities", !.events = events.lines,
                               !.alone = At("idle")]
    /\ UNCHANGED <<files, writer, typed, history>>

LoadIdentities ==
    /\ reader.at = "identities"
    /\ identities # Torn
    /\ reader' = [reader EXCEPT !.at = "labels", !.identities = identities]
    /\ UNCHANGED <<files, writer, typed, history>>

LoadLabels ==
    /\ reader.at = "labels"
    /\ labels # Torn
    /\ reader' = [reader EXCEPT !.at = "loaded", !.labels = labels]
    /\ UNCHANGED <<files, writer, typed, history>>

\* The run goes on, raises because a file is torn, or dies.
RunLeaves ==
    /\ reader.at # "idle"
    /\ reader' = NoRun
    /\ UNCHANGED <<files, writer, typed, history>>

Next ==
    \/ \E cmd \in Commands : TypeCommand(cmd)
    \/ OpenEvents \/ WriteHalf \/ WriteLine
    \/ TruncateIdentities \/ WriteIdentities \/ TruncateLabels
    \/ Finish
    \/ WriterDies
    \/ LoadEvents \/ LoadIdentities \/ LoadLabels \/ RunLeaves

Spec == Init /\ [][Next]_vars

----------------------------------------------------------------------------
(* Properties that hold.                                                   *)

TypeOK ==
    /\ events = Absent \/
           /\ \A line \in ToSet(events.lines) : line = Garbled \/ IsEvent(line)
           /\ events.tail \in {"ended", "cut", "glued"}
    /\ identities \in {Absent, Torn} \/ None \notin DOMAIN identities
    /\ writer.at \in {"idle", "open", "lines", "half", "identities", "labels", "label text"}
    /\ writer.at = "half" => events.tail # "ended" /\ writer.left # <<>>
    /\ writer.at = "idle" <=> writer.cmd = None
    /\ reader.at \in {"idle", "identities", "labels", "loaded"}
    /\ \A e \in ToSet(reader.events) : IsEvent(e)
    /\ typed \in 0..MaxCommands
    /\ Len(done) <= typed

\* A run that no command overlapped works on one dataset: the events of the
\* commands since the last that overwrote, all of them and in order, the last
\* directory given, and planted labels only with the events they were planted in.
\* A command that writes all three files mends whatever a death left.
RunSeesTheDataset ==
    reader.at = "loaded" /\ reader.alone /\ sound =>
        /\ reader.events = FlattenSeq([i \in DOMAIN done |-> Batch[done[i]]])
        /\ reader.identities = directory
        /\ reader.labels = (IF done[1].name = "generate" THEN done[1].labels ELSE Absent)

Lines == IF events = Absent THEN {} ELSE ToSet(events.lines) \ {Garbled}

Imported == {e \in Lines : e.user # None}

People(path) == {row \in ToSet(Rows(path)) : row.actor_id # None}

\* The rows of an extract that list an identifier.
Listed(path, user) == {row \in People(path) : user \in row.aliases \cup {row.actor_id}}

Unambiguous(path) ==
    \A row, other \in People(path) :
        Keys(row) \cap Keys(other) # {} => row.actor_id = other.actor_id

\* ARCHITECTURE.md:22: imports with the same extract give the events of a person
\* one actor, whatever source names the person in whatever way, and two people two.
OneActorPerExtract ==
    At("idle") => \A e, f \in Imported :
        e.path = f.path /\ Unambiguous(e.path) =>
            \A row \in Listed(e.path, e.user), other \in Listed(f.path, f.user) :
                e.actor = f.actor <=> row.actor_id = other.actor_id

KernelEvents(file) == {<<line.at, line.serial>> : line \in ToSet(file)}

Alone(file, id) == Selected(file, {i \in DOMAIN file : <<file[i].at, file[i].serial>> = id})

Own(batch, id) == Selected(batch, {i \in DOMAIN batch : batch[i].of = id})

\* A kernel event whose lines are in one file gives what they give alone, however
\* the lines of others lie between them.
AuditEventsWhole ==
    At("open") /\ writer.cmd.name = "import" /\ writer.cmd.format = "auditd" =>
        LET paths == writer.cmd.paths IN
        \A i \in DOMAIN paths : \A id \in KernelEvents(paths[i]) :
            (\A j \in DOMAIN paths \ {i} : id \notin KernelEvents(paths[j])) =>
                Own(writer.left, id) = read_auditd(writer.cmd.identities, Alone(paths[i], id))

\* What the command would import if no field were forbidden.
Ungated(cmd) ==
    SortedByTime(FlattenSeq([i \in DOMAIN cmd.paths |->
        LET rows == cmd.paths[i] IN
        Survivors([j \in DOMAIN rows |-> Mapper(cmd, rows[j])])]))

\* privacy.py:148: the gate strips the field and keeps the event.  The events are
\* those there would be without it, each misses none but forbidden fields, and has
\* no forbidden one that its row had at the top and nowhere else.
GateStripsOnlyFields ==
    At("open") /\ writer.cmd.name = "import" /\ writer.cmd.format # "auditd" =>
        LET ungated == Ungated(writer.cmd)
            forbidden(f) == lower[f] \in forbidden_fields
        IN  /\ Len(writer.left) = Len(ungated)
            /\ \A i \in DOMAIN ungated :
                   LET e == writer.left[i]
                       u == ungated[i]
                   IN  /\ <<e.at, e.actor, e.action>> = <<u.at, u.actor, u.action>>
                       /\ e.extra \subseteq u.extra
                       /\ \A f \in u.extra \ e.extra : forbidden(f)
                       /\ \A f \in u.of \cap e.extra : ~forbidden(f)

----------------------------------------------------------------------------
(* What a document says and the code does not keep.                        *)

\* ARCHITECTURE.md:22, "Identifiers are resolved to one actor": identifiers that
\* an extract given to a command of this dataset lists for one person.
OneActorPerPerson ==
    At("idle") /\ sound =>
        \A i \in DOMAIN done : done[i].name = "import" /\ done[i].identities # None =>
            \A e, f \in Imported :
                Listed(done[i].identities, e.user) \cap Listed(done[i].identities, f.user) # {}
                    => e.actor = f.actor

\* ARCHITECTURE.md:22, forbidden fields "never enter the system, whatever the source
\* sends".
NothingForbiddenEnters ==
    \A e \in Lines : \A f \in e.extra : lower[f] \notin forbidden_fields
====
