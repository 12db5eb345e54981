---------------------------- MODULE FileService ----------------------------
(***************************************************************************)
(* relay/internal/fileapi/service.go and the file handlers of              *)
(* relay/internal/server/server.go: listing and reading files below the    *)
(* configured roots, or below the directory a session's shell is in, on a  *)
(* disk that changes between the steps of a request.                       *)
(*                                                                         *)
(* A path is a sequence of names, absolute if it names a volume (the relay *)
(* runs on Windows); a disk maps the paths that exist to a directory, a    *)
(* file or a link.  Requests share nothing but the service, which no       *)
(* request changes, so one is followed at a time.                          *)
(***************************************************************************)
EXTENDS Integers, Sequences, FiniteSets, SequencesExt

CONSTANTS
  Lead, Trail, \* each name without the blanks it begins with, or ends with; "" if nothing is left
  Rank,        \* the place of each name among the names in lower case
  Disk,        \* the disks there may be
  Config,      \* what NewService may be called with: roots and maxFileBytes
  DefaultMax,  \* DefaultMaxFileBytes
  RootId,      \* values of the query parameter root
  Cwd,         \* values of Session.cwd, [abs |-> FALSE, path |-> <<>>] is ""
  Path,        \* values of the query parameter path, "" likewise
  Fuel         \* bound: names and links followed before the operating system gives up

Name     == DOMAIN Lead
Proper   == Name \ {".", ".."}   \* what a directory can hold
Encoding == {"utf-8", "utf-16le", "utf-16be", "shift_jis"}

\* A file: its byte order mark; what the bytes after it are in each encoding they are valid in,
\* as kinds of characters; whether a zero byte is among them; the encoding it was written in.
IsFile(f) ==
  /\ f.kind = "file" /\ f.size \in Nat
  /\ f.mark \in Encoding \cup {"none"} /\ f.mark # "shift_jis"
  /\ DOMAIN f.as \subseteq Encoding /\ f.written \in DOMAIN f.as \cup {"none"}
  /\ f.nul \in BOOLEAN
  /\ f.nul => \A e \in DOMAIN f.as \cap {"utf-8", "shift_jis"} : "nul" \in f.as[e]

ASSUME FileAssumption ==
  /\ DefaultMax \in Nat \ {0} /\ Fuel \in Nat \ {0}
  /\ "" \notin Name /\ DOMAIN Trail = Name \cup {""} /\ Trail[""] = ""
  /\ \A n \in Name : Lead[n] \in Name \cup {""} /\ Trail[n] \in Name \cup {""}
  /\ \A d \in Disk : /\ DOMAIN d \subseteq Seq(Proper)
                     /\ <<>> \in DOMAIN d /\ d[<<>>].kind = "dir"
                     /\ \A p \in DOMAIN d : \/ d[p].kind = "dir"
                                            \/ d[p].kind = "link" /\ d[p].to \in Seq(Proper)
                                            \/ IsFile(d[p])
  /\ \A c \in Config : c.max \in Int /\ \A i \in DOMAIN c.roots : c.roots[i].path \in Seq(Proper)
  /\ \A r \in Cwd \cup Path : r \in [abs : BOOLEAN, path : Seq(Name)]

VARIABLES
  disk,
  roots, limit,                \* Service: byID and maxFileBytes
  listed, cwd,                 \* the session of the request
  pc, op, base, want,          \* the request under way
  at, size,                    \* listResolved, readResolved
  todo, child, entries,        \* listResolved
  answer,
  calm,                        \* history: the disk is as the request found it
  refused                      \* history: the system refused a call of the request

service == <<roots, limit>>
session == <<listed, cwd>>
request == <<op, base, want>>
work    == <<at, size, todo, child, entries>>
vars    == <<disk, service, session, pc, request, work, answer, calm, refused>>

Empty  == [abs |-> FALSE, path |-> <<>>]
Absent == "absent"           \* a query parameter left out
Fault  == "internal_error"
\* writeFileError.
HttpStatus ==
  [files_disabled |-> 404, root_not_found |-> 404, cwd_invalid |-> 409, not_found |-> 404,
   forbidden |-> 403, not_directory |-> 400, not_text |-> 400, file_too_large |-> 413,
   internal_error |-> 500, invalid_request |-> 400, cwd_unknown |-> 409]

Failed(code) == [status |-> HttpStatus[code], code |-> code]
NoAnswer == [code |-> "none"]
NoChild == [name |-> Absent, path |-> <<>>, real |-> <<>>]

Init ==
  /\ disk \in Disk /\ calm = TRUE /\ refused = FALSE
  /\ roots = <<>> /\ limit = 0
  /\ listed = TRUE /\ cwd = Empty
  /\ pc = "start" /\ op = "list" /\ base = <<>> /\ want = Empty
  /\ at = <<>> /\ size = 0 /\ todo = {} /\ child = NoChild /\ entries = {}
  /\ answer = NoAnswer

-----------------------------------------------------------------------------
\* filepath.EvalSymlinks and os.Stat: follow a path from the top of the disk.
Step(d, w) ==
  LET next == Append(w.done, Head(w.todo))
  IN IF w.err # "nil" \/ w.todo = <<>> THEN w
     ELSE IF next \notin DOMAIN d THEN [w EXCEPT !.err = "not_found"]
     ELSE IF d[next].kind = "link"
       THEN [w EXCEPT !.done = <<>>, !.todo = d[next].to \o Tail(@)]
     ELSE IF d[next].kind = "file" /\ Len(w.todo) > 1 THEN [w EXCEPT !.err = Fault]
     ELSE [w EXCEPT !.done = next, !.todo = Tail(@)]
Walk(d, p) ==
  LET walk[k \in 0..Fuel] == IF k = 0 THEN [done |-> <<>>, todo |-> p, err |-> "nil"]
                             ELSE Step(d, walk[k - 1])
  IN walk[Fuel]
Real(d, p) ==
  LET w == Walk(d, p)
  IN [path |-> w.done, err |-> IF w.err = "nil" /\ w.todo # <<>> THEN Fault ELSE w.err]
Kind(d, p) == d[Real(d, p).path].kind
Names(d, p) == {q[Len(q)] : q \in {r \in DOMAIN d : r # <<>> /\ Front(r) = p}}

\* filepath.Clean of an absolute path.
Enter(q, n) == IF n \in {"", "."} THEN q
               ELSE IF n # ".." THEN Append(q, n)
               ELSE IF q = <<>> THEN q ELSE Front(q)
Clean(p) ==
  LET clean[k \in 0..Len(p)] == IF k = 0 THEN <<>> ELSE Enter(clean[k - 1], p[k])
  IN clean[Len(p)]

\* strings.TrimSpace of a path: it takes blanks off the last name, and off the first of a path
\* that does not begin with a volume.
Trim(r) ==
  LET p     == r.path
      begun == [i \in DOMAIN p |-> IF i = 1 /\ ~r.abs THEN Lead[p[i]] ELSE p[i]]
  IN [r EXCEPT !.path = [i \in DOMAIN p |-> IF i = Len(p) THEN Trail[begun[i]] ELSE begun[i]]]

\* Where a path leads before links are followed.  One that begins with a slash and no volume
\* stays below the base: its Clean keeps no .. at its beginning.
Target(b, r) ==
  LET p == Trim(r).path
  IN IF r.abs THEN Clean(p)
     ELSE IF p # <<>> /\ p[1] = "" THEN b \o Clean(p)
     ELSE Clean(b \o p)

InsideSwapped(root, target) == IsPrefix(target, root)  \* mutant
InsideRoot(root, target) == IsPrefix(root, target)

ResolveBase(d, b, r) ==
  LET target == Target(b, r)
      real   == Real(d, target)
  IN IF ~InsideRoot(b, target) THEN [path |-> <<>>, err |-> "forbidden"]
     ELSE IF real.err = "nil" /\ ~InsideRoot(b, real.path) THEN [real EXCEPT !.err = "forbidden"]
     ELSE real

Rel(b, p) == SubSeq(p, Len(b) + 1, Len(p))
JoinBare(rel, name) == <<name>>  \* mutant: the name alone
JoinRelative(rel, name) == Append(rel, name)

-----------------------------------------------------------------------------
(* decodeText: by the mark if there is one, else UTF-8 if the bytes are valid, *)
(* whatever they were written as, else Shift_JIS.                              *)
NotText == [text |-> {}, encoding |-> "none"]
LooksLikeText(chars) == chars \subseteq {"ascii", "wide", "other"}
ReadAs(f, e) == IF e \in DOMAIN f.as /\ LooksLikeText(f.as[e])
                  THEN [text |-> f.as[e], encoding |-> e] ELSE NotText
Guess(f) == IF f.nul THEN NotText
            ELSE IF "utf-8" \in DOMAIN f.as THEN ReadAs(f, "utf-8") ELSE ReadAs(f, "shift_jis")

DecodeNoMark(f) == Guess(f)  \* mutant: decides by the bytes alone, whatever the mark says
DecodeText(f) == IF f.mark # "none" THEN ReadAs(f, f.mark) ELSE Guess(f)

-----------------------------------------------------------------------------
\* NewService: every root named, placed, told apart and an existing directory; its
\* path is resolved once and for all.
Usable(c) ==
  /\ c.max >= 0
  /\ \A i \in DOMAIN c.roots :
       /\ c.roots[i].blank = {}
       /\ \A j \in DOMAIN c.roots : i # j => c.roots[i].id # c.roots[j].id
       /\ Real(disk, c.roots[i].path).err = "nil" /\ Kind(disk, c.roots[i].path) = "dir"

Start(c) ==
  /\ pc = "start"
  /\ IF Usable(c)
       THEN /\ pc' = "idle"
            /\ limit' = IF c.max = 0 THEN DefaultMax ELSE c.max
            /\ roots' = [id \in {c.roots[i].id : i \in DOMAIN c.roots} |->
                 Real(disk, c.roots[CHOOSE i \in DOMAIN c.roots : c.roots[i].id = id].path).path]
       ELSE pc' = "refused" /\ UNCHANGED service
  /\ UNCHANGED <<disk, session, request, work, answer, calm, refused>>

Answer(a) == pc' = "done" /\ answer' = a

\* handleFileList, handleFileRead, then List and Read: find the root.
Ask(o, id, p) ==
  /\ pc = "idle"
  /\ op' = o /\ want' = p
  /\ \/ id = Absent /\ Answer(Failed("invalid_request")) /\ UNCHANGED base
     \/ id # Absent /\ roots = <<>> /\ Answer(Failed("files_disabled")) /\ UNCHANGED base
     \/ /\ id # Absent /\ roots # <<>> /\ id \notin DOMAIN roots
        /\ Answer(Failed("root_not_found")) /\ UNCHANGED base
     \/ /\ id \in DOMAIN roots
        /\ base' = roots[id] /\ pc' = "resolve" /\ UNCHANGED answer
  /\ UNCHANGED <<disk, service, session, work, calm, refused>>

\* handleSessionFileList, handleSessionFileRead, and normalizeBase up to its first look at the
\* disk: the session and where its shell is.
AskSession(o, p) ==
  /\ pc = "idle"
  /\ op' = o /\ want' = p
  /\ \/ ~listed /\ Answer(Failed("not_found")) /\ UNCHANGED base
     \/ listed /\ cwd = Empty /\ Answer(Failed("cwd_unknown")) /\ UNCHANGED base
     \/ listed /\ cwd # Empty /\ ~cwd.abs /\ Answer(Failed("cwd_invalid")) /\ UNCHANGED base
     \/ listed /\ cwd.abs /\ base' = Clean(Trim(cwd).path) /\ pc' = "base" /\ UNCHANGED answer
  /\ UNCHANGED <<disk, service, session, work, calm, refused>>

\* normalizeBase: the links on the way, then whether what was found is a directory.
EvalBase ==
  /\ pc = "base"
  /\ LET real == Real(disk, base)
     IN IF real.err # "nil" THEN Answer(Failed(real.err)) /\ UNCHANGED base
        ELSE base' = real.path /\ pc' = "isdir" /\ UNCHANGED answer
  /\ UNCHANGED <<disk, service, session, op, want, work, calm, refused>>

StatBase ==
  /\ pc = "isdir"
  /\ LET real == Real(disk, base)
     IN IF real.err # "nil" THEN Answer(Failed(real.err))
        ELSE IF disk[real.path].kind # "dir" THEN Answer(Failed("not_directory"))
        ELSE pc' = "resolve" /\ UNCHANGED answer
  /\ UNCHANGED <<disk, service, session, request, work, calm, refused>>

Resolve ==
  /\ pc = "resolve"
  /\ LET found == ResolveBase(disk, base, want)
     IN IF found.err # "nil" THEN Answer(Failed(found.err)) /\ UNCHANGED at
        ELSE at' = found.path /\ pc' = "stat" /\ UNCHANGED answer
  /\ UNCHANGED <<disk, service, session, request, size, todo, child, entries, calm, refused>>

SizeOf(d, p) == IF d[p].kind = "file" THEN d[p].size ELSE 0
StatBlind ==  \* mutant: asks neither for the kind of what is listed nor for the size
  /\ pc = "stat"
  /\ LET real == Real(disk, at)
     IN IF real.err # "nil" THEN Answer(Failed(real.err)) /\ UNCHANGED size
        ELSE IF op = "read" /\ disk[real.path].kind = "dir"
          THEN Answer(Failed("not_text")) /\ UNCHANGED size
        ELSE pc' = op /\ size' = SizeOf(disk, real.path) /\ UNCHANGED answer
  /\ UNCHANGED <<disk, service, session, request, at, todo, child, entries, calm, refused>>

\* os.Stat of what was found: it may be gone, or be something else, by now.
Stat ==
  /\ pc = "stat"
  /\ LET real == Real(disk, at)
         node == disk[real.path]
     IN IF real.err # "nil" THEN Answer(Failed(real.err)) /\ UNCHANGED size
        ELSE IF op = "list" /\ node.kind # "dir"
          THEN Answer(Failed("not_directory")) /\ UNCHANGED size
        ELSE IF op = "read" /\ node.kind = "dir" THEN Answer(Failed("not_text")) /\ UNCHANGED size
        ELSE IF op = "read" /\ node.size > limit
          THEN Answer(Failed("file_too_large")) /\ UNCHANGED size
        ELSE pc' = op /\ size' = SizeOf(disk, real.path) /\ UNCHANGED answer
  /\ UNCHANGED <<disk, service, session, request, at, todo, child, entries, calm, refused>>

\* os.ReadFile and decodeText.
ReadFile ==
  /\ pc = "read"
  /\ LET real == Real(disk, at)
     IN IF real.err # "nil" \/ disk[real.path].kind = "dir" THEN Answer(Failed(Fault))
        ELSE LET text == DecodeText(disk[real.path])
             IN IF text = NotText THEN Answer(Failed("not_text"))
                ELSE Answer([status |-> 200, code |-> "ok", path |-> Rel(base, at), size |-> size,
                             encoding |-> text.encoding, content |-> text.text])
  /\ UNCHANGED <<disk, service, session, request, work, calm, refused>>

\* os.ReadDir.
ReadDir ==
  /\ pc = "list"
  /\ LET real == Real(disk, at)
     IN IF real.err # "nil" \/ disk[real.path].kind # "dir"
          THEN Answer(Failed(Fault)) /\ UNCHANGED <<todo, entries>>
          ELSE todo' = Names(disk, real.path) /\ entries' = {} /\ pc' = "entry" /\ UNCHANGED answer
  /\ UNCHANGED <<disk, service, session, request, at, size, child, calm, refused>>

\* One item of the directory: what leads outside or nowhere is left out, any other
\* failure is the end of the whole listing.
Entry(name) ==
  /\ pc = "entry" /\ name \in todo
  /\ todo' = todo \ {name}
  /\ LET path  == JoinRelative(Rel(base, at), name)
         found == ResolveBase(disk, base, [abs |-> FALSE, path |-> path])
     IN \/ found.err \in {"forbidden", "not_found"} /\ UNCHANGED <<pc, child, answer>>
        \/ found.err = Fault /\ Answer(Failed(Fault)) /\ UNCHANGED child
        \/ /\ found.err = "nil" /\ pc' = "child" /\ UNCHANGED answer
           /\ child' = [name |-> name, path |-> path, real |-> found.path]
  /\ UNCHANGED <<disk, service, session, request, at, size, entries, calm, refused>>

StatChild ==
  /\ pc = "child" /\ pc' = "entry"
  /\ LET real == Real(disk, child.real)
     IN IF real.err # "nil" THEN UNCHANGED entries
        ELSE entries' = entries \cup {[name |-> child.name, path |-> child.path,
               type |-> IF disk[real.path].kind = "dir" THEN "directory" ELSE "file"]}
  /\ child' = NoChild
  /\ UNCHANGED <<disk, service, session, request, at, size, todo, answer, calm, refused>>

\* Directories first, then by name in lower case; sort.Slice leaves equals in any order.
Before(x, y) == IF x.type # y.type THEN x.type = "directory" ELSE Rank[x.name] < Rank[y.name]
Sorted(S) == {s \in [1..Cardinality(S) -> S] :
                ToSet(s) = S /\ \A i, j \in DOMAIN s : i < j => ~Before(s[j], s[i])}
ListDone ==
  /\ pc = "entry" /\ todo = {}
  /\ \E list \in Sorted(entries) :
       Answer([status |-> 200, code |-> "ok", path |-> Rel(base, at), entries |-> list])
  /\ UNCHANGED <<disk, service, session, request, work, calm, refused>>

-----------------------------------------------------------------------------
(* The operating system may refuse any call: no permission, a file someone  *)
(* else has open, a name it does not take.  Only what is missing is told    *)
(* apart, so it fails the start, the request, or hides one entry.           *)
StartDenied(c) ==
  /\ pc = "start" /\ c.max >= 0 /\ c.roots # <<>> /\ c.roots[1].blank = {}
  /\ pc' = "refused"
  /\ UNCHANGED <<disk, service, session, request, work, answer, calm, refused>>

Denied ==
  /\ pc \in {"base", "isdir", "resolve", "stat", "read", "list"}
  /\ pc = "resolve" => InsideRoot(base, Target(base, want))
  /\ Answer(Failed(Fault)) /\ refused' = TRUE
  /\ UNCHANGED <<disk, service, session, request, work, calm>>

EntryDenied(name) ==
  /\ pc = "entry" /\ name \in todo
  /\ InsideRoot(base, Target(base, [abs |-> FALSE, path |-> JoinRelative(Rel(base, at), name)]))
  /\ todo' = todo \ {name}
  /\ Answer(Failed(Fault)) /\ refused' = TRUE
  /\ UNCHANGED <<disk, service, session, request, at, size, child, entries, calm>>

ChildDenied ==
  /\ pc = "child" /\ pc' = "entry"
  /\ child' = NoChild /\ refused' = TRUE
  /\ UNCHANGED <<disk, service, session, request, at, size, todo, entries, answer, calm>>

-----------------------------------------------------------------------------
\* The client has its answer.
Sent ==
  /\ pc = "done" /\ pc' = "idle" /\ answer' = NoAnswer
  /\ base' = <<>> /\ want' = Empty /\ at' = <<>> /\ size' = 0
  /\ todo' = {} /\ child' = NoChild /\ entries' = {}
  /\ calm' = TRUE /\ refused' = FALSE
  /\ UNCHANGED <<disk, service, session, op>>

-----------------------------------------------------------------------------
\* Someone else writes to the disk; the shell reports a directory; the session ends.
DiskChange(d) ==
  /\ d # disk /\ disk' = d /\ calm' = (pc \in {"start", "idle"})
  /\ UNCHANGED <<service, session, pc, request, work, answer, refused>>
Report(c) ==
  /\ listed /\ c # cwd /\ cwd' = c
  /\ UNCHANGED <<disk, service, listed, pc, request, work, answer, calm, refused>>
SessionEnds ==
  /\ listed /\ listed' = FALSE
  /\ UNCHANGED <<disk, service, cwd, pc, request, work, answer, calm, refused>>

Serve ==
  \/ \E o \in {"list", "read"}, p \in Path : AskSession(o, p) \/ \E id \in RootId : Ask(o, id, p)
  \/ EvalBase \/ StatBase \/ Resolve \/ Stat \/ ReadFile \/ ReadDir \/ StatChild \/ ListDone \/ Sent
  \/ Denied \/ ChildDenied
  \/ \E name \in todo : Entry(name) \/ EntryDenied(name)

Next ==
  \/ Serve \/ SessionEnds
  \/ \E c \in Config : Start(c) \/ StartDenied(c)
  \/ \E d \in Disk : DiskChange(d)
  \/ \E c \in Cwd : Report(c)

Spec == Init /\ [][Next]_vars

-----------------------------------------------------------------------------
TypeOK ==
  /\ disk \in Disk /\ calm \in BOOLEAN /\ refused \in BOOLEAN /\ limit \in Nat
  /\ \A id \in DOMAIN roots : roots[id] \in Seq(Proper)
  /\ listed \in BOOLEAN /\ cwd \in Cwd \cup {Empty}
  /\ base \in Seq(Proper) /\ at \in Seq(Proper)
  /\ pc \in {"start", "refused", "idle", "base", "isdir", "resolve", "stat", "read", "list", "entry",
             "child", "done"}
  /\ op \in {"list", "read"} /\ want \in Path \cup {Empty} /\ size \in 0..limit
  /\ pc = "done" => answer.status \in {200, 400, 403, 404, 409, 413, 500}

Done(o, code) == pc = "done" /\ calm /\ op = o /\ answer.code = code
Child(name)   == Append(base \o answer.path, name)
\* No blank is lost of it when it is asked for.
Plain(p) == p = <<>> \/ (Lead[p[1]] = p[1] /\ Trail[p[Len(p)]] = p[Len(p)])

\* A listing names everything in the directory that is to be found below the base,
\* files and directories told apart, and nothing else, if the disk was at rest; what the
\* system refused to look at may be missing.
ListingIsTrue ==
  Done("list", "ok") => \A name \in Names(disk, base \o answer.path) :
    Plain(Append(answer.path, name)) =>
      LET real  == Real(disk, Child(name))
          shown == {e \in ToSet(answer.entries) : e.name = name}
      IN IF real.err = "nil" /\ IsPrefix(base, real.path)
           THEN \/ {e.type : e \in shown} =
                     {IF disk[real.path].kind = "dir" THEN "directory" ELSE "file"}
                \/ refused /\ shown = {}
           ELSE shown = {}

\* What is looked at was found below the base.  The path an entry carries leads back to that
\* entry when a client asks for it, and the path of a listing or a document to what it is of,
\* unless it begins or ends with a blank.
PathsLeadBack ==
  /\ pc \in {"stat", "read", "list", "entry", "child"} => InsideRoot(base, at)
  /\ pc = "done" /\ calm /\ answer.code = "ok" =>
       /\ Plain(answer.path) => ResolveBase(disk, base, [abs |-> FALSE, path |-> answer.path]) =
                                   [path |-> base \o answer.path, err |-> "nil"]
       /\ op = "list" => \A e \in ToSet(answer.entries) :
            Plain(e.path) => ResolveBase(disk, base, [abs |-> FALSE, path |-> e.path]) =
                               Real(disk, Child(e.name))

\* What the bytes of a file leave no doubt about: its mark says what it was written in, or it
\* was written as UTF-8, or as Shift_JIS and happens not to be UTF-8 as well.
Telling(f) ==
  \/ f.written = f.mark
  \/ f.mark = "none" /\ f.written = "utf-8"
  \/ f.mark = "none" /\ f.written = "shift_jis" /\ "utf-8" \notin DOMAIN f.as

\* A document comes out as the text that was written to the file, in any of the encodings,
\* where the bytes tell which; a file that holds text within the limit is not refused, and
\* nothing but text is handed out.
DocumentIsText ==
  pc = "done" /\ calm /\ op = "read" /\ answer.code \in {"ok", "not_text"} /\ at # <<>> =>
    LET f == disk[at]
    IN /\ answer.code = "ok" => /\ f.size <= limit /\ answer.size = f.size
                                /\ LooksLikeText(answer.content)
       /\ f.kind = "file" /\ f.written # "none" /\ Telling(f) =>
            IF LooksLikeText(f.as[f.written])
              THEN /\ answer.code = "ok" /\ answer.content = f.as[f.written]
                   /\ answer.encoding = f.written
              ELSE answer.code = "not_text"

\* Where a path leads as it was written, before links are followed.
Wanted == Clean(IF want.abs THEN want.path ELSE base \o want.path)

\* What exists below the base is never said to be missing or out of reach, if it was asked for by
\* a path below the base as the base was resolved, not by a link to it.
RefusedIsOutside ==
  /\ answer.code \in {"not_found", "forbidden"} /\ Plain(want.path)
  /\ base # <<>> /\ Real(disk, base) = [path |-> base, err |-> "nil"]
  /\ IsPrefix(base, Wanted) /\ Real(disk, Wanted).err = "nil"
  => ~IsPrefix(base, Real(disk, Wanted).path)

\* The service fails only over what the system refuses, or over a path that leads in a circle or
\* through a file: the directory of the shell, what it was asked for, or a name in the directory
\* it lists.
FailsOnlyOnBadLinks ==
  answer.code = Fault =>
    \/ refused
    \/ \E p \in {base, Target(base, want)} : Real(disk, p).err = Fault
    \/ op = "list" /\ \E name \in Names(disk, at) :
         Real(disk, Target(base, [abs |-> FALSE, path |-> Append(Rel(base, at), name)])).err = Fault

\* What the system refuses is not said to be missing, out of reach or no text.
RefusalIsTold == refused => answer.code = Fault \/ (op = "list" /\ answer.code = "ok")

\* On a disk at rest an error says what is the case.
ErrorsAreTrue == pc = "done" /\ calm => RefusedIsOutside /\ FailsOnlyOnBadLinks /\ RefusalIsTold

-----------------------------------------------------------------------------
\* api-contracts.md: 409 cwd_invalid when the reported directory no longer exists.
GoneCwdIsInvalid ==
  [][EvalBase /\ Real(disk, base).err = "not_found" => answer'.code = "cwd_invalid"]_vars
=============================================================================
