---------------------------- MODULE FileManager -----------------------------
(***************************************************************************)
(* The file manager: a tree of files, folders and symbolic links, of which  *)
(* the panel may touch what is under one mounted folder, and the operations *)
(* of its clients.  Each runs in a thread of its own: it checks (Begin),    *)
(* and later acts on what it found, with other threads in between.          *)
(*                                                                         *)
(* A path is the sequence of names from the file system's root.  A name is  *)
(* <<base, suffix, n>>: "base (n).suffix", without the marker for n = 1.  A *)
(* link holds the absolute path it points to, of which only the last name   *)
(* may itself be a link; longer chains lead nowhere.  Contents are one      *)
(* value each; an archive holds one folder with one file m, and a tree is   *)
(* copied, moved or removed in one step.  A request for nested folders asks *)
(* for one path of them.  Only clients of the panel change the tree.       *)
(***************************************************************************)
EXTENDS Naturals, Sequences, SequencesExt

CONSTANTS
    User,        \* requests in flight
    Root,        \* the path of the mounted folder, no link in it
    Tree,        \* the tree in the beginning
    Operation,   \* requests clients may make
    Text,        \* what the bases and suffixes of names are
    MaxCopies,   \* the names _unique_name tries for one base
    MaxDepth     \* bound: components of a path

VARIABLES
    fs,    \* the tree: a node for every path that exists
    job    \* per request what it does next

vars == <<fs, job>>

Name == Text \X Text \X (Nat \ {0})
Path == Seq(Name)
NoPath == <<<<"", "", 0>>>>
Dir == [kind |-> "dir", data |-> "", target |-> NoPath]
File(d) == [kind |-> "file", data |-> d, target |-> NoPath]
Link(p) == [kind |-> "link", data |-> "", target |-> p]

Inside(p) == IsPrefix(Root, p)
Exists(t, p) == p \in DOMAIN t
Is(t, p, kind) == IF p = <<>> THEN kind = "dir" ELSE p \in DOMAIN t /\ t[p].kind = kind
Under(t, p) == {q \in DOMAIN t : IsPrefix(p, q)}
Put(t, p, node) == [q \in DOMAIN t \cup {p} |-> IF q = p THEN node ELSE t[q]]
Drop(t, p) == [q \in DOMAIN t \ Under(t, p) |-> t[q]]

\* The path behind a chain of at most two links.
End(t, p) ==
    LET hop(q) == IF Is(t, q, "link") THEN t[q].target ELSE q IN hop(hop(p))

\* What is there; NoPath if the chain is broken.
Target(t, p) == IF Exists(t, End(t, p)) /\ ~Is(t, End(t, p), "link") THEN End(t, p) ELSE NoPath

\* Mutant: a link is followed wherever it leads.
FollowAnywhere(t, p) == Target(t, p)

\* A link that leads out of the mounted folder is refused.
Follow(t, p) == IF Inside(Target(t, p)) THEN Target(t, p) ELSE NoPath

\* From a folder to one of its entries, through a link as the panel follows it or
\* as the kernel does.
Step(t, dir, name, panel) ==
    LET next == Append(dir, name)
    IN  IF ~Is(t, dir, "dir") \/ ~Exists(t, next) THEN NoPath
        ELSE IF ~Is(t, next, "link") THEN next
        ELSE IF panel THEN Follow(t, next) ELSE Target(t, next)

\* Where the first i names lead to, for every i, and where all of them do.
Trail(t, from, names, panel) ==
    LET cur[i \in 0..Len(names)] ==
            IF i = 0 THEN from ELSE Step(t, cur[i - 1], names[i], panel)
    IN  cur
Walk(t, from, names, panel) == Trail(t, from, names, panel)[Len(names)]

\* What the names lead to below the mounted folder, links resolved, if it is of the
\* kind that is expected; without a name, the mounted folder if that is.
resolve_rel(t, names, expect) ==
    LET end == Walk(t, Root, names, TRUE)
    IN  IF Is(t, end, expect) /\ (names # <<>> \/ expect = "dir") THEN end ELSE NoPath

\* The place of a path as the kernel finds it: its folder through every link,
\* the last name as it is.
Place(t, p) ==
    LET dir == Walk(t, <<>>, Front(p), FALSE)
    IN  IF Is(t, dir, "dir") THEN Append(dir, Last(p)) ELSE NoPath

\* The node itself, its last name not followed if it is a link.
Node(t, names) ==
    LET parent == resolve_rel(t, Front(names), "dir")
        p == Append(parent, Last(names))
    IN  IF names # <<>> /\ Exists(t, p) THEN p ELSE NoPath

_unique_name(t, dir, name) ==
    LET free == {n \in name[3]..MaxCopies : ~Exists(t, Append(dir, <<name[1], name[2], n>>))}
    IN  IF free = {} THEN NoPath
        ELSE Append(dir, <<name[1], name[2], CHOOSE n \in free : \A m \in free : n <= m>>)

\* The archive that grows next to its destination.
TmpOf(p) == Append(Front(p), <<Last(p)[1], "lnxadmin-up", Last(p)[3]>>)

----------------------------------------------------------------------------
\* Checking: what a request is about to do, or "refused".

Refused == [do |-> "refused", from |-> NoPath, to |-> NoPath]
Plan(do, from, to) ==
    IF to = NoPath \/ Len(to) > MaxDepth THEN Refused ELSE [do |-> do, from |-> from, to |-> to]

\* A new entry o.name of the folder o.rel.
CheckNew(t, o) ==
    LET dir == resolve_rel(t, o.rel, "dir")
        p == Append(dir, o.name)
    IN  IF dir = NoPath \/ Exists(t, p) THEN Refused ELSE Plan(o.op, NoPath, p)

CheckMove(t, o) ==
    LET src == Node(t, o.rel)
        dir == resolve_rel(t, o.dest, "dir")
        to == Append(dir, o.name)
    IN  IF NoPath \in {src, dir} \/ Exists(t, to) \/ (Is(t, src, "dir") /\ IsPrefix(src, dir))
        THEN Refused ELSE Plan("move", src, to)

\* The folder of an extraction is named after the archive.
FolderFor(t, src) == _unique_name(t, Front(src), <<Last(src)[1], "", Last(src)[3]>>)

Checked(t, o) ==
    LET file == resolve_rel(t, o.rel, "file")
        dir == resolve_rel(t, o.rel, "dir")
        node == Node(t, o.rel)
        real == Exists(t, node) /\ ~Is(t, node, "link")
    IN  CASE o.op = "write" -> Plan("replace", file, file)
          [] o.op \in {"mkdir", "touch"} -> CheckNew(t, o)
          [] o.op = "mkdirs" -> IF dir = NoPath THEN Refused
                                ELSE Plan("mkdirs", dir, dir \o Append(o.dest, o.name))
          [] o.op = "upload" -> IF dir = NoPath THEN Refused
                                ELSE Plan("replace", NoPath, _unique_name(t, dir, o.name))
          [] o.op = "delete" -> Plan("delete", node, node)
          [] o.op = "move" -> CheckMove(t, o)
          [] o.op = "pack" -> IF ~real THEN Refused ELSE
                Plan("pack", node, _unique_name(t, Front(node), <<Last(node)[1], "zip", Last(node)[3]>>))
          [] o.op = "extract" -> IF ~real \/ ~Is(t, node, "file") \/ Last(node)[2] # "zip" THEN Refused
                ELSE Plan("extract", node, FolderFor(t, node))

----------------------------------------------------------------------------
\* Acting on the tree of now.

\* mkdir and O_EXCL fail on anything that is there.
Created(t, path, node) ==
    LET p == Place(t, path) IN IF p = NoPath \/ Exists(t, p) THEN t ELSE Put(t, p, node)

\* A rename over a file or a link replaces it; over a folder it fails.
Replaced(t, path, node) ==
    LET p == Place(t, path) IN IF p = NoPath \/ Is(t, p, "dir") THEN t ELSE Put(t, p, node)

\* Opened for writing: the file at the end of the links, made if its folder is there.
Opened(t, path) ==
    LET p == Place(t, path)
        end == End(t, p)
    IN  IF p # NoPath /\ ~Is(t, end, "dir") /\ ~Is(t, end, "link") /\ Is(t, Front(end), "dir")
        THEN end ELSE NoPath

\* What unlink takes away: a file or a link, not what it leads to.
Unlinked(t, path) == IF Is(t, Place(t, path), "dir") THEN t ELSE Drop(t, Place(t, path))

\* Mutant: the node goes, what is in it stays.
RemovedAlone(t, path) == [q \in DOMAIN t \ {Place(t, path)} |-> t[q]]

Removed(t, path) == Drop(t, Place(t, path))

Moved(t, from, to) ==
    LET rest == Drop(t, from)
        new == {to \o SubSeq(q, Len(from) + 1, Len(q)) : q \in Under(t, from)}
    IN  [q \in new \cup DOMAIN rest |->
            IF q \in new THEN t[from \o SubSeq(q, Len(to) + 1, Len(q))] ELSE rest[q]]

\* os.replace: a file or a link replaces another, a folder an empty one.
os_replace(t, from, to) ==
    LET src == Place(t, from)
        dst == Place(t, to)
    IN  IF /\ Exists(t, src) /\ dst # NoPath /\ ~IsPrefix(src, dst)
           /\ Under(t, dst) \subseteq {dst}
           /\ Exists(t, dst) => (Is(t, src, "dir") <=> Is(t, dst, "dir"))
        THEN Moved(t, src, dst) ELSE t

\* shutil.move: into the destination if that is a folder by now, else a rename.
shutil_move(t, from, to) ==
    LET src == Place(t, from)
        into == Place(t, to)
        at == IF Is(t, into, "link") THEN Target(t, into) ELSE into
        final == IF Is(t, at, "dir") THEN Append(at, Last(from)) ELSE into
        clash == final \in DOMAIN t /\ (Is(t, at, "dir") \/ Is(t, src, "dir"))
    IN  IF ~Exists(t, src) \/ into = NoPath \/ clash \/ IsPrefix(src, final)
        THEN t ELSE Moved(t, src, final)

----------------------------------------------------------------------------
Idle == [do |-> "idle", from |-> NoPath, to |-> NoPath, lone |-> TRUE]
Init == fs = Tree /\ job = [u \in User |-> Idle]
Busy == {u \in User : job[u].do # "idle"}

\* Only a request that passes its checks does something.  allow_mutations, read_only
\* and the limits of size are among them.
Begin(u, o) ==
    LET plan == Checked(fs, o) IN
    /\ u \notin Busy /\ plan # Refused
    /\ job' = [k \in User |->
                IF k = u THEN [do |-> plan.do, from |-> plan.from, to |-> plan.to, lone |-> Busy = {}]
                ELSE [job[k] EXCEPT !.lone = k \notin Busy]]
    /\ UNCHANGED fs

Does(u, what) == job[u].do = what
Goes(u, what) == [job EXCEPT ![u].do = what]
Done(u) == job' = [job EXCEPT ![u] = Idle]

\* A temporary file next to the destination, under a random name, then a rename.
_atomic_write(u) ==
    Does(u, "replace") /\ Done(u) /\ fs' = Replaced(fs, job[u].to, File("y"))
make_dir(u) == Does(u, "mkdir") /\ Done(u) /\ fs' = Created(fs, job[u].to, Dir)
make_file(u) == Does(u, "touch") /\ Done(u) /\ fs' = Created(fs, job[u].to, File("y"))
\* One level of nested folders: what is there is followed, if it is a folder inside;
\* what is not is made in a folder that is inside by now.
ensure_dirs(u) ==
    LET j == job[u]
        level == Len(j.from) + 1
        next == Append(j.from, j.to[level])
        rest == SubSeq(j.to, level + 1, Len(j.to))
        p == Place(fs, next)
        new == p # NoPath /\ ~Exists(fs, p) /\ Inside(Front(p))
        at == IF new THEN next ELSE IF Is(fs, p, "link") THEN Follow(fs, p) ELSE p
        on == rest # <<>> /\ (new \/ (Inside(at) /\ Is(fs, at, "dir")))
    IN  /\ Does(u, "mkdirs")
        /\ fs' = IF new THEN Put(fs, p, Dir) ELSE fs
        /\ job' = [job EXCEPT ![u] = IF on THEN [j EXCEPT !.from = at, !.to = at \o rest] ELSE Idle]
delete_path(u) == Does(u, "delete") /\ Done(u) /\ fs' = Removed(fs, job[u].to)
move_path(u) == Does(u, "move") /\ Done(u) /\ fs' = shutil_move(fs, job[u].from, job[u].to)

\* The archive grows next to its destination, in what open finds there: a link is
\* followed wherever it leads, a folder cannot be opened.
PackOpen(u) ==
    LET at == Opened(fs, TmpOf(job[u].to)) IN
    /\ Does(u, "pack")
    /\ IF Exists(fs, Place(fs, job[u].from)) /\ at # NoPath
       THEN fs' = Put(fs, at, File("zip")) /\ job' = Goes(u, "packed")
       ELSE Done(u) /\ UNCHANGED fs
\* Then whatever has its name by now is renamed; an error that is expected unlinks it.
PackClose(u) ==
    /\ Does(u, "packed") /\ Done(u)
    /\ \/ fs' = os_replace(fs, TmpOf(job[u].to), job[u].to)
       \/ fs' = Unlinked(fs, TmpOf(job[u].to))
       \/ UNCHANGED fs

ExtractFolder(u) ==
    /\ Does(u, "extract")
    /\ fs' = Created(fs, job[u].to, Dir)
    /\ IF fs' = fs THEN Done(u) ELSE job' = Goes(u, "member")
\* Members are unpacked under names that are free; an error that is expected takes
\* the whole folder away, any other leaves it as it is.
ExtractMember(u) ==
    /\ Does(u, "member") /\ Done(u)
    /\ \/ fs' = Created(fs, _unique_name(fs, job[u].to, <<"m", "", 1>>), File("m"))
       \/ fs' = Removed(fs, job[u].to)
       \/ UNCHANGED fs

\* The process ends: temporary files and unfinished folders stay.
Crash == Busy # {} /\ job' = [u \in User |-> Idle] /\ UNCHANGED fs

Next ==
    \/ \E u \in User :
        \/ \E o \in Operation : Begin(u, o)
        \/ _atomic_write(u) \/ make_dir(u) \/ make_file(u) \/ ensure_dirs(u)
        \/ delete_path(u) \/ move_path(u)
        \/ PackOpen(u) \/ PackClose(u) \/ ExtractFolder(u) \/ ExtractMember(u)
    \/ Crash

Spec == Init /\ [][Next]_vars

----------------------------------------------------------------------------
\* Every node lies in a folder.
TypeOK ==
    /\ \A p \in DOMAIN fs : fs[p].kind \in {"dir", "file", "link"} /\ Is(fs, Front(p), "dir")
    /\ \A u \in User : job[u].do \in {"idle", "replace", "mkdir", "touch", "mkdirs", "delete",
                                      "move", "pack", "packed", "extract", "member"}

\* What is overwritten or taken away by this step, temporary archives aside.
Gone == {p \in DOMAIN fs : Last(p)[2] # "lnxadmin-up" /\ (~Exists(fs', p) \/ fs'[p] # fs[p])}
New == DOMAIN fs' \ DOMAIN fs
Ends(u) == job'[u] # job[u] /\ \A k \in User \ {u} : job'[k] = job[k]

\* The file that a link in the place of an archive in the making leads to.
Through(u) ==
    LET tmp == TmpOf(job[u].to) IN
    IF job[u].do = "pack" /\ Is(fs, Place(fs, tmp), "link") THEN {Opened(fs, tmp)} ELSE {}

\* From whatever tree the clients have made of each other's files and links, and
\* crashes of unfinished requests: a request that nobody overlaps changes nothing
\* outside the mounted folder, and of what is inside only what it names, an archive
\* also at the free name it chose - but packing truncates the file that a link at the
\* name of the archive in the making leads to, inside or outside (fileman.py:1055
\* opens it, 1082 looks afterwards).  However requests interleave, a new folder, a new
\* file and the name an extraction chose never stand for something that was there.
RequestsKeepToTheirs ==
    [][\A u \in User : LET j == job[u] IN Ends(u) =>
        /\ j.do \in {"mkdir", "touch", "mkdirs", "extract"} => Gone = {}
        /\ j.lone => \A p \in (Gone \cup New) \ Through(u) : Inside(p) /\ p # Root
        /\ j.lone => Gone \subseteq CASE j.do = "replace" -> {j.from}
                                     [] j.do \in {"move", "delete"} -> Under(fs, j.from)
                                     [] j.do = "member" -> Under(fs, j.to)
                                     [] j.do = "pack" -> Through(u)
                                     [] j.do = "packed" -> {j.to}
                                     [] OTHER -> {}]_vars
=============================================================================
