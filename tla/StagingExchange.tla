-------------------------- MODULE StagingExchange --------------------------
(***************************************************************************)
(* The staged files of a claim, from the server and back: Client.Staging   *)
(* (internal/agentclient/staging.go) downloads and uploads archives with   *)
(* retries, jobStaging (cmd/agent/staging.go) restores and publishes them, *)
(* and internal/staging/archive.go decides what an archive may hold.  It   *)
(* reads an archive up to three times: to validate the input without       *)
(* restoring it, to restore it, and to validate the output.  The claim     *)
(* fails at the first thing it finds wrong.  A path is a sequence of       *)
(* names, sizes are small, a header is one byte and the end is two.        *)
(***************************************************************************)
EXTENDS Naturals, FiniteSets, SequencesExt

CONSTANTS
  Paths,         \* of files and directories, with the parents of each
  Illegal,       \* a path that validName refuses
  Sizes,         \* of files
  Entries, PayloadBytes, ArchiveBytes,    \* resourcepolicy.Staging
  MaxLength,     \* bound: entries of an archive that others made
  MaxFaults      \* bound

Parents(p) == {SubSeq(p, 1, n) : n \in 1..(Len(p) - 1)}

ASSUME PathsAssumption ==
  /\ IsFiniteSet(Paths) /\ <<>> \notin Paths
  /\ \A p \in Paths : Parents(p) \subseteq Paths \ {p} /\ Illegal # p
ASSUME PolicyAssumption ==
  Sizes \subseteq Nat /\ Entries \in Nat /\ PayloadBytes \in Nat /\ ArchiveBytes \in Nat
ASSUME BoundsAssumption == MaxLength \in Nat /\ MaxFaults \in Nat

VARIABLES
  pc,        \* "failed" and "done" are what the claim came to
  cause,     \* where it was refused, or "trouble"
  host,      \* the step runs on the host, not in a container
  archive,   \* the file at hand: the input, then the output
  pos, seen, declared, total,    \* of UnpackWithPolicy; total of PackWithPolicy too
  tree,      \* the workspace
  stored,    \* the output the server has, if any
  faults     \* how much went wrong, bounded

reader == <<pos, seen, declared, total>>
vars   == <<pc, cause, host, archive, reader, tree, stored, faults>>

Root       == <<>>     \* "." as the name of an entry
Directory  == [kind |-> "dir", size |-> 0]
File(n)    == [kind |-> "file", size |-> n]
Other      == [kind |-> "other", size |-> 0]     \* a link, a device, a socket
Nothing    == [kind |-> "none", size |-> 0]
Nodes      == {Directory, Other} \cup {File(n) : n \in Sizes}
Empty      == [p \in Paths |-> Nothing]
EntryOf(p, n) == [name |-> p, kind |-> n.kind, size |-> n.size]

\* What a server or a tar in a container may put into an archive, and how it may
\* end: as it should, in the middle of something, or with more than padding.
Foreign  == {EntryOf(p, n) : p \in Paths \cup {Root}, n \in Nodes}
              \cup {EntryOf(Illegal, Directory), [name |-> CHOOSE p \in Paths : TRUE,
                                                  kind |-> "dir", size |-> 1]}
Ends     == {"zeros", "cut", "rest"}
Archives == [entries : BoundedSeq(Foreign, MaxLength), end : Ends]
NoFile   == [entries |-> <<>>, end |-> "zeros"]

\* The sum of the sizes of entries or nodes, byte by byte.
Payload(f)     == Cardinality(UNION {{x} \X (1..f[x].size) : x \in DOMAIN f})
Bytes(entries) == Len(entries) + Payload(entries)
Length(a)      == Bytes(a.entries) + 2

Unread == pos' = 0 /\ seen' = Empty /\ declared' = {} /\ total' = 0
Fault  == faults < MaxFaults /\ faults' = faults + 1

Init ==
  /\ pc = "download" /\ cause = "none" /\ host = TRUE /\ archive = NoFile
  /\ pos = 0 /\ seen = Empty /\ declared = {} /\ total = 0
  /\ tree = Empty /\ stored = <<>> /\ faults = 0

FailsFor(why) ==
  /\ pc' = "failed" /\ cause' = why
  /\ UNCHANGED <<host, archive, reader, tree, stored>>

Refused == FailsFor(pc) /\ UNCHANGED faults

-----------------------------------------------------------------------------
(* Client.Staging, without an upload.                                      *)

\* No answer, a status to retry, or a body that ends early.
DownloadRetried ==
  /\ pc = "download" /\ Fault
  /\ UNCHANGED <<pc, cause, host, archive, reader, tree, stored>>

\* All of the announced length and hash has arrived, or more than allowed would.
Downloaded ==
  /\ pc = "download"
  /\ archive' \in Archives
  /\ IF Length(archive') > ArchiveBytes
       THEN pc' = "failed" /\ cause' = "validate"
       ELSE pc' = "validate" /\ UNCHANGED cause
  /\ Unread /\ UNCHANGED <<host, tree, stored, faults>>

\* A final status, a hash that does not match, or a failure that is not retried,
\* of the transfer, the files or the context.
Trouble ==
  /\ pc \notin {"failed", "done"} /\ Fault /\ FailsFor("trouble")

-----------------------------------------------------------------------------
(* UnpackWithPolicy, one entry after the other.                            *)

Unpacking == pc \in {"validate", "restore", "verify"}
Current   == archive.entries[pos + 1]
Skipped(e) == e.name = Root /\ e.kind = "dir" /\ e.size = 0

Marked_NotParents(p) == {}      \* Mutant: implicit parents are not remembered.
Marked(p) == Parents(p)         \* what an entry makes a directory besides itself

SeenWith(e) ==
  [p \in DOMAIN seen \cup {e.name} |->
     IF p = e.name THEN [kind |-> e.kind, size |-> 0]
     ELSE IF p \in Marked(e.name) THEN Directory ELSE seen[p]]

Known(s) == {p \in DOMAIN s : s[p] # Nothing}

\* validateEntry, and the check for duplicates before it.
Admits(e) ==
  /\ e.name \notin declared /\ e.name # Illegal
  /\ e.name \in Known(seen) => seen[e.name] = Directory /\ e.kind = "dir"
  /\ e.size <= PayloadBytes - total
  /\ e.kind = "file" \/ (e.kind = "dir" /\ e.size = 0)
  /\ \A p \in Parents(e.name) : p \in Known(seen) => seen[p] = Directory
  /\ Cardinality(Known(SeenWith(e))) <= Entries

\* restoreEntry: MkdirAll, and a file that must not exist.
Fits(e) ==
  /\ \A p \in Parents(e.name) : tree[p].kind # "file"
  /\ IF e.kind = "dir" THEN tree[e.name].kind # "file"
     ELSE e.name # Root /\ tree[e.name] = Nothing

TreeWith(e) ==
  [p \in Paths |-> IF p = e.name THEN [kind |-> e.kind, size |-> e.size]
                   ELSE IF p \in Parents(e.name) THEN Directory ELSE tree[p]]

SkipEntry ==
  /\ Unpacking /\ pos < Len(archive.entries) /\ Skipped(Current) /\ pos' = pos + 1
  /\ UNCHANGED <<pc, cause, host, archive, seen, declared, total, tree, stored, faults>>

AdmitEntry ==
  /\ Unpacking /\ pos < Len(archive.entries) /\ ~Skipped(Current) /\ Admits(Current)
  /\ pc = "restore" => Fits(Current)
  /\ tree' = IF pc = "restore" THEN TreeWith(Current) ELSE tree
  /\ pos' = pos + 1 /\ seen' = SeenWith(Current)
  /\ declared' = declared \cup {Current.name} /\ total' = total + Current.size
  /\ UNCHANGED <<pc, cause, host, archive, stored, faults>>

RefuseEntry ==
  /\ Unpacking /\ pos < Len(archive.entries) /\ ~Skipped(Current)
  /\ ~Admits(Current) \/ (pc = "restore" /\ ~Fits(Current))
  /\ Refused

WellEnded == archive.end = "zeros" /\ Length(archive) <= ArchiveBytes

\* tar's end, and validateTrailer.
RefuseEnd ==
  Unpacking /\ pos = Len(archive.entries) /\ ~WellEnded /\ Refused

\* The caller seeks to the start of the file, for whoever reads it next: the same
\* code in the host's workspace, or NewStage, which hands it to a container.
Accept ==
  /\ Unpacking /\ pos = Len(archive.entries) /\ WellEnded /\ Unread
  /\ \/ pc = "validate" /\ pc' = "restore" /\ UNCHANGED <<host, archive>>
     \/ pc = "validate" /\ pc' = "run" /\ host' = FALSE /\ archive' = NoFile
     \/ pc = "restore"  /\ pc' = "run" /\ UNCHANGED <<host, archive>>
     \/ pc = "verify"   /\ pc' = "upload" /\ UNCHANGED <<host, archive>>
  /\ UNCHANGED <<cause, tree, stored, faults>>

-----------------------------------------------------------------------------
(* The step, and publish.                                                  *)

\* A step leaves any files in its workspace.
HostStep ==
  /\ pc = "run" /\ host /\ pc' = "pack" /\ archive' = NoFile
  /\ tree' \in {t \in [Paths -> Nodes \cup {Nothing}] :
                  \A p \in Paths : t[p] # Nothing => \A q \in Parents(p) : t[q] = Directory}
  /\ UNCHANGED <<cause, host, reader, stored, faults>>

\* Export: the tar of a container writes what it likes.
ContainerStep ==
  /\ pc = "run" /\ ~host /\ pc' = "verify" /\ archive' \in Archives
  /\ UNCHANGED <<cause, host, reader, tree, stored, faults>>

Packed   == {archive.entries[i].name : i \in 1..Len(archive.entries)}
Unpacked == {p \in Paths : tree[p] # Nothing} \ Packed

Counted_FilesOnly(p) ==       \* Mutant: directories do not count.
  Cardinality({q \in Packed \cup {p} : tree[q].kind = "file"})
Counted(p) == Cardinality(Packed \cup {p})

Packs(p) ==
  /\ tree[p] # Other /\ Counted(p) <= Entries
  /\ tree[p].size <= PayloadBytes - total
  /\ Bytes(Append(archive.entries, EntryOf(p, tree[p]))) <= ArchiveBytes

\* A directory comes before what is in it; WalkDir's order is one of these.
PackEntry(p) ==
  /\ pc = "pack" /\ p \in Unpacked /\ Parents(p) \subseteq Packed /\ Packs(p)
  /\ archive' = [archive EXCEPT !.entries = Append(@, EntryOf(p, tree[p]))]
  /\ total' = total + tree[p].size
  /\ UNCHANGED <<pc, cause, host, pos, seen, declared, tree, stored, faults>>

PackRefuses(p) ==
  /\ pc = "pack" /\ p \in Unpacked /\ Parents(p) \subseteq Packed /\ ~Packs(p)
  /\ Refused

\* The writer's Close adds the end, which has to fit as well.
PackEnds ==
  /\ pc = "pack" /\ Unpacked = {}
  /\ IF Length(archive) <= ArchiveBytes
       THEN pc' = "verify" /\ Unread /\ UNCHANGED <<cause, host, archive, tree, stored, faults>>
       ELSE Refused

-----------------------------------------------------------------------------
(* Client.Staging, with an upload, and the server that "accept[s]          *)
(* identical retries" (docs/agent-protocol.md:73).                         *)

ServerAccepts == stored \in {<<>>, <<archive>>}

Uploaded ==
  /\ pc = "upload" /\ ServerAccepts /\ stored' = <<archive>> /\ pc' = "done"
  /\ UNCHANGED <<cause, host, archive, reader, tree, faults>>

\* The request or its answer is lost, or another one is to be retried.
UploadRetried ==
  /\ pc = "upload" /\ Fault
  /\ stored' \in {stored, IF ServerAccepts THEN <<archive>> ELSE stored}
  /\ UNCHANGED <<pc, cause, host, archive, reader, tree>>

\* 409 for another output, or a final status for other reasons.
UploadRefused ==
  /\ pc = "upload"
  /\ IF ServerAccepts THEN Fault /\ FailsFor("trouble") ELSE Refused

\* The stage is closed, and the next claim has its own.
NextClaim ==
  /\ pc \in {"failed", "done"} /\ pc' = "download" /\ cause' = "none" /\ host' = TRUE
  /\ archive' = NoFile /\ Unread /\ tree' = Empty /\ stored' = <<>> /\ UNCHANGED faults

Transfer == DownloadRetried \/ Downloaded \/ Uploaded \/ UploadRetried \/ UploadRefused
Unpack   == SkipEntry \/ AdmitEntry \/ RefuseEntry \/ RefuseEnd \/ Accept
Publish  == HostStep \/ ContainerStep \/ PackEnds
              \/ \E p \in Paths : PackEntry(p) \/ PackRefuses(p)

Next == Transfer \/ Unpack \/ Publish \/ Trouble \/ NextClaim
Spec == Init /\ [][Next]_vars

-----------------------------------------------------------------------------
(* What the entries of an archive mean, in no order.                       *)

Named(es)   == {i \in 1..Len(es) : ~Skipped(es[i])}
Names(es)   == {es[i].name : i \in Named(es)}
Files(es)   == {es[i].name : i \in {j \in Named(es) : es[j].kind = "file"}}
Implied(es) == UNION {Parents(p) : p \in Names(es)}

\* A set of regular files and directories, no two of which exclude each other,
\* within the policy.
Coherent(es) ==
  /\ \A i \in Named(es) : es[i].kind = "file" \/ (es[i].kind = "dir" /\ es[i].size = 0)
  /\ Illegal \notin Names(es)
  /\ \A i, j \in Named(es) : es[i].name = es[j].name => i = j
  /\ Files(es) \cap Implied(es) = {}
  /\ Cardinality(Names(es) \cup Implied(es)) <= Entries
  /\ Payload(es) <= PayloadBytes

Admissible(a) == Coherent(a.entries) /\ a.end = "zeros" /\ Length(a) <= ArchiveBytes

Denoted(es) ==
  [p \in Paths |->
     IF \E i \in Named(es) : es[i].name = p
     THEN LET i == CHOOSE j \in Named(es) : es[j].name = p
          IN  [kind |-> es[i].kind, size |-> es[i].size]
     ELSE IF p \in Implied(es) THEN Directory ELSE Nothing]

\* The trees the policy allows.
Present == {p \in Paths : tree[p] # Nothing}
Publishable ==
  /\ \A p \in Present : tree[p] # Other
  /\ Cardinality(Present) <= Entries /\ Payload(tree) <= PayloadBytes
  /\ Cardinality(Present) + Payload(tree) + 2 <= ArchiveBytes

-----------------------------------------------------------------------------
(* The invariant that InputIsRestored and OutputIsPublished rest on.       *)

\* What was read of an archive so far is coherent; seen, declared and total say what it
\* means, and the workspace, when it is restored, is what it denotes.
ReadSoFar == SubSeq(archive.entries, 1, pos)
ReadInv ==
  Unpacking =>
    /\ pos \in 0..Len(archive.entries) /\ Coherent(ReadSoFar)
    /\ declared = Names(ReadSoFar) /\ total = Payload(ReadSoFar)
    /\ Paths \subseteq DOMAIN seen /\ Known(seen) = Names(ReadSoFar) \cup Implied(ReadSoFar)
    /\ \A p \in Known(seen) : seen[p] = IF p \in Files(ReadSoFar) THEN File(0) ELSE Directory
    /\ pc = "restore" => tree = Denoted(ReadSoFar)

\* What was packed is a part of the tree, without a gap above it, and within the policy.
PackInv ==
  pc = "pack" =>
    /\ host /\ archive.end = "zeros"
    /\ \A p \in Present : \A q \in Parents(p) : tree[q] = Directory
    /\ \A i \in DOMAIN archive.entries :
         /\ archive.entries[i].name \in Present /\ tree[archive.entries[i].name] # Other
         /\ archive.entries[i] = EntryOf(archive.entries[i].name, tree[archive.entries[i].name])
    /\ \A i, j \in DOMAIN archive.entries :
         archive.entries[i].name = archive.entries[j].name => i = j
    /\ Cardinality(Packed) = Len(archive.entries) /\ Cardinality(Packed) <= Entries
    /\ total = Payload(archive.entries) /\ total = Payload([p \in Packed |-> tree[p]])
    /\ total <= PayloadBytes

\* Where the claim is, what it has at hand.
FlowInv ==
  /\ archive \in [entries : Seq(Foreign), end : Ends] /\ tree \in [Paths -> Nodes \cup {Nothing}]
  /\ pc # "failed" => cause = "none"
  /\ pc \in {"download", "validate"} => tree = Empty
  /\ pc = "run" => pos = 0 /\ seen = Empty /\ declared = {} /\ total = 0
  /\ pc \in {"restore", "run", "upload", "done"} => Admissible(archive)
  /\ pc \in {"verify", "upload", "done"} /\ host =>
       Admissible(archive) /\ Denoted(archive.entries) = tree
  /\ pc \notin {"upload", "done", "failed"} => stored = <<>>
  /\ pc = "upload" => stored \in {<<>>, <<archive>>}

-----------------------------------------------------------------------------
(* Properties.                                                             *)

\* What validation without a directory accepts ("Unpack validates even when
\* directory is empty, before importing into a volume") is what an unordered
\* reading of the archive allows, and can be restored in full afterwards: no entry
\* meets what an earlier one has made.  The one exception is a file named ".",
\* which validates and cannot be created.
InputIsRestored ==
  /\ cause = "validate" => ~Admissible(archive)
  /\ pc \in {"restore", "run"} => Admissible(archive)
  /\ pc = "run" /\ host => tree = Denoted(archive.entries)
  /\ cause = "restore" => Root \in Files(archive.entries)

\* What publish uploads is the tree the step left, complete; what the policy allows
\* is never refused, neither by the packer, nor by the agent's own validation of
\* what was packed, nor by the server for being a changed retry.
OutputIsPublished ==
  /\ cause = "pack" => ~Publishable
  /\ cause = "verify" => ~host /\ ~Admissible(archive)
  /\ cause # "upload"
  /\ pc = "done" => stored = <<archive>> /\ Admissible(archive)
  /\ pc = "done" /\ host => Denoted(archive.entries) = tree

\* The invariant that is inductive (StagingExchangeProofs).
ExchangeInv == FlowInv /\ ReadInv /\ PackInv /\ InputIsRestored /\ OutputIsPublished
=============================================================================
