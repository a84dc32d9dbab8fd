------------------------------- MODULE Launch -------------------------------
(***************************************************************************)
(* The launch layer: the TOML file of modules/config/launch.rs with the     *)
(* validators of config/domain.rs, audio_io/mic_arbitrator/types.rs and     *)
(* inference/backbone.rs, and the unix socket of modules/stream_io.rs with  *)
(* its directory.  Daemon takes these steps while it boots; the variables   *)
(* here are on disk and outlive the process.                                *)
(*                                                                         *)
(* A file that cannot be read or parsed is Garbled.  The directory of the   *)
(* socket is "open" when it is world-writable without the sticky bit, and   *)
(* the entry at the socket's path is "foreign" when it is anything but a    *)
(* socket (a file, directory, symlink, fifo or device: all are refused      *)
(* alike).  What a path's target holds is kept with the path.               *)
(***************************************************************************)
EXTENDS Integers, Sequences, FiniteSets

CONSTANTS
    LaunchFiles,   \* contents an operator may have written, records as Defaults
    Absent, Garbled,
    RknnBuild      \* built for linux with the rknpu feature

VARIABLES
    file,     \* Absent, Garbled or a launch configuration
    parent,   \* directory of the socket: absent, dir, open, symlink, file
    entry     \* at the socket's path: none, socket, foreign

diskVars == <<file, parent, entry>>

----------------------------------------------------------------------------
\* Microphone catalogue.

MAX_CHANNEL_INDEX == 1023
MAX_CHANNELS == 8
MAX_PERIOD_FRAMES == 8192
MAX_BUFFER_FRAMES == MAX_PERIOD_FRAMES * 16
MIN_SAMPLE_RATE == 8000
MAX_SAMPLE_RATE == 192000

Members(s) == {s[i] : i \in DOMAIN s}
Distinct(s) == Cardinality(Members(s)) = Len(s)

AlsaOk(s) ==
    /\ s.named
    /\ s.period \in 1 .. MAX_PERIOD_FRAMES
    /\ s.buffer >= s.period
    /\ s.buffer <= MAX_BUFFER_FRAMES /\ s.buffer <= s.period * 16

MockOk(s, channels) ==
    /\ s.waveforms \in 1 .. MAX_CHANNELS
    /\ \A ch \in channels : ch < s.waveforms
    /\ s.period \in 1 .. MAX_PERIOD_FRAMES
    /\ s.rate \in MIN_SAMPLE_RATE .. MAX_SAMPLE_RATE

\* MicCandidate::validate.  Its two checked multiplications cannot overflow
\* below these caps.
CandidateOk(c) ==
    /\ Len(c.channels) \in 1 .. MAX_CHANNELS
    /\ \A ch \in Members(c.channels) : ch <= MAX_CHANNEL_INDEX
    /\ Distinct(c.channels)
    /\ CASE c.source.kind = "alsa" -> AlsaOk(c.source)
         [] c.source.kind = "mock" -> MockOk(c.source, Members(c.channels))

\* MicCatalogue::validate: every candidate, then the ids among each other.
CatalogueOk(mics) ==
    /\ \A c \in Members(mics) : CandidateOk(c)
    /\ Distinct([i \in DOMAIN mics |-> mics[i].id])

\* MicPolicy::validate_against: only a fixed microphone is looked up, and a
\* fixed channel only under a fixed microphone.  channel is the set of the
\* one fixed channel, empty for automatic choice.
PolicyFits(policy, mics) ==
    policy.mic # "first_available" =>
        \E c \in Members(mics) :
            /\ c.id = policy.mic
            /\ policy.channel \subseteq Members(c.channels)

----------------------------------------------------------------------------
\* Backbone catalogue.

\* BackboneRef::validate, for every candidate.
BackbonesOk(refs) == \A r \in Members(refs) : r.path /\ r.hash # "malformed"

N_FRAMES == 43
N_BINS == 232
FEATURE_DIM == 2000

Supported(kind) == kind = "burn" \/ RknnBuild

\* What the loader meets: the file RKNN_LIB names, and what lies in the
\* standard places, in the order find_library_candidates walks them.  A
\* broken library cannot be opened or lacks one of the seven symbols.
Libraries ==
    [override : {"unset", "gone", "whole", "broken"},
     hits : {<<>>, <<"whole">>, <<"broken", "whole">>}]

\* find_library_candidates: only the first hit is ever used.
FirstHit(library) == IF library.hits = <<>> THEN "gone" ELSE Head(library.hits)

\* resolve_rknn_library: RKNN_LIB, when set, is taken or refused.
ResolveLibrary(library) ==
    IF library.override = "unset" THEN FirstHit(library) ELSE library.override

\* SymbolTable::load: the file opens and every symbol resolves.
SymbolsResolve(library) == ResolveLibrary(library) = "whole"

RKNN_MAX_DIMS == 16

\* query_tensor_attr: more dimensions than the C struct holds is an error.
AttrOk(attr) == attr.dims <= RKNN_MAX_DIMS

\* Session::load: the library, the network, then the attributes of every
\* tensor.
SessionOpens(r, library) ==
    /\ SymbolsResolve(library)
    /\ r.target = "good"
    /\ \A attr \in Members(r.inputs) \cup Members(r.outputs) : AttrOk(attr)

\* RknnBackbone::load: the session opens, and the network has one input and
\* one output of the expected sizes.
RknnLoads(r, library) ==
    /\ SessionOpens(r, library)
    /\ Len(r.inputs) = 1 /\ Len(r.outputs) = 1
    /\ r.inputs[1].elems = N_FRAMES * N_BINS
    /\ r.outputs[1].elems = FEATURE_DIM

\* BurnBackbone::load: the record parses into the network.
BurnLoads(r) == r.target = "good"

\* try_load_candidate: supported, there, the digest if one is pinned, and
\* accepted by the loader of its kind.
Loads(r, library) ==
    /\ Supported(r.kind)
    /\ r.target # "absent"
    /\ r.hash \in {"none", "match"}
    /\ IF r.kind = "rknn" THEN RknnLoads(r, library) ELSE BurnLoads(r)

\* load_first_supported: the first candidate that loads, or 0.
FirstLoading(refs, library) ==
    LET good == {i \in DOMAIN refs : Loads(refs[i], library)}
    IN IF good = {} THEN 0 ELSE CHOOSE i \in good : \A j \in good : i <= j

----------------------------------------------------------------------------
\* The other sections.

\* validate_tcp_bind looks at the shape only: any non-empty host passes.
TcpShapeOk(tcp) == tcp.colon /\ tcp.port \in 0 .. 65535 /\ tcp.host # "empty"

\* ... but the daemon parses a socket address, which a host name is not.
TcpParses(tcp) == TcpShapeOk(tcp) /\ tcp.host = "ip"

\* validate_uds_path: shape, directory, what is at the path, mode.
UdsOk(path) ==
    /\ path = "full"
    /\ parent = "dir"
    /\ entry # "foreign"

StreamOk(s) ==
    /\ TcpShapeOk(s.tcp)
    /\ UdsOk(s.uds)
    /\ s.capacity > 0
    /\ s.mode <= 4095

HeadOk(h) == h.present => h.path /\ h.labels

MAX_LR_E6 == 1000000   \* a learning rate of 1, in millionths

TrainingOk(t) ==
    /\ t.epochs \in 1 .. 10000
    /\ t.batch \in 1 .. 4096
    /\ t.lr \in 1 .. MAX_LR_E6

FileOk(f) == f.bytes > 0 /\ f.uploads > 0

\* LaunchConfig::load.
LaunchOk(cfg) ==
    /\ CatalogueOk(cfg.mic)
    /\ BackbonesOk(cfg.backbone)
    /\ StreamOk(cfg.stream)
    /\ HeadOk(cfg.head)
    /\ TrainingOk(cfg.training)
    /\ FileOk(cfg.file)

\* LaunchConfig::default_for, what a first boot runs with and writes down.
Defaults ==
    [mic |-> <<[id |-> "default-mock", channels |-> <<0>>,
                source |-> [kind |-> "mock", waveforms |-> 1,
                            period |-> 512, rate |-> 44100]]>>,
     backbone |-> <<>>,
     stream |-> [tcp |-> [colon |-> TRUE, port |-> 8787, host |-> "ip"],
                 uds |-> "full", mode |-> 438, capacity |-> 64],
     head |-> [present |-> FALSE],
     training |-> [epochs |-> 32, batch |-> 16, lr |-> 100],
     file |-> [bytes |-> 268435456, uploads |-> 4]]

\* A missing file and an unreadable one are not the defaults.
ASSUME LaunchAssumption == Defaults \notin {Absent, Garbled}

----------------------------------------------------------------------------
\* Steps on the disk.

\* ensure_uds_parent_dir, before an existing file is loaded as well as on a
\* first boot: a missing directory is made, with mode 0700.
Prepared ==
    /\ parent' = IF /\ file = Absent \/ (file # Garbled /\ file.stream.uds = "full")
                    /\ parent = "absent"
                 THEN "dir" ELSE parent
    /\ UNCHANGED <<file, entry>>

\* A first boot gives up on a symlinked directory; with a file in place the
\* same error is left to the loader.
PrepareFails == file = Absent /\ parent = "symlink"

\* The file loads, or there is none yet.
Accepted == IF file = Absent THEN TRUE ELSE file # Garbled /\ LaunchOk(file)

\* The defaults of a first boot are written atomically.
Persisted ==
    /\ file' = IF file = Absent THEN Defaults ELSE file
    /\ UNCHANGED <<parent, entry>>

\* bind_uds up to the bind: confinement of the directory (through symlinks,
\* which no accepted configuration has), then the entry: nothing or a socket.
MayBind == parent = "dir" /\ entry # "foreign"

\* Mutant of Unlinked: the socket of an earlier life is left in place.
UnlinkedNever == UNCHANGED diskVars

\* A stale socket is removed, and nothing else.
Unlinked ==
    /\ entry' = IF MayBind THEN "none" ELSE entry
    /\ UNCHANGED <<file, parent>>

\* UnixListener::bind needs a free name; the socket file stays when the
\* process ends.
BindsFree == parent = "dir" /\ entry = "none"
Bound ==
    /\ entry' = IF BindsFree THEN "socket" ELSE entry
    /\ UNCHANGED <<file, parent>>

\* set_uds_permissions on the bound socket: one whose mode cannot be set is
\* given up with its listener.
Listening(chmod) ==
    IF ~BindsFree THEN "refused" ELSE IF chmod THEN "up" ELSE "chmod"

\* The runtime directory does not survive a reboot of the machine.
Swept ==
    /\ parent' = IF parent = "dir" THEN "absent" ELSE parent
    /\ entry' = IF parent = "dir" THEN "none" ELSE entry
    /\ UNCHANGED file

DiskInit ==
    /\ file \in LaunchFiles \cup {Absent, Garbled}
    /\ parent \in {"absent", "dir", "open", "symlink", "file"}
    /\ entry \in IF parent \in {"dir", "open"} THEN {"none", "socket", "foreign"}
                 ELSE {"none"}

============================================================================
