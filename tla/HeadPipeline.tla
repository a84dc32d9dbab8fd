---------------------------- MODULE HeadPipeline ----------------------------
(***************************************************************************)
(* How a head comes into being and into service, as one data path:          *)
(*   - a TFJS model is converted (modules/converter.rs, converter/source.rs),*)
(*   - or class folders are scanned, their features extracted and split and *)
(*     a head trained (modules/training/finetune.rs, preproc/wav_io.rs),    *)
(*   - or the bundled default head is taken as it is;                       *)
(* the result is written with its header (common/head_header.rs, model.rs), *)
(* staged (file_mgr/active_head_writer.rs) and loaded (inference/head.rs).  *)
(*                                                                         *)
(* Bytes carry their origin: byte i of uploaded file f is <<f, i>>.  A float*)
(* is Word bytes.  Tensors are sequences, trained columns are the class     *)
(* they were trained for.  Errors are not told apart.  Publication and      *)
(* activation as file operations are in HeadRotation and ActiveHead, jobs   *)
(* and cancellation in HeadJobs.                                            *)
(***************************************************************************)
EXTENDS Integers, Sequences, SequencesExt, FiniteSets

CONSTANTS
    Inputs,          \* the sources a behaviour may start from
    Dim,             \* BACKBONE_FEATURE_DIM
    Word,            \* bytes of a float
    MaxClasses,      \* ConvertLimits::max_n_classes
    MaxLoadable,     \* MAX_N_CLASSES of the loader
    MaxShards,       \* max_shards and MAX_CONVERT_SHARDS
    MaxTensor,       \* max_kernel_bytes
    MaxBias,         \* max_bias_bytes
    HeaderSize,      \* HEAD_HEADER_SIZE
    MaxDropPercent,  \* MAX_DROP_RATIO
    MaxExamples,     \* MAX_EXAMPLES_FEATURE_BUFFER
    MinRate, MaxRate, TargetRate, MaxChannels, MaxSeconds, \* limits of a WAV
    WaveLen, Hop, FrameLen, FrontPad, Frames,              \* spectrogram geometry
    NameOrder        \* folder names in byte order

ASSUME PipelineAssumption ==
    /\ {Dim, Word, MaxClasses, MaxLoadable, MaxShards, MaxTensor, MaxBias,
        HeaderSize, MaxExamples} \subseteq Nat \ {0}
    /\ MaxClasses <= MaxLoadable   \* 10000 and 100000
    /\ MaxExamples <= MaxLoadable  \* 33554 rows of 8000 bytes in 256 MiB
    /\ MaxDropPercent \in 0 .. 100
    /\ (Frames - 1) * Hop - FrontPad + FrameLen <= WaveLen  \* FRAME_BOUNDS_INVARIANT

VARIABLES
    phase,       \* control point
    src,      \* the source
    content,  \* [uploaded file or staged copy -> its bytes]
    plan,     \* the parsed manifest and the entries picked from it
    staged,   \* shard names staged so far: [name -> file it is linked to]
    step,     \* shards handled in the current loop
    total,    \* cumulative bytes read
    bufs,     \* kernel_bytes and bias_bytes
    weights,  \* [kernel, bias, classes]
    labels,
    split,    \* [train, val]: sets of example numbers
    file,     \* head.mpk
    served    \* what the loader returned

pipeVars == <<phase, src, content, plan, staged, step, total, bufs, weights, labels, split,
          file, served>>

NoWeights == [kernel |-> <<>>, bias |-> <<>>, classes |-> 0]
Zero == <<"zero", 0>>
NoEntry == [name |-> "", shape |-> <<>>, len |-> 0, off |-> 0]
NoPlan == [shards |-> <<>>, entries |-> <<>>, kernel |-> NoEntry, bias |-> NoEntry]

PipeInit ==
    /\ phase = "idle" /\ src = [kind |-> "none"]
    /\ content = <<>> /\ plan = NoPlan /\ staged = <<>>
    /\ step = 0 /\ total = 0 /\ bufs = <<>>
    /\ weights = NoWeights /\ labels = <<>>
    /\ split = [train |-> {}, val |-> {}]
    /\ file = [size |-> 0] /\ served = NoWeights

Least(a, b) == IF a < b THEN a ELSE b
Most(a, b) == IF a < b THEN b ELSE a

Put(f, x, v) == [y \in DOMAIN f \cup {x} |-> IF y = x THEN v ELSE f[y]]

Goto(from, to) == phase = from /\ phase' = to

----------------------------------------------------------------------------
\* Paths.

\* A component of an AssetPath: not empty, no leading dot, only the allowed
\* bytes; "." and ".." fall under the leading dot.
Names == {"", ".", ".tmp", "a b", "Cat", "cat", "dog", "emu", "a.wav"}
Component(n) == n \in Names \ {"", ".", ".tmp", "a b"}

\* PUT under datasets/: <class>/<file> at least, every component sound.
UploadAccepted(path) ==
    /\ Len(path) >= 3
    /\ path[1] = "datasets"
    /\ \A i \in 2 .. Len(path) : Component(path[i])

Lower(n) == IF n = "Cat" THEN "cat" ELSE n

----------------------------------------------------------------------------
\* Conversion: the manifest.

\* s[1] + ... + s[i] and s[1] * ... * s[i], for every i.
Sums(s) == LET f[i \in 0 .. Len(s)] == IF i = 0 THEN 0 ELSE f[i - 1] + s[i] IN f
Products(s) == LET f[i \in 0 .. Len(s)] == IF i = 0 THEN 1 ELSE f[i - 1] * s[i] IN f
Total(s) == Sums(s)[Len(s)]

WeightsOf(groups) == FlattenSeq([g \in DOMAIN groups |-> groups[g].weights])
PathsOf(groups) == FlattenSeq([g \in DOMAIN groups |-> groups[g].paths])
BytesOf(w) == Word * Products(w.shape)[Len(w.shape)]

\* Plain relative components only.
ShardPathOk(p) == p # "unsafe"

WeightOk(w) ==
    /\ w.dtype = "float32"
    /\ \A i \in DOMAIN w.shape : w.shape[i] # 0
    /\ Len(w.shape) = 2 /\ w.shape[1] = Dim => w.shape[2] <= MaxClasses
    /\ Len(w.shape) = 1 => w.shape[1] <= MaxClasses
    /\ BytesOf(w) <= MaxTensor

\* parse_tfjs_manifest_with_limits.
ManifestOk(m) ==
    /\ m.json
    /\ WeightsOf(m.groups) # <<>> /\ PathsOf(m.groups) # <<>>
    /\ \A i \in DOMAIN PathsOf(m.groups) : ShardPathOk(PathsOf(m.groups)[i])
    /\ Len(PathsOf(m.groups)) <= MaxShards
    /\ \A i \in DOMAIN WeightsOf(m.groups) : WeightOk(WeightsOf(m.groups)[i])

\* The entries with the offset each has in the concatenated shards.
Entries(m) ==
    LET ws == WeightsOf(m.groups) IN
    [i \in DOMAIN ws |->
        [name |-> ws[i].name, shape |-> ws[i].shape, len |-> BytesOf(ws[i]),
         off |-> Sums([j \in DOMAIN ws |-> BytesOf(ws[j])])[i - 1]]]

Plan(m) == [NoPlan EXCEPT !.shards = PathsOf(m.groups), !.entries = Entries(m)]

First(es, name) ==
    LET hits == {i \in DOMAIN es : es[i].name = name} IN
    {i \in hits : \A j \in hits : i <= j}

\* pick_tfjs_head_entries: by name, or by a shape only one entry has.  The
\* set of <<kernel, bias>> it may return, empty for an error.
Pick(es) ==
    LET k == First(es, "kernel")
        b == First(es, "bias")
        shaped == {i \in DOMAIN es : Len(es[i].shape) = 2 /\ es[i].shape[1] = Dim}
        paired(i) == {j \in DOMAIN es : es[j].shape = <<es[i].shape[2]>>}
    IN
    IF k # {} /\ b # {} THEN k \X b
    ELSE {p \in shaped \X DOMAIN es :
             /\ Cardinality(shaped) = 1
             /\ paired(p[1]) = {p[2]}}


----------------------------------------------------------------------------
\* Conversion: the job.

\* The shards as they are on disk now.
Shards(m) == [f \in ToSet(m.files) |-> [i \in 1 .. m.sizes[f] |-> <<f, i>>]]

\* The job: the request is validated and its files are found.
ConvertBegin(m) ==
    /\ m.kind = "tfjs" /\ m.format \in {"lines", "metadata"}
    /\ src' = m
    /\ phase' = IF m.files = <<>> \/ Len(m.files) > MaxShards THEN "failed" ELSE "parse"
    /\ content' = Shards(m)
    /\ UNCHANGED <<plan, staged, step, total, bufs, weights, labels, split, file, served>>

\* convert_tfjs, the library entry: the directory is read in place, each
\* declared name being a file of it, and the labels are an argument.
ConvertDirectory(m) ==
    LET names == PathsOf(m.groups) IN
    /\ m.kind = "tfjs" /\ m.format = "given"
    /\ src' = m /\ content' = Shards(m)
    /\ IF ManifestOk(m) /\ Len(names) = Len(m.files)
       THEN /\ phase' = "stage"
            /\ plan' = Plan(m)
            /\ staged' = [n \in ToSet(names) |->
                            m.files[CHOOSE i \in DOMAIN names : names[i] = n]]
            /\ step' = Len(names)
       ELSE phase' = "failed" /\ UNCHANGED <<plan, staged, step>>
    /\ UNCHANGED <<total, bufs, weights, labels, split, file, served>>

\* Model file read, parsed and compared with the request; staging directory
\* with a copy of model.json.
ConvertParse ==
    /\ phase = "parse"
    /\ IF ManifestOk(src) /\ Len(PathsOf(src.groups)) = Len(src.files)
       THEN /\ phase' = "stage"
            /\ plan' = Plan(src)
            /\ staged' = [n \in {"model.json"} |-> "model.json"]
       ELSE phase' = "failed" /\ UNCHANGED <<plan, staged>>
    /\ UNCHANGED <<src, content, step, total, bufs, weights, labels, split, file, served>>

\* One shard under its declared name: a hard link when the name is free and
\* the file system links, a copy otherwise.  A copy onto a name that is
\* taken overwrites what the name is linked to; onto itself, it empties it.
StageShard(links) ==
    LET n == plan.shards[step + 1]
        f == src.files[step + 1]
        taken == n \in DOMAIN staged
        target == IF taken THEN staged[n] ELSE n
    IN
    /\ phase = "stage" /\ step < Len(src.files)
    /\ IF links /\ ~taken
       THEN staged' = Put(staged, n, f) /\ UNCHANGED content
       ELSE /\ staged' = Put(staged, n, target)
            /\ content' = Put(content, target, IF target = f THEN <<>> ELSE content[f])
    /\ step' = step + 1
    /\ UNCHANGED <<phase, src, plan, total, bufs, weights, labels, split, file, served>>

\* All shards in place: locate the head's tensors, allocate their buffers.
ConvertPick ==
    LET picks == Pick(plan.entries) IN
    /\ phase = "stage" /\ step = Len(src.files)
    /\ IF picks = {}
       THEN phase' = "failed" /\ UNCHANGED <<plan, bufs>>
       ELSE \E p \in picks :
              LET k == plan.entries[p[1]]
                  b == plan.entries[p[2]]
              IN /\ phase' = "read"
                 /\ plan' = [plan EXCEPT !.kernel = k, !.bias = b]
                 /\ bufs' = [kernel |-> [i \in 1 .. k.len |-> Zero],
                             bias |-> [i \in 1 .. b.len |-> Zero]]
    /\ step' = 0
    /\ UNCHANGED <<src, content, staged, total, weights, labels, split, file, served>>

\* Mutant of Overlay: the buffer position forgets where the entry starts.
OverlayFromZero(entry, buf, bytes, start) ==
    LET from == Most(entry.off, start)
        to == Least(entry.off + entry.len, start + Len(bytes))
        inBuffer == IF from = start THEN 0 ELSE from - entry.off
        copied == IF to > from THEN to - from ELSE 0
    IN [i \in DOMAIN buf |->
          IF i > inBuffer /\ i <= inBuffer + copied
          THEN bytes[(from - start) + (i - inBuffer)]
          ELSE buf[i]]

\* The part of one shard that falls into an entry, copied to its place.
Overlay(entry, buf, bytes, start) ==
    LET from == Most(entry.off, start)
        to == Least(entry.off + entry.len, start + Len(bytes))
        inBuffer == from - entry.off
        copied == IF to > from THEN to - from ELSE 0
    IN [i \in DOMAIN buf |->
          IF i > inBuffer /\ i <= inBuffer + copied
          THEN bytes[(from - start) + (i - inBuffer)]
          ELSE buf[i]]

\* One turn of read_head_bytes_streaming.
ReadShard ==
    LET bytes == content[staged[plan.shards[step + 1]]] IN
    /\ phase = "read" /\ step < Len(src.files)
    /\ bufs' = [kernel |-> Overlay(plan.kernel, bufs.kernel, bytes, total),
                bias |-> Overlay(plan.bias, bufs.bias, bytes, total)]
    /\ total' = total + Len(bytes)
    /\ step' = step + 1
    /\ UNCHANGED <<phase, src, content, plan, staged, weights, labels, split, file, served>>

Floats(buf) == [i \in 1 .. Len(buf) \div Word |-> SubSeq(buf, Word * (i - 1) + 1, Word * i)]
Finite(tensor) == \A i \in DOMAIN tensor : ~\E j \in DOMAIN tensor[i] : tensor[i][j] = src.nan

\* The tensors picked are a kernel and a bias of one size.
PairOk(k, b) ==
    /\ Len(k.shape) = 2 /\ k.shape[1] = Dim
    /\ b.shape = <<k.shape[2]>>
    /\ k.shape[2] \in 1 .. MaxClasses

\* extract_head_from_tfjs, the library entry for a model of one shard.
ExtractBegin(m) ==
    /\ m.kind = "tfjs" /\ m.format = "single"
    /\ src' = m /\ content' = Shards(m)
    /\ IF ManifestOk(m) /\ Len(PathsOf(m.groups)) = 1
       THEN /\ phase' = "blob"
            /\ plan' = Plan(m)
       ELSE phase' = "failed" /\ UNCHANGED plan
    /\ UNCHANGED <<staged, step, total, bufs, weights, labels, split, file, served>>

\* extract_head_from_tfjs_buffers: the tensors are cut out of the one blob.
ExtractBlob ==
    LET blob == content[src.files[1]]
        cut(e) == Floats(SubSeq(blob, e.off + 1, e.off + e.len))
        last == plan.entries[Len(plan.entries)]
        good == {p \in Pick(plan.entries) :
                   LET k == plan.entries[p[1]]
                       b == plan.entries[p[2]]
                   IN /\ Len(blob) = last.off + last.len
                      /\ PairOk(k, b)
                      /\ Finite(cut(k)) /\ Finite(cut(b))}
    IN
    /\ phase = "blob"
    /\ IF good = {}
       THEN phase' = "failed" /\ UNCHANGED <<plan, weights>>
       ELSE \E p \in good :
              LET k == plan.entries[p[1]]
                  b == plan.entries[p[2]]
              IN /\ phase' = "labels"
                 /\ plan' = [plan EXCEPT !.kernel = k, !.bias = b]
                 /\ weights' = [kernel |-> cut(k), bias |-> cut(b),
                                classes |-> k.shape[2]]
    /\ UNCHANGED <<src, content, staged, step, total, bufs, labels, split, file, served>>

\* The declared total, head_weights_from_head_byte_ranges and its limits.
ConvertWeights ==
    LET k == plan.kernel
        b == plan.bias
        declared == Total([i \in DOMAIN plan.entries |-> plan.entries[i].len])
        ok == /\ total = declared
              /\ PairOk(k, b)
              /\ k.len <= MaxTensor /\ b.len <= MaxBias
              /\ Finite(Floats(bufs.kernel)) /\ Finite(Floats(bufs.bias))
    IN
    /\ phase = "read" /\ step = Len(src.files)
    /\ phase' = IF ok THEN "labels" ELSE "failed"
    /\ weights' = IF ok THEN [kernel |-> Floats(bufs.kernel), bias |-> Floats(bufs.bias),
                              classes |-> k.shape[2]]
                  ELSE NoWeights
    /\ UNCHANGED <<src, content, plan, staged, step, total, bufs, labels, split, file, served>>

----------------------------------------------------------------------------
\* Labels and files.

\* What the text of a label is once it is written on a line and read back.
Parts(l) == IF l = "two\nlines" THEN <<"two", "lines">> ELSE <<l>>
Trim(l) == CASE l = " padded " -> "padded" [] l = " " -> "" [] OTHER -> l
Lines(ls) == FlattenSeq([i \in DOMAIN ls |-> Parts(ls[i])])
NotBlank(l) == l # ""

\* text.lines(), trimmed, blank lines dropped: the converter's "lines" format
\* and the loader.
ReadLabels(ls) ==
    LET raw == Lines(ls) IN
    FlattenSeq([i \in DOMAIN raw |-> IF NotBlank(Trim(raw[i])) THEN <<Trim(raw[i])>> ELSE <<>>])

\* read_labels_from_path: metadata labels, like an argument, are taken as
\* they are.
ConvertLabels ==
    LET ls == IF src.format = "lines" THEN ReadLabels(src.labels) ELSE src.labels IN
    /\ phase = "labels"
    /\ phase' = IF ls # <<>> /\ Len(ls) = weights.classes THEN "write" ELSE "failed"
    /\ labels' = ls
    /\ UNCHANGED <<src, content, plan, staged, step, total, bufs, weights, split, file, served>>

Payload(w) == Len(w.kernel) + Len(w.bias)

\* Mutant of HeadFile: the length field counts the header as well.
HeadFileCountsHeader(w) ==
    [size |-> HeaderSize + Payload(w), magic |-> TRUE, version |-> 1, crc |-> TRUE,
     dim |-> Dim, payload |-> HeaderSize + Payload(w), weights |-> w]

\* write_with_payload: the header and the recorded tensors.
HeadFile(w) ==
    [size |-> HeaderSize + Payload(w), magic |-> TRUE, version |-> 1, crc |-> TRUE,
     dim |-> Dim, payload |-> Payload(w), weights |-> w]

\* validate_head_class_count and Head::try_new, which the converter makes its
\* head with.  The trainer's Head::new has no upper bound: only the cap on its
\* examples keeps the classes, each with an example, below the loader's.
TryNew(classes) == classes \in 1 .. MaxClasses /\ classes \in 1 .. MaxLoadable

\* Head::save_mpk_atomic, the trainer's: the class count is the tensor's.
SaveMpk(w) == HeadFile([w EXCEPT !.classes = Len(w.kernel) \div Dim])

\* write_head_artifacts, which the library entry ends with, compares again.
ArtifactsOk(w, ls) == Len(ls) = w.classes

\* The head is written and published with its manifest.
WriteHead ==
    /\ phase = "write"
    /\ IF src.kind = "tfjs" => /\ TryNew(weights.classes)
                               /\ src.format = "given" => ArtifactsOk(weights, labels)
       THEN /\ phase' = "published"
            /\ file' = IF src.kind = "dataset" THEN SaveMpk(weights) ELSE HeadFile(weights)
       ELSE phase' = "failed" /\ UNCHANGED file
    /\ UNCHANGED <<src, content, plan, staged, step, total, bufs, weights, labels, split, served>>

----------------------------------------------------------------------------
\* Training.

FolderNames(m) == DOMAIN m.folders
Rank(n) == CHOOSE i \in DOMAIN NameOrder : NameOrder[i] = n
Sorted(ns) ==
    {s \in [1 .. Cardinality(ns) -> ns] :
        \A i, j \in 1 .. Cardinality(ns) : i < j => Rank(s[i]) < Rank(s[j])}

MAX_EPOCHS == 1000
MAX_BATCH_SIZE == 4096

\* validate_training_cfg.  The learning rate is told apart only by whether it
\* is a number above zero and at most one; the split is counted in quarters.
TrainingCfgOk(cfg) ==
    /\ cfg.epochs \in 1 .. MAX_EPOCHS
    /\ cfg.batch \in 1 .. MAX_BATCH_SIZE
    /\ cfg.rate = "ok"
    /\ cfg.quarters \in 0 .. 3

\* FinetuneConfig::validate, which knows no upper bounds.
FinetuneConfigOk(cfg) ==
    /\ cfg.epochs >= 1 /\ cfg.batch >= 1
    /\ cfg.rate \in {"ok", "aboveOne"}
    /\ cfg.quarters \in 0 .. 3

\* The route validates the request, the job its own configuration.  Class
\* folders are what uploads created.
TrainBegin(m) ==
    /\ m.kind = "dataset"
    /\ \A n \in FolderNames(m) : UploadAccepted(<<"datasets", n, "a.wav">>)
    /\ src' = m
    /\ phase' = IF TrainingCfgOk(m.cfg) /\ FinetuneConfigOk(m.cfg) THEN "scan" ELSE "failed"
    /\ UNCHANGED <<content, plan, staged, step, total, bufs, weights, labels, split, file, served>>

\* The .wav files below a class folder, sub-folders included, hidden ones
\* not; anything but files and folders makes it special.
Wavs(m, n) == Len(m.folders[n].samples)
ScanOk(m) ==
    LET ns == FolderNames(m) IN
    /\ ~m.stray
    /\ Cardinality(ns) >= 2
    /\ \A n1, n2 \in ns : Lower(n1) = Lower(n2) => n1 = n2
    /\ \A n \in ns : m.folders[n].special = FALSE /\ Wavs(m, n) > 0

\* scan_dataset: class folders by their exact names, in byte order.
TrainScan ==
    /\ phase = "scan"
    /\ IF ScanOk(src)
       THEN /\ phase' = "extract"
            /\ labels' \in Sorted(FolderNames(src))
       ELSE phase' = "failed" /\ UNCHANGED labels
    /\ UNCHANGED <<src, content, plan, staged, step, total, bufs, weights, split, file, served>>

\* read_wav_mono.
Reads(w) ==
    /\ w.opens
    /\ w.rate \in MinRate .. MaxRate
    /\ w.channels \in 1 .. MaxChannels
    /\ w.frames <= MaxSeconds * w.rate
    /\ w.format \in {"i16", "i24", "i32", "f32"}
    /\ w.whole
    /\ w.format = "f32" => w.finite

\* to_waveform: how much of the waveform the clip fills once resampled, cut
\* or padded with zeros to WaveLen.
Heard(w) ==
    Least(WaveLen, IF w.rate = TargetRate THEN w.frames
                   ELSE (w.frames * TargetRate) \div w.rate)

\* spectrogram_into: the logarithm of an all-zero frame is not finite, and
\* the mean spreads it over the whole spectrogram.
SpectrogramFinite(w) ==
    /\ ~w.silent
    /\ \A t \in 0 .. Frames - 1 : Most(0, t * Hop - FrontPad) < Heard(w)

KeptSample(w) == Reads(w) /\ SpectrogramFinite(w)
Good(l) ==
    LET ws == src.folders[l].samples IN Cardinality({i \in DOMAIN ws : KeptSample(ws[i])})

\* The kept examples of class i, numbered within their class.
Kept(i) == {i} \X (1 .. Good(labels[i]))
AllKept == UNION {Kept(i) : i \in DOMAIN labels}

\* The examples of scan_dataset: a class and a file of its folder.
Examples == UNION {{i} \X DOMAIN src.folders[labels[i]].samples : i \in DOMAIN labels}

\* validate_post_extract_quality: every class left and few dropped.
QualityOk ==
    LET in == Cardinality(Examples) IN
    /\ \A i \in DOMAIN labels : Kept(i) # {}
    /\ 100 * (in - Cardinality(AllKept)) <= MaxDropPercent * in

\* extract_features refuses more examples than its buffer holds, and drops
\* what does not decode or has no finite spectrogram.
TrainExtract ==
    /\ Goto("extract", IF Cardinality(Examples) <= MaxExamples /\ QualityOk
                       THEN "split" ELSE "failed")
    /\ UNCHANGED <<src, content, plan, staged, step, total, bufs, weights, labels, split, file, served>>

\* Mutant of ValidationSize: the upper clamp is missing.
ValidationSizeUnclamped(n, quarters) ==
    LET rounded == (2 * n * quarters + 4) \div 8 IN
    Most(rounded, IF quarters > 0 /\ n >= 2 THEN 1 ELSE 0)

\* (class_n * val_split).round(), clamped so that both sides keep one.
ValidationSize(n, quarters) ==
    LET rounded == (2 * n * quarters + 4) \div 8
        least == IF quarters > 0 /\ n >= 2 THEN 1 ELSE 0
    IN Least(Most(rounded, least), Most(n - 1, least))

\* stratified_split_indices: per class, a shuffled bucket cut in two.
TrainSplit ==
    LET class == [i \in DOMAIN labels |-> Kept(i)]
        all == AllKept
        held(i) == {v \in SUBSET class[i] :
                      Cardinality(v) = ValidationSize(Cardinality(class[i]), src.cfg.quarters)}
    IN
    /\ phase = "split"
    /\ IF src.cfg.quarters > 0 /\ \E i \in DOMAIN labels : Cardinality(class[i]) = 1
       THEN phase' = "failed" /\ UNCHANGED split
       ELSE \E pick \in [DOMAIN labels -> UNION {held(i) : i \in DOMAIN labels}] :
              LET val == UNION {pick[i] : i \in DOMAIN labels} IN
              /\ \A i \in DOMAIN labels : pick[i] \in held(i)
              /\ split' = [train |-> all \ val, val |-> val]
              /\ phase' = IF all \ val = {} THEN "failed" ELSE "train"
    /\ UNCHANGED <<src, content, plan, staged, step, total, bufs, weights, labels, file, served>>

\* train_head: column i answers for class i.  Nothing checks that training
\* stayed finite.
TrainHead(finite) ==
    LET column(i) == IF finite THEN labels[i] ELSE "nan" IN
    /\ Goto("train", "write")
    /\ weights' = [kernel |-> [i \in 1 .. Dim * Len(labels) |-> <<column(1 + ((i - 1) % Len(labels)))>>],
                   bias |-> [i \in DOMAIN labels |-> <<column(i)>>],
                   classes |-> Len(labels)]
    /\ UNCHANGED <<src, content, plan, staged, step, total, bufs, labels, split, file, served>>

----------------------------------------------------------------------------
\* Staging and loading.

\* The bundled head is staged as found, if its labels file has a line.
BundledBegin(m) ==
    /\ m.kind = "bundled"
    /\ src' = m
    /\ labels' = m.labels /\ file' = m.file
    /\ phase' = IF \E i \in DOMAIN Lines(m.labels) : NotBlank(Lines(m.labels)[i])
                THEN "published" ELSE "failed"
    /\ UNCHANGED <<content, plan, staged, step, total, bufs, weights, split, served>>

IsFinite(t) == IF src.kind = "tfjs" THEN Finite(t) ELSE \A i \in DOMAIN t : t[i] # <<"nan">>

\* parse_header, and the payload length it announces.
HeaderOk(f) ==
    /\ f.size >= HeaderSize
    /\ f.magic /\ f.version <= 1 /\ f.crc
    /\ f.dim = Dim
    /\ f.size - HeaderSize = f.payload

\* HeadInner::validate.
ShapesOk(w, ls) ==
    /\ w.classes \in 1 .. MaxLoadable
    /\ Len(w.kernel) = Dim * w.classes
    /\ Len(w.bias) = w.classes
    /\ Len(ls) = w.classes

\* load_inner.
Loadable(f, ls) ==
    /\ HeaderOk(f)
    /\ ShapesOk(f.weights, ReadLabels(ls))
    /\ IsFinite(f.weights.kernel) /\ IsFinite(f.weights.bias)

\* HeadManifest::validate, whenever read_head_manifest reads one.
HeadManifestOk(classes, ls) == classes # 0 /\ classes = Len(ls)

\* Activation: the manifest of a job's head is read, labels.txt is rendered
\* from the manifest's labels, the loader reads it back.
Activate ==
    /\ phase = "published"
    /\ IF /\ src.kind # "bundled" => HeadManifestOk(file.weights.classes, labels)
          /\ Loadable(file, labels)
       THEN phase' = "serving" /\ served' = file.weights /\ labels' = ReadLabels(labels)
       ELSE phase' = "refused" /\ UNCHANGED <<served, labels>>
    /\ UNCHANGED <<src, content, plan, staged, step, total, bufs, weights, split, file>>

\* What a source is: finitely many files, folders and samples, files of
\* natural sizes (one at least for the one-shard entry), tensors with a
\* shape, and staged copies in a directory of their own, so that the name of
\* a copy is not the name of an upload.
ASSUME InputsAssumption ==
    \A m \in Inputs :
        /\ m.kind = "tfjs" =>
             /\ m.files \in Seq(STRING) /\ (m.format = "single" => m.files # <<>>)
             /\ PathsOf(m.groups) \in Seq(STRING)
             /\ ToSet(m.files) \cap ToSet(PathsOf(m.groups)) = {}
             /\ \A f \in ToSet(m.files) : m.sizes[f] \in Nat
             /\ WeightsOf(m.groups) \in Seq([name : STRING, dtype : STRING, shape : Seq(Nat)])
             /\ m.labels \in Seq(STRING)
        /\ m.kind = "dataset" =>
             /\ IsFiniteSet(FolderNames(m))
             /\ \A n \in FolderNames(m) : IsFiniteSet(DOMAIN m.folders[n].samples)

Done == phase \in {"failed", "refused", "serving"} /\ UNCHANGED pipeVars

PipeNext ==
    \/ phase = "idle" /\ \E m \in Inputs : ConvertBegin(m) \/ ConvertDirectory(m)
                                    \/ ExtractBegin(m) \/ TrainBegin(m) \/ BundledBegin(m)
    \/ ConvertParse \/ ExtractBlob
    \/ \E links \in BOOLEAN : StageShard(links)
    \/ ConvertPick \/ ReadShard \/ ConvertWeights \/ ConvertLabels
    \/ TrainScan \/ TrainExtract \/ TrainSplit
    \/ \E finite \in BOOLEAN : TrainHead(finite)
    \/ WriteHead
    \/ Activate
    \/ Done

PipeSpec == PipeInit /\ [][PipeNext]_pipeVars

----------------------------------------------------------------------------
\* Properties.

Converting == src.kind = "tfjs" /\ weights.classes > 0

\* Shard names of the manifest that do not collide in the staging directory.
NamesDistinct(m) ==
    LET ps == PathsOf(m.groups) IN
    /\ "model.json" \notin ToSet(ps)
    /\ IsInjective(ps)

\* The uploads as they were when the job began, one after the other in the
\* order of the request.
Uploaded(m) ==
    FlattenSeq([i \in DOMAIN m.files |-> [j \in 1 .. m.sizes[m.files[i]] |-> <<m.files[i], j>>]])

Slice(m, e) == Floats(SubSeq(Uploaded(m), e.off + 1, e.off + e.len))

\* Converter: whatever the shard boundaries, empty shards included, and
\* whether shards were linked or copied, the tensors assembled one shard at
\* a time are the slices the manifest declares of the uploads put together,
\* and no upload changed.  (A manifest whose shard names collide is outside
\* this: staging then writes over an upload.)
StreamedIsSlice ==
    Converting /\ phase # "failed" /\ NamesDistinct(src) =>
        /\ weights.kernel = Slice(src, plan.kernel)
        /\ weights.bias = Slice(src, plan.bias)
        /\ \A f \in ToSet(src.files) : content[f] = [i \in 1 .. src.sizes[f] |-> <<f, i>>]

\* Trainer: the two sides of the split share no example, lose none, and with
\* a split asked for every class is on both sides, so that a validation
\* accuracy speaks of examples training never saw and of every class.
SplitSound ==
    phase \in {"train", "write", "published", "serving"} /\ src.kind = "dataset" =>
        /\ split.train \cap split.val = {}
        /\ split.train \cup split.val = AllKept
        /\ \A i \in DOMAIN labels :
             /\ split.train \cap Kept(i) # {}
             /\ (split.val \cap Kept(i) # {}) = (src.cfg.quarters > 0)

\* A label that survives being written on a line of labels.txt.
Clean(l) == Parts(l) = <<l>> /\ Trim(l) = l /\ l # ""
AllClean == \A i \in DOMAIN labels : Clean(labels[i])

\* Trainer, converter and loader: a head a job published is refused by the
\* loader only for a label that labels.txt cannot carry or for a weight that
\* is not finite; and what serves has one name per column, finite weights
\* and, for a trained head, the name of the class the column was trained on.
PublishedHeadServes ==
    /\ phase = "refused" /\ src.kind # "bundled" =>
         ~AllClean \/ ~IsFinite(weights.kernel)
    /\ phase = "serving" =>
         /\ Len(labels) = served.classes
         /\ IsFinite(served.kernel) /\ IsFinite(served.bias)
         /\ src.kind = "dataset" =>
              \A i \in DOMAIN served.kernel :
                served.kernel[i] = <<labels[1 + ((i - 1) % served.classes)]>>

=============================================================================
