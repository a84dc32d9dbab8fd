---------------------------- MODULE MCHeadPipeline ----------------------------
(***************************************************************************)
(* The sources HeadPipeline is checked on: each aspect of a source is       *)
(* varied on its own around an ordinary one.                                *)
(***************************************************************************)
EXTENDS HeadPipeline

W(name, shape) == [name |-> name, dtype |-> "float32", shape |-> shape]
Group(paths, ws) == [paths |-> paths, weights |-> ws]
Paths == <<"p1", "p2", "p3">>
Files == <<"s1", "s2", "s3">>
Sizes(a, b, c) == [f \in {"s1", "s2", "s3"} |->
                     CASE f = "s1" -> a [] f = "s2" -> b [] OTHER -> c]

K2 == W("kernel", <<2, 2>>)
B2 == W("bias", <<2>>)
Extra == W("dense", <<1>>)
Ordinary == [kind |-> "tfjs", json |-> TRUE,
             groups |-> <<Group(Paths, <<Extra, K2, B2>>)>>,
             files |-> Files, sizes |-> Sizes(5, 5, 4),
             nan |-> <<"none", 0>>, format |-> "metadata", labels |-> <<"a", "b">>]

\* Every way to cut the 14 bytes into three shards, for several orders of
\* the tensors, in one group and in two.
Cuts ==
    {[Ordinary EXCEPT !.groups = g, !.sizes = Sizes(c[1], c[2] - c[1], 14 - c[2])] :
        g \in {<<Group(Paths, <<Extra, K2, B2>>)>>,
               <<Group(Paths, <<K2, Extra, B2>>)>>,
               <<Group(Paths, <<B2, Extra, K2>>)>>,
               <<Group(Paths, <<Extra, B2, K2>>)>>,
               <<Group(<<"p1">>, <<Extra>>), Group(<<>>, <<B2>>), Group(<<"p2", "p3">>, <<K2>>)>>,
               <<Group(<<"p1", "p2">>, <<K2>>), Group(<<"p3">>, <<B2, Extra>>)>>},
        c \in {p \in (0 .. 14) \X (0 .. 14) : p[1] <= p[2]}}

\* Manifests that are refused, or picked from by shape.
Manifests ==
    {[Ordinary EXCEPT !.json = FALSE], [Ordinary EXCEPT !.groups = <<>>]}
    \cup {[Ordinary EXCEPT !.groups = <<Group(ps, <<Extra, K2, B2>>)>>] :
            ps \in {<<>>, <<"p1", "p2">>, <<"p1", "unsafe", "p3">>,
                    <<"p1", "p1", "p2">>, <<"p1", "model.json", "p2">>,
                    <<"p1", "p2", "p3", "p4">>}}
    \cup {[Ordinary EXCEPT !.groups = <<Group(Paths, ws)>>] :
            ws \in {<<W("dense", <<2, 2>>), W("dense", <<2>>), W("dense", <<1>>)>>,
                    <<W("dense", <<2, 2>>), W("dense", <<2>>), W("dense", <<2>>)>>,
                    <<W("dense", <<2, 2>>), W("dense", <<2, 1>>), W("dense", <<2>>)>>,
                    <<W("kernel", <<1, 4>>), B2, Extra>>,
                    <<W("kernel", <<4>>), B2, Extra>>,
                    <<K2, W("bias", <<3>>)>>,
                    <<W("kernel", <<2, 3>>), W("bias", <<3>>)>>,
                    <<W("kernel", <<2, 4>>), W("bias", <<4>>)>>,
                    <<W("kernel", <<2, 0>>), W("bias", <<0>>)>>,
                    <<[K2 EXCEPT !.dtype = "int32"], B2, Extra>>}}
    \cup {[Ordinary EXCEPT !.groups = <<Group(Paths, <<W("kernel", <<2, 3>>), W("bias", <<3>>)>>)>>,
                           !.sizes = Sizes(6, 6, 6), !.labels = <<"a", "b", "c">>]}

Requests ==
    {[Ordinary EXCEPT !.files = fs] :
        fs \in {<<>>, <<"s1", "s2">>, <<"s2", "s1", "s3">>, <<"s1", "s1", "s3">>,
                <<"s1", "s2", "s3", "s1">>}}
    \cup {[Ordinary EXCEPT !.sizes = Sizes(5, 5, 3)], [Ordinary EXCEPT !.sizes = Sizes(5, 5, 5)]}
    \cup {[Ordinary EXCEPT !.nan = <<f, i>>] : f \in {"s1", "s2", "s3"}, i \in 1 .. 5}

Texts == {"a", "b", "", " ", " padded ", "two\nlines"}
Labelled ==
    {[Ordinary EXCEPT !.labels = ls, !.format = f] :
        ls \in UNION {[1 .. n -> Texts] : n \in 0 .. 3}, f \in {"lines", "metadata"}}

\* Clips: an ordinary one, the shortest that is kept, and ones dropped each
\* for a reason of its own.
Clip == [opens |-> TRUE, rate |-> 2, channels |-> 1, frames |-> 8, format |-> "i16",
         whole |-> TRUE, finite |-> TRUE, silent |-> FALSE]
Short == [Clip EXCEPT !.frames = 4]
Clips ==
    {Clip, Short, [Clip EXCEPT !.frames = 5], [Clip EXCEPT !.frames = 12],
     [Clip EXCEPT !.frames = 13], [Clip EXCEPT !.rate = 1, !.frames = 3],
     [Clip EXCEPT !.rate = 1, !.frames = 2], [Clip EXCEPT !.rate = 4, !.frames = 16],
     [Clip EXCEPT !.rate = 0], [Clip EXCEPT !.rate = 5],
     [Clip EXCEPT !.channels = 0], [Clip EXCEPT !.channels = 3],
     [Clip EXCEPT !.opens = FALSE], [Clip EXCEPT !.whole = FALSE],
     [Clip EXCEPT !.format = "i8"], [Clip EXCEPT !.finite = FALSE],
     [Clip EXCEPT !.format = "f32", !.finite = FALSE], [Clip EXCEPT !.silent = TRUE]}
Folder(good, bad) == [samples |-> [i \in 1 .. good + bad |-> IF i > bad THEN Clip ELSE Short],
                      special |-> FALSE]
FolderSets ==
    UNION {[{n1, n2} -> {Folder(g, b) : g \in 0 .. 5, b \in 0 .. 1}] :
             n1 \in {"Cat"}, n2 \in {"dog", "cat"}}
    \cup {[n \in {"dog", "Cat"} |->
             [samples |-> IF n = "dog" THEN <<Clip, w, Clip>> ELSE <<Clip, Clip>>,
              special |-> FALSE]] : w \in Clips}
    \cup [{"dog", "Cat", "emu"} -> {Folder(g, 0) : g \in 1 .. 3}]
    \cup [{"dog"} -> {Folder(1, 0)}]
    \cup [{"dog", "Cat"} -> {[samples |-> <<Clip>>, special |-> b] : b \in BOOLEAN}]
    \cup [{"dog", "Cat", ".tmp"} -> {Folder(1, 0)}]
Cfg(q) == [epochs |-> 20, batch |-> 32, rate |-> "ok", quarters |-> q]
Two == [n \in {"dog", "Cat"} |-> Folder(2, 0)]
Datasets ==
    {[kind |-> "dataset", folders |-> fs, stray |-> FALSE, cfg |-> Cfg(q)] :
        fs \in FolderSets, q \in 0 .. 4}
    \cup {[kind |-> "dataset", folders |-> Two, stray |-> TRUE, cfg |-> Cfg(1)]}
    \cup {[kind |-> "dataset", folders |-> Two, stray |-> FALSE, cfg |-> c] :
            c \in {[Cfg(1) EXCEPT !.epochs = n] : n \in {0, MAX_EPOCHS, MAX_EPOCHS + 1}}
                  \cup {[Cfg(1) EXCEPT !.batch = n] : n \in {0, MAX_BATCH_SIZE + 1}}
                  \cup {[Cfg(1) EXCEPT !.rate = r] : r \in {"notPositive", "nan", "aboveOne"}}}

\* The bundled head, whole or with one thing wrong.
Whole(n) == HeadFile([kernel |-> [i \in 1 .. Dim * n |-> <<"w">>],
                     bias |-> [i \in 1 .. n |-> <<"w">>], classes |-> n])
BundledFiles ==
    {Whole(2), Whole(4), Whole(MaxLoadable), Whole(MaxLoadable + 1),
     [Whole(2) EXCEPT !.size = HeaderSize - 1],
     [Whole(2) EXCEPT !.size = @ - 1], [Whole(2) EXCEPT !.magic = FALSE],
     [Whole(2) EXCEPT !.version = 2], [Whole(2) EXCEPT !.crc = FALSE],
     [Whole(2) EXCEPT !.dim = Dim + 1], [Whole(2) EXCEPT !.weights.classes = 3],
     [Whole(2) EXCEPT !.weights.bias[1] = <<"nan">>]}
Bundled ==
    {[kind |-> "bundled", file |-> f, labels |-> ls] :
        f \in BundledFiles,
        ls \in {<<>>, <<"">>, <<"a">>, <<"a", "b">>, <<"a", "", " padded ">>,
                <<"two\nlines">>, <<"a", "b", "c", "d">>}
              \cup {[i \in 1 .. n |-> "a"] : n \in {MaxLoadable, MaxLoadable + 1}}}

\* The same through the library entry, which has no request to compare with.
Directories ==
    {[m EXCEPT !.format = "given"] :
        m \in {c \in Cuts \cup Manifests : Len(PathsOf(c.groups)) = Len(c.files)}}

\* One shard, read whole.
Singles ==
    LET single(ws, n) == [Ordinary EXCEPT !.format = "single", !.files = <<"s1">>,
                                          !.groups = <<Group(<<"p1">>, ws)>>,
                                          !.sizes = Sizes(n, 0, 0)]
    IN {single(ws, n) : ws \in {<<Extra, K2, B2>>, <<B2, Extra, K2>>, <<K2, Extra>>,
                                <<Extra, W("kernel", <<1, 4>>), B2>>},
                        n \in 13 .. 15}
       \cup {[single(<<Extra, K2, B2>>, 14) EXCEPT !.nan = <<"s1", i>>] : i \in 1 .. 14}
       \cup {[Ordinary EXCEPT !.format = "single"]}

MCInputs == Singles \cup Cuts \cup Directories \cup Manifests \cup Requests \cup Labelled \cup Datasets \cup Bundled
MCNameOrder == <<"Cat", "cat", "dog", "emu">>
=============================================================================
