------------------------------ MODULE MCDaemon ------------------------------
\* One launch file that works, one whose candidates cannot load, and for each
\* validator a file it refuses.
EXTENDS Daemon

Rknn == [kind |-> "rknn", path |-> TRUE, hash |-> "none", target |-> "good",
         inputs |-> <<[dims |-> 4, elems |-> N_FRAMES * N_BINS]>>,
         outputs |-> <<[dims |-> 2, elems |-> FEATURE_DIM]>>]
Burn == [kind |-> "burn", path |-> TRUE, hash |-> "match", target |-> "good"]
Alsa == [id |-> "usb", channels |-> <<0, 1>>,
         source |-> [kind |-> "alsa", named |-> TRUE, period |-> 1024, buffer |-> 4096]]

Works == [Defaults EXCEPT !.backbone = <<Rknn, Burn>>, !.mic = <<Alsa>> \o @,
                          !.head = [present |-> TRUE, path |-> TRUE, labels |-> TRUE]]

MCLaunchFiles == {
    Works,
    [Works EXCEPT !.backbone = <<[Rknn EXCEPT !.outputs = @ \o @],
                                 [Rknn EXCEPT !.inputs[1].elems = N_BINS],
                                 [Rknn EXCEPT !.inputs[1].dims = RKNN_MAX_DIMS + 1],
                                 [Rknn EXCEPT !.outputs[1].elems = 521],
                                 [Burn EXCEPT !.hash = "mismatch"],
                                 [Burn EXCEPT !.target = "absent"],
                                 [Burn EXCEPT !.target = "bad"]>>],
    [Works EXCEPT !.backbone[1].hash = "malformed"],
    [Works EXCEPT !.backbone[2].path = FALSE],
    [Works EXCEPT !.mic[1].channels = <<>>],
    [Works EXCEPT !.mic[1].channels = <<1, 1>>],
    [Works EXCEPT !.mic[1].channels = <<MAX_CHANNEL_INDEX + 1>>],
    [Works EXCEPT !.mic[1].source.named = FALSE],
    [Works EXCEPT !.mic[1].source.period = 0],
    [Works EXCEPT !.mic[1].source.buffer = 1023],
    [Works EXCEPT !.mic[1].source.buffer = 16 * 1024 + 1],
    [Works EXCEPT !.mic[2].channels = <<1>>],
    [Works EXCEPT !.mic[2].source.rate = MIN_SAMPLE_RATE - 1],
    [Works EXCEPT !.mic[2].id = "usb"],
    [Defaults EXCEPT !.stream.tcp.host = "name"],
    [Works EXCEPT !.stream.tcp.host = "empty"],
    [Works EXCEPT !.stream.tcp.port = 65536],
    [Works EXCEPT !.stream.tcp.colon = FALSE],
    [Works EXCEPT !.stream.uds = "bare"],
    [Works EXCEPT !.stream.mode = 4096],
    [Works EXCEPT !.stream.capacity = 0],
    [Works EXCEPT !.head.labels = FALSE],
    [Works EXCEPT !.training.epochs = 0],
    [Works EXCEPT !.training.batch = 4097],
    [Works EXCEPT !.training.lr = 0],
    [Works EXCEPT !.file.uploads = 0]}

MCPolicies ==
    [mic : {"first_available", "usb", "gone"}, channel : {{}, {1}, {2}}]
============================================================================
