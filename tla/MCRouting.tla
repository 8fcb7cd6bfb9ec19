----------------------------- MODULE MCRouting -----------------------------
(***************************************************************************)
(* Instances of Routing for TLC: one server of every shape, next to one of *)
(* a few others, so that two can clash over a listen text or over a name   *)
(* that only one of them refers to.                                        *)
(***************************************************************************)
EXTENDS Routing, TLC

CONSTANTS a, b, invalid, h1, h2, garbled, addrA, addrB

MCAddr == a :> addrA @@ b :> addrB @@ invalid :> None
MCHellos == {<<>>, <<h1>>, <<h2>>, <<h2, h1>>}

UseSni == [useSni |-> TRUE, target |-> None, timeout |-> None]
Static == [useSni |-> FALSE, target |-> "t", timeout |-> None]
Direct == [useSni |-> FALSE, target |-> None, timeout |-> 10]

Empty == [h \in {} |-> None]
To(h, name, via) == h :> [upstream |-> name, via |-> via]

Shapes ==
    [listen  : {<<a>>, <<a, a>>, <<b, invalid>>},
     tls     : BOOLEAN,
     sni     : {Empty,
                To(h1, "p", None) @@ To(h2, "echo", Direct),
                To(h2, "q", None)},
     default : {None, "p", "q"},
     via     : {None, UseSni, Static}]

Others ==
    [listen  : {<<b>>},
     tls     : {TRUE},
     sni     : {To(h1, "p", None), To(h1, "q", UseSni)},
     default : {"health"},
     via     : {None}]

Headers ==
    {[version |-> 1, format |-> None,   urls |-> "p" :> "tcp4"],
     [version |-> 2, format |-> "json", urls |-> "p" :> "tcp" @@ "q" :> "tcp6"],
     [version |-> 3, format |-> None,   urls |-> "p" :> "tcp"],
     [version |-> 1, format |-> "xml",  urls |-> "p" :> "tcp"],
     [version |-> 1, format |-> "txt",  urls |-> "p" :> "http"]}

MCConfigs ==
    {[version |-> h.version, format |-> h.format, urls |-> h.urls,
      servers |-> "s1" :> s @@ "s2" :> o] : h \in Headers, s \in Shapes, o \in Others}
=============================================================================
