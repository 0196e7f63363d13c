-------------------------- MODULE MCPersistLibrary --------------------------
(* Small instances of PersistLibrary. *)
EXTENDS PersistLibrary

\* Two prompts, one extending the other.
PromptPair == {<<1>>, <<1, 2>>}
\* Three prompts: a chain and a branch of it.
PromptTree == {<<1>>, <<1, 2>>, <<1, 3>>}

Server(fp, drafters, drafting) ==
    [fp |-> fp, drafters |-> drafters, drafting |-> drafting,
     stateful |-> drafting # {}, park |-> FALSE]

\* One server without routing and without a draft context.
Mono == {Server("f1", {"none"}, {})}
\* One MTP server: a draft context and a stateful speculative blob.
Mtp == {Server("f1", {"mtp"}, {"mtp"})}
\* The directory of an MTP server, used at times by a dual-drafter server.
MtpOrDual == Mtp \cup {Server("f2", {"mtp", "dflash"}, {"mtp", "dflash"})}
\* Those two, or the park of an MTP server.
MtpDualOrPark == MtpOrDual \cup {[c EXCEPT !.park = TRUE] : c \in Mtp}
=============================================================================
