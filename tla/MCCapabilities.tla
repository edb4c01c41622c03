--------------------------- MODULE MCCapabilities ---------------------------
(***************************************************************************)
(* Two kinds of GPU, the memory clock capability, and files with several   *)
(* orders of entries for it: by product, by PCI id, by both, and for a     *)
(* second product.                                                         *)
(***************************************************************************)
EXTENDS Capabilities

Gpu(product, pci) == [product |-> product, pci |-> pci]
MCGpus == {Gpu("gb10", "2e12"), Gpu("h100", "2330")}

Entry(product, pci, key, policy) ==
  [product |-> product, pci |-> pci, key |-> key, policy |-> policy]
ByProduct == Entry("gb10", Any, "memory", "disabled")
ByPci == Entry(Any, "2e12", "memory", "auto")
ByBoth == Entry("gb10", "2e12", "memory", "enabled")
Other == Entry("h100", Any, "memory", "disabled")

Valid(es) == [valid |-> TRUE, entries |-> es]
MCDirectories ==
  {Valid(<<>>), [valid |-> FALSE, entries |-> <<>>]}
  \union {Valid(<<e>>) : e \in {ByProduct, Other}}
  \union {Valid(<<e, ByBoth, f>>) : e \in {ByProduct, ByPci}, f \in {ByPci, Other}}
  \union {Valid(<<ByProduct, ByPci, ByBoth>>)}
=============================================================================
