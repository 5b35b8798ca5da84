----------------------------- MODULE MCDiscovery -----------------------------
(* A vendored directory with one below it, a skipped one, one of artifacts,  *)
(* and one that is a link into the vendored, another repository, or plain.   *)
EXTENDS Discovery, TLC

MCFiles ==
  {"main.js", "a.js", "deep/d.js", "x.js", "app.map", "b.min.js", "alias", "alias/d.js"}
MCDirectories == {"vendor", "vendor/deep", "node_modules", "dist", "alias"}
MCHome ==
  ("main.js" :> Root) @@ ("alias" :> Root) @@ ("alias/d.js" :> "alias")
  @@ ("a.js" :> "vendor") @@ ("deep/d.js" :> "vendor/deep")
  @@ ("x.js" :> "node_modules") @@ ("app.map" :> "dist") @@ ("b.min.js" :> "dist")
MCAbove ==
  [f \in MCFiles |-> ({MCHome[f]} \ {Root}) \cup (IF f = "deep/d.js" THEN {"vendor"} ELSE {})]
MCMounts == {"alias"}
MCBehind == [f \in MCFiles |-> IF f = "alias/d.js" THEN "deep/d.js" ELSE f]
MCSkipped == {"node_modules"}
MCGenerated == {"vendor", "vendor/deep"}
MCArtifacts == {"app.map", "b.min.js"}
MCParsed == MCFiles \ {"app.map"}
MCTrees == {MCFiles, MCFiles \ {"deep/d.js", "b.min.js"}}
==============================================================================
