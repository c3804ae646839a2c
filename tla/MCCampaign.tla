----------------------------- MODULE MCCampaign -----------------------------
(* An instance of Campaign for TLC: the command lines it considers.        *)
EXTENDS Campaign

MCNumeral ==
  [w \in {"-1", "0", "1", "2", "3", "64", "66", "126", "huge"} |->
     CASE w = "-1" -> -1  [] w = "0" -> 0    [] w = "1" -> 1
       [] w = "2" -> 2    [] w = "3" -> 3    [] w = "64" -> 64
       [] w = "66" -> 66  [] w = "126" -> 126 [] w = "huge" -> -1]

MCLetters ==
  [w \in {"rwe", "we", "ei", "r", "rex"} |->
     CASE w = "rwe" -> {"r", "w", "e"} [] w = "we" -> {"w", "e"}
       [] w = "ei" -> {"e", "i"}       [] w = "r" -> {"r"}
       [] w = "rex" -> {"r", "e", "x"}]

MCLastBit == [r \in {"rax"} |-> 63]

MCImports ==
  [w \in {"good", "signaled", "missing", "badType"} |->
     [filesExist |-> w # "missing",
      Type |-> CASE w = "signaled" -> "Signaled" [] w = "badType" -> "bad"
                 [] OTHER -> "Exited"]]

Bin == <<"-bin", "prog">>

(* What steers main(): how long a run takes, and what it is compared with. *)
Timings ==
  {<<>>, <<"-bin-exec-time", "1">>, <<"-disable-timing-run">>,
   <<"-disable-timing-run", "-bin-exec-time", "1">>}
  \cup {<<"-set-orig-exit-state", s>> \o t :
          s \in {"good", "badType"},
          t \in {<<>>, <<"-bin-exec-time", "1">>, <<"-disable-timing-run">>}}

Sizes == {<<"-test-runs", "0">>, <<"-test-runs", "2", "-j", "2">>}

(* One option more, or two. *)
Extras ==
  {<<"-no-cleanup">>, <<"-no-redirect">>, <<"-detection-exit-code", "66">>,
   <<"-detection-exit-code", "-1", "-out-csv", "f">>,
   <<"-out-csv", "f", "-out-moufoplot", "dir">>, <<"-v", "0">>,
   <<"-injections-per-run", "0">>}

Settings ==
  {<<"-test-runs", "2", "-j", "0">>, <<"-test-runs", "2", "-j", "-1">>,
   <<"-test-runs", "1", "-j", "1", "-j", "66">>,
   <<"-test-runs", "-1", "-j", "2">>, <<"-test-runs", "huge", "-no-redirect">>,
   <<"-disable-timing-run", "-set-orig-exit-state", "good", "-no-cleanup",
     "-bin-exec-time", "1">>,
   <<"-bin-exec-time", "1", "-no-cleanup", "-set-orig-exit-state", "signaled">>}

(* Command lines that are refused, or whose order or repetition matters. *)
Lines ==
  {<<>>, <<"-help">>, <<"-version", "-bin", "none">>, <<"-bin">>,
   <<"-bin", "none">>, <<"-bogus">>, <<"-help", "bogus">>,
   <<"-bin", "-help">>, <<"-j", "many", "-bin", "prog">>}
  \cup {Bin \o o : o \in
    {<<"-inject-to", "we">>, <<"-inject-to", "ei">>, <<"-inject-to", "r">>,
     <<"-inject-to", "rex">>, <<"-inject-to", "ei", "-inject-to", "we">>,
     <<"-inject-to", "rwe", "-force-inject-to-reg", "rax">>,
     <<"-force-inject-to-reg", "rax", "-force-inject-to-bit", "3">>,
     <<"-force-inject-to-bit", "64", "-force-inject-to-reg", "rax">>,
     <<"-force-inject-to-bit", "64", "-force-inject-to-reg", "xyz">>,
     <<"-force-inject-to-bit", "huge", "-force-inject-to-reg", "rax">>,
     <<"-force-inject-to-bit", "huge", "-set-orig-exit-state", "good">>,
     <<"-force-inject-to-bit", "-1">>, <<"-force-inject-to-bit", "help">>,
     <<"-force-inject-to-reg", "help">>, <<"-test-runs">>,
     <<"-injections-per-run", "2">>, <<"-injections-per-run", "-1">>,
     <<"-detection-exit-code", "126">>, <<"-out-moufoplot", "none">>,
     <<"-set-orig-exit-state", "garbled">>,
     <<"-set-orig-exit-state", "missing">>,
     <<"-test-runs", "huge", "-set-orig-exit-state", "good">>,
     <<"-args", "-bogus">>}}

MCArgvs ==
  Lines \cup {Bin \o t \o s : t \in Timings, s \in Sizes}
  \cup {Bin \o <<"-test-runs", "2", "-j", "2">> \o e : e \in Extras}
  \cup {Bin \o s : s \in Settings}

MCFiles == {"prog", "dir", "-help"}
=============================================================================
