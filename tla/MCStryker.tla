------------------------------ MODULE MCStryker ------------------------------
EXTENDS Stryker

MCFiles == {"a.js", "b.js"}
MCMutants == {"m1", "m2"}
MCMutantFile == [m1 |-> "a.js", m2 |-> "b.js"]
MCMutatorName == [m1 |-> "Block", m2 |-> "Block"]
MCVerdicts == [m \in MCMutants |-> IF m = "m1" THEN {"Killed", "Survived", "NoCoverage", "TranspileError"}
                                               ELSE {"TimedOut", "Survived", "NoCoverage"}]
MCTestTime == [t1 |-> 2, t2 |-> 1]
MCNoBreak == 1000

Option(values, default) == [values |-> values, default |-> default]
MCCoreSchema ==
  ("coverageAnalysis" :> Option({"off", "perTest"}, "off")) @@
  ("transpilers" :> Option({<< >>, <<"ts">>, <<"ts", "webpack">>}, << >>)) @@
  ("reporters" :> Option({<<"progress">>, <<"dots">>, <<"dots", "progress">>, <<"progress", "dots">>,
                          <<"progress", "html", "dashboard">>, <<"event-recorder", "plugin">>}, <<"dots", "progress">>)) @@
  ("plugins" :> Option({<<"*">>, <<"typescript">>, <<"typescript", "absent">>}, <<"*">>)) @@
  ("excludedMutations" :> Option({<< >>, <<"Block">>}, << >>)) @@
  ("thresholds.high" :> Option(0..100, 80)) @@
  ("thresholds.low" :> Option(0..100, 60)) @@
  ("thresholds.break" :> Option(0..100 \cup {MCNoBreak}, MCNoBreak))
MCPluginSchemas == [typescript |-> [tsconfigFile |-> Option({"tsconfig.json"}, "tsconfig.json")],
                    mocha |-> << >>]
MCListOptions == {"transpilers", "reporters", "plugins", "excludedMutations"}

Include(fs) == [ignore |-> FALSE, files |-> fs]
Ignore(fs) == [ignore |-> TRUE, files |-> fs]

\* Users whose run is followed to its end: a configuration that is accepted, and reporters that have work to do.
Plain == [cli |-> << >>, named |-> FALSE, file |-> "object", editorThrows |-> FALSE, edits |-> << >>,
          contents |-> [reporters |-> <<"progress", "html", "dashboard">>],
          packages |-> {"core", "api", "typescript", "mocha"}, isTTY |-> FALSE,
          reporterPlugins |-> {"progress", "event-recorder", "html", "dashboard", "plugin"},
          patterns |-> [git |-> TRUE, files |-> << >>, mutate |-> <<Include(MCFiles)>>]]
WithRecorder == [Plain EXCEPT !.contents = [reporters |-> <<"event-recorder", "plugin">>]]
WithBreak == [Plain EXCEPT !.contents = ("reporters" :> <<"progress">>) @@ ("thresholds.break" :> 50)]
WithTranspiler == [WithBreak EXCEPT !.cli = [transpilers |-> <<"ts">>], !.isTTY = TRUE]

\* Users who are only followed as far as their configuration, or their patterns, make a difference: no reporter is
\* there for what they ask.
NoReporter == [Plain EXCEPT !.reporterPlugins = {}]
Configured ==
  {[NoReporter EXCEPT !.file = file, !.named = named, !.contents = contents, !.cli = cli, !.edits = edits,
                      !.editorThrows = throws] :
     file \in {"object", "function"}, named \in BOOLEAN, throws \in {FALSE},
     contents \in {<< >>, [transpilers |-> <<"ts", "webpack">>], [coverageAnalysis |-> "perTest"],
                   [coverageAnalysis |-> "sometimes"], [reporters |-> <<"progress", "dots">>, plugins |-> <<"typescript">>],
                   ("thresholds.high" :> 50), ("thresholds.break" :> 70) @@ [plugins |-> <<"typescript", "absent">>]},
     cli \in {<< >>, [transpilers |-> <<"ts">>], [coverageAnalysis |-> "off"], [reporters |-> <<"dots">>],
              ("thresholds.low" :> 40)},
     edits \in {<< >>, [coverageAnalysis |-> "perTest"]}}
Misconfigured ==
  {[NoReporter EXCEPT !.file = file, !.named = named, !.editorThrows = throws, !.contents = << >>] :
     file \in {"absent", "throws", "noObject"}, named \in BOOLEAN, throws \in BOOLEAN}
Selecting ==
  {[WithBreak EXCEPT !.patterns = [git |-> fs = << >>, files |-> fs, mutate |-> <<p, q>>],
                     !.contents = [reporters |-> <<"dots">>],
                     !.reporterPlugins = {"dots"}] :
     fs \in {<< >>, <<Include(MCFiles), Ignore({"b.js"}), Include({"b.js"})>>, <<Include({"a.js"}), Ignore(MCFiles)>>},
     p \in {Include(MCFiles), Include({"a.js"}), Ignore(MCFiles)},
     q \in {Include({"b.js"}), Ignore({"b.js"}), Ignore(MCFiles)}}

MCGivens == {Plain, WithRecorder, WithBreak, WithTranspiler} \cup Configured \cup Misconfigured \cup Selecting
=============================================================================
