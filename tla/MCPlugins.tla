------------------------------ MODULE MCPlugins ------------------------------
EXTENDS Plugins

MCRunnerPlugins == {"karma", "mocha", "jest", "jasmine", "wct"}
MCTranspilerTools == {"typescript", "typescriptOutFile", "babel", "webpack"}

MCOptionTools == {"mocha", "mocha5", "jest", "createReactApp", "karma", "babel", "webpack", "typescript"}

MCRunnersOf == [mocha |-> {"mocha", "karma"}, jasmine |-> {"jasmine", "karma"}]
MCTranspilerOptions == <<"babel", "webpack", "typescript">>
CoverageOff == [coverageAnalysis |-> "off"]
MCInitStrykerConfig ==
  [babel |-> CoverageOff, webpack |-> CoverageOff, wct |-> CoverageOff, jest |-> CoverageOff,
   other |-> [coverageAnalysis |-> "all"]]
MCReporterOptions == <<"other">>
=============================================================================
