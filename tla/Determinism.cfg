SPECIFICATION Spec
CONSTANTS
    Packages <- MCPackages
    Path <- MCPath
    Module <- MCModule
    Hosts = {"host"}
    ModulePrefix <- MCModulePrefix
    Functions <- MCFunctions
    Home <- MCHome
    Name <- MCName
    Exported <- MCExported
    Irreproducible <- MCIrreproducible
    Imports <- MCImports
    Registers <- MCRegisters
    Programs <- MCPrograms
    NoPkg = NoPkg
    NoFunction = NoFunction
INVARIANTS FactsExact ReportsExact ChainsArePaths
PROPERTY AnalysisEnds
CHECK_DEADLOCK FALSE
