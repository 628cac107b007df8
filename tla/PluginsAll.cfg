SPECIFICATION Spec
CONSTANTS
  Plugin = {1, 2, 3}
  Bundled = {1}
  Graphs <- MCGraphs
  Default <- MCDefault
  Process = {c1, c2}
  Thread = {t1, t2}
  Service = {"run", "log", "old"}
  Module = {"handlers", "more"}
  Owner <- MCOwner
  ModuleOf <- MCModuleOf
  Lacking = {"old"}
  Asked <- MCAsked
  MaxCommands = 4
  None = None
  PluginManifest <- MCPluginManifest
  CommandDecl <- MCCommandDecl
  ArgumentDecl <- MCArgumentDecl
  Template <- MCTemplate
  Registries <- MCRegistries
  Templates <- MCTemplates
  Core = {"server"}
  Scans <- MCScans
  Listings <- MCListings
SYMMETRY Symmetric
INVARIANTS TogglesKept LoadOrder EachServiceOnce  ArgumentsWin
CHECK_DEADLOCK FALSE
