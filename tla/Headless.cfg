SPECIFICATION Spec
CONSTANTS
    Paths = {"a", "b"}
    Contents <- MCContents
    Snippets <- MCSnippets
    MaxEditLen = 3
    RawArgs <- MCRawArgs
    ValidArgs <- MCValidArgs
    ToolNames = {"read_file", "list_dir", "search", "edit", "write_file", "bash", "task", "skill", "mcp__s__t"}
    McpTools = {"mcp__s__t"}
    PreHooks <- MCPreHooks
    PostHooks <- MCPostHooks
    Committed <- MCHead
    Trees <- MCTrees
    ToolLists <- MCToolLists
    AllowLists <- MCAllowLists
    MaxCalls = 2
    Cases <- MCCases
    ConfigLists <- MCConfigLists
    KnownConfigs = {"economy", "benchmark"}
    Repeats = {0, 2}
    Caps = {0, 3}
    MaxSteps = 1
INVARIANTS
    OnlyExitTwoBlocks
    EditReplacesTheOne
    ErrorsAreSeen
    PostureHolds
    TableIsTheGrid
CHECK_DEADLOCK FALSE
