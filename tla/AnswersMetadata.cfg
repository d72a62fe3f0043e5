SPECIFICATION Spec
CONSTANTS
    Rows = {"menu", "list"}
    Entries = {"article"}
    Versions <- Said
    Extra <- BlockList
    Letters <- Lettered
    StopWords = {"of"}
    TestWords = {"ann", "lee", "mary", "of"}
    Window = 3
    Overlap = 1
    TopK = 2
    MaxHoldings = 1
    Personas = {"sinclair", "ming"}
    HomeScenes <- AtHome
    Scenes = {"bridge", "deck"}
    Voices <- Polly
    Drafts <- Written
    MaxLength = 3
    Distances = {1, 2}
    MaxEdits = 1
INVARIANT DonorsAppearNowhere
