CONSTANTS
    Letters <- MCLetters
    MaxName = 2
    MaxRoutes = 1
    MaxDests = 2
    MaxPods = 3
SPECIFICATION Spec
\* One evaluation per store content: nothing is left to render after it.
CHECK_DEADLOCK FALSE
INVARIANT
    ListedRoutesServeComponent
