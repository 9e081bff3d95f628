---------------------------- MODULE X11Functions ----------------------------
(***************************************************************************)
(* The functions of module X11: those that source/xew_x11.c wraps, by the  *)
(* header that declares them, and those that its fetchPointersFromLibrary  *)
(* looks up, by the library it looks in.  The two lists are generated      *)
(* separately and are translated separately; nothing here says they agree. *)
(* Each header is cut into parts at functions where the subject changes.   *)
(***************************************************************************)
EXTENDS Integers, Sequences

(* Xlib.h *)

XlibImagesWrapped ==
  <<"_Xmblen", "XLoadQueryFont", "XQueryFont", "XGetMotionEvents",
    "XDeleteModifiermapEntry", "XGetModifierMapping", "XInsertModifiermapEntry",
    "XNewModifiermap", "XCreateImage", "XInitImage", "XGetImage", "XGetSubImage",
    "XOpenDisplay", "XrmInitialize">>

XlibNamesWrapped ==
  <<"XFetchBytes", "XFetchBuffer", "XGetAtomName", "XGetAtomNames", "XGetDefault",
    "XDisplayName", "XKeysymToString", "XSynchronize", "XInternAtom", "XInternAtoms",
    "XCopyColormapAndFree", "XCreateColormap">>

XlibResourcesWrapped ==
  <<"XCreatePixmapCursor", "XCreateGlyphCursor", "XCreateFontCursor", "XLoadFont",
    "XCreateGC", "XGContextFromGC", "XFlushGC", "XCreatePixmap", "XCreateBitmapFromData",
    "XCreatePixmapFromBitmapData", "XCreateSimpleWindow", "XGetSelectionOwner",
    "XCreateWindow">>

XlibListsWrapped ==
  <<"XListInstalledColormaps", "XListFonts", "XListFontsWithInfo", "XGetFontPath",
    "XListExtensions", "XListProperties", "XListHosts", "XKeycodeToKeysym",
    "XLookupKeysym", "XGetKeyboardMapping", "XStringToKeysym", "XMaxRequestSize",
    "XExtendedMaxRequestSize", "XResourceManagerString", "XScreenResourceString",
    "XDisplayMotionBufferSize", "XVisualIDFromVisual", "XInitThreads", "XLockDisplay",
    "XUnlockDisplay", "XInitExtension", "XAddExtension", "XFindOnExtensionList",
    "XEHeadOfExtensionList">>

XlibScreensWrapped ==
  <<"XRootWindow", "XDefaultRootWindow", "XRootWindowOfScreen", "XDefaultVisual",
    "XDefaultVisualOfScreen", "XDefaultGC", "XDefaultGCOfScreen", "XBlackPixel",
    "XWhitePixel", "XAllPlanes", "XBlackPixelOfScreen", "XWhitePixelOfScreen",
    "XNextRequest", "XLastKnownRequestProcessed", "XServerVendor", "XDisplayString",
    "XDefaultColormap", "XDefaultColormapOfScreen", "XDisplayOfScreen",
    "XScreenOfDisplay", "XDefaultScreenOfDisplay", "XEventMaskOfScreen",
    "XScreenNumberOfScreen", "XSetErrorHandler", "XSetIOErrorHandler",
    "XListPixmapFormats", "XListDepths">>

XlibManagersWrapped ==
  <<"XReconfigureWMWindow", "XGetWMProtocols", "XSetWMProtocols", "XIconifyWindow",
    "XWithdrawWindow", "XGetCommand", "XGetWMColormapWindows", "XSetWMColormapWindows",
    "XFreeStringList", "XSetTransientForHint", "XActivateScreenSaver", "XAddHost",
    "XAddHosts", "XAddToExtensionList", "XAddToSaveSet", "XAllocColor",
    "XAllocColorCells", "XAllocColorPlanes", "XAllocNamedColor", "XAllowEvents",
    "XAutoRepeatOff", "XAutoRepeatOn">>

XlibChangesWrapped ==
  <<"XBell", "XBitmapBitOrder", "XBitmapPad", "XBitmapUnit", "XCellsOfScreen",
    "XChangeActivePointerGrab", "XChangeGC", "XChangeKeyboardControl",
    "XChangeKeyboardMapping", "XChangePointerControl", "XChangeProperty",
    "XChangeSaveSet", "XChangeWindowAttributes", "XCheckIfEvent", "XCheckMaskEvent",
    "XCheckTypedEvent", "XCheckTypedWindowEvent", "XCheckWindowEvent">>

XlibAreasWrapped ==
  <<"XCirculateSubwindows", "XCirculateSubwindowsDown", "XCirculateSubwindowsUp",
    "XClearArea", "XClearWindow", "XCloseDisplay", "XConfigureWindow",
    "XConnectionNumber", "XConvertSelection", "XCopyArea", "XCopyGC", "XCopyPlane",
    "XDefaultDepth", "XDefaultDepthOfScreen", "XDefaultScreen", "XDefineCursor",
    "XDeleteProperty">>

XlibDrawingWrapped ==
  <<"XDestroyWindow", "XDestroySubwindows", "XDoesBackingStore", "XDoesSaveUnders",
    "XDisableAccessControl", "XDisplayCells", "XDisplayHeight", "XDisplayHeightMM",
    "XDisplayKeycodes", "XDisplayPlanes", "XDisplayWidth", "XDisplayWidthMM", "XDrawArc",
    "XDrawArcs", "XDrawImageString", "XDrawImageString16", "XDrawLine", "XDrawLines",
    "XDrawPoint", "XDrawPoints", "XDrawRectangle", "XDrawRectangles", "XDrawSegments",
    "XDrawString", "XDrawString16", "XDrawText", "XDrawText16", "XEnableAccessControl",
    "XEventsQueued", "XFetchName">>

XlibFreesWrapped ==
  <<"XFillArc", "XFillArcs", "XFillPolygon", "XFillRectangle", "XFillRectangles",
    "XFlush", "XForceScreenSaver", "XFree", "XFreeColormap", "XFreeColors", "XFreeCursor",
    "XFreeExtensionList", "XFreeFont", "XFreeFontInfo", "XFreeFontNames", "XFreeFontPath",
    "XFreeGC", "XFreeModifiermap", "XFreePixmap", "XGeometry">>

XlibQueriesWrapped ==
  <<"XGetErrorDatabaseText", "XGetErrorText", "XGetFontProperty", "XGetGCValues",
    "XGetGeometry", "XGetIconName", "XGetInputFocus", "XGetKeyboardControl",
    "XGetPointerControl", "XGetPointerMapping", "XGetScreenSaver", "XGetTransientForHint",
    "XGetWindowProperty", "XGetWindowAttributes", "XGrabButton", "XGrabKey",
    "XGrabKeyboard", "XGrabPointer">>

XlibEventsWrapped ==
  <<"XGrabServer", "XHeightMMOfScreen", "XHeightOfScreen", "XIfEvent", "XImageByteOrder",
    "XInstallColormap", "XKeysymToKeycode", "XKillClient", "XLookupColor", "XLowerWindow",
    "XMapRaised", "XMapSubwindows", "XMapWindow", "XMaskEvent", "XMaxCmapsOfScreen",
    "XMinCmapsOfScreen", "XMoveResizeWindow", "XMoveWindow", "XNextEvent", "XNoOp",
    "XParseColor", "XParseGeometry", "XPeekEvent", "XPeekIfEvent", "XPending",
    "XPlanesOfScreen", "XProtocolRevision", "XProtocolVersion">>

XlibPointersWrapped ==
  <<"XPutBackEvent", "XPutImage", "XQLength", "XQueryBestCursor", "XQueryBestSize",
    "XQueryBestStipple", "XQueryBestTile", "XQueryColor", "XQueryColors",
    "XQueryExtension", "XQueryKeymap", "XQueryPointer", "XQueryTextExtents",
    "XQueryTextExtents16", "XQueryTree", "XRaiseWindow">>

XlibBitmapsWrapped ==
  <<"XReadBitmapFile", "XReadBitmapFileData", "XRebindKeysym", "XRecolorCursor",
    "XRefreshKeyboardMapping", "XRemoveFromSaveSet", "XRemoveHost", "XRemoveHosts",
    "XReparentWindow", "XResetScreenSaver", "XResizeWindow", "XRestackWindows",
    "XRotateBuffers", "XRotateWindowProperties", "XScreenCount", "XSelectInput",
    "XSendEvent", "XSetAccessControl", "XSetArcMode", "XSetBackground", "XSetClipMask">>

XlibSettingsWrapped ==
  <<"XSetClipOrigin", "XSetClipRectangles", "XSetCloseDownMode", "XSetCommand",
    "XSetDashes", "XSetFillRule", "XSetFillStyle", "XSetFont", "XSetFontPath",
    "XSetForeground", "XSetFunction", "XSetGraphicsExposures", "XSetIconName",
    "XSetInputFocus", "XSetLineAttributes", "XSetModifierMapping", "XSetPlaneMask",
    "XSetPointerMapping", "XSetScreenSaver", "XSetSelectionOwner", "XSetState">>

XlibStoresWrapped ==
  <<"XSetStipple", "XSetSubwindowMode", "XSetTSOrigin", "XSetTile",
    "XSetWindowBackground", "XSetWindowBackgroundPixmap", "XSetWindowBorder",
    "XSetWindowBorderPixmap", "XSetWindowBorderWidth", "XSetWindowColormap",
    "XStoreBuffer", "XStoreBytes", "XStoreColor", "XStoreColors", "XStoreName",
    "XStoreNamedColor", "XSync", "XTextExtents", "XTextExtents16", "XTextWidth",
    "XTextWidth16", "XTranslateCoordinates">>

XlibUngrabsWrapped ==
  <<"XUndefineCursor", "XUngrabButton", "XUngrabKey", "XUngrabKeyboard", "XUngrabPointer",
    "XUngrabServer", "XUninstallColormap", "XUnloadFont", "XUnmapSubwindows",
    "XUnmapWindow", "XVendorRelease", "XWarpPointer", "XWidthMMOfScreen",
    "XWidthOfScreen", "XWindowEvent", "XWriteBitmapFile", "XSupportsLocale",
    "XSetLocaleModifiers", "XOpenOM", "XCloseOM", "XDisplayOfOM", "XLocaleOfOM",
    "XDestroyOC", "XOMOfOC">>

XlibFontSetsWrapped ==
  <<"XCreateFontSet", "XFreeFontSet", "XFontsOfFontSet", "XBaseFontNameListOfFontSet",
    "XLocaleOfFontSet", "XContextDependentDrawing", "XDirectionalDependentDrawing",
    "XContextualDrawing", "XExtentsOfFontSet", "XmbTextEscapement", "XwcTextEscapement",
    "Xutf8TextEscapement", "XmbTextExtents", "XwcTextExtents", "Xutf8TextExtents",
    "XmbTextPerCharExtents", "XwcTextPerCharExtents", "Xutf8TextPerCharExtents">>

XlibTextsWrapped ==
  <<"XmbDrawText", "XwcDrawText", "Xutf8DrawText", "XmbDrawString", "XwcDrawString",
    "Xutf8DrawString", "XmbDrawImageString", "XwcDrawImageString",
    "Xutf8DrawImageString">>

XlibInputMethodsWrapped ==
  <<"XOpenIM", "XCloseIM", "XDisplayOfIM", "XLocaleOfIM", "XDestroyIC", "XSetICFocus",
    "XUnsetICFocus", "XwcResetIC", "XmbResetIC", "Xutf8ResetIC", "XIMOfIC",
    "XFilterEvent", "XmbLookupString", "XwcLookupString", "Xutf8LookupString",
    "XRegisterIMInstantiateCallback", "XUnregisterIMInstantiateCallback",
    "XInternalConnectionNumbers", "XProcessInternalConnection", "XAddConnectionWatch",
    "XRemoveConnectionWatch", "XSetAuthorization", "_Xmbtowc", "_Xwctomb",
    "XGetEventData", "XFreeEventData">>

(* Xlib-xcb.h *)

XlibXcbWrapped == <<"XGetXCBConnection", "XSetEventQueueOwner">>

(* Xlibint.h *)

XlibintRequestsWrapped ==
  <<"_XGetRequest", "_XFlushGCCache", "_XData32", "_XRead32", "_XDeqAsyncHandler", "Data",
    "_XError", "_XIOError", "_XEatData", "_XEatDataWords", "_XAllocScratch",
    "_XAllocTemp", "_XFreeTemp", "_XVIDtoVisual", "_XSetLastRequestRead", "_XGetHostname",
    "_XScreenOfWindow", "_XAsyncErrorHandler", "_XGetAsyncReply", "_XGetAsyncData",
    "_XFlush", "_XEventsQueued", "_XReadEvents", "_XRead", "_XReadPad", "_XSend",
    "_XReply", "_XEnq", "_XDeq", "_XUnknownWireEvent">>

XlibintHooksWrapped ==
  <<"_XUnknownWireEventCookie", "_XUnknownCopyEventCookie", "_XUnknownNativeEvent",
    "_XWireToEvent", "_XDefaultWireError", "_XPollfdCacheInit", "_XPollfdCacheAdd",
    "_XPollfdCacheDel", "_XAllocID", "_XAllocIDs", "_XFreeExtData", "XESetCreateGC",
    "XESetCopyGC", "XESetFlushGC", "XESetFreeGC", "XESetCreateFont", "XESetFreeFont",
    "XESetCloseDisplay", "XESetError", "XESetErrorString", "XESetPrintErrorValues",
    "XESetWireToEvent", "XESetWireToEventCookie", "XESetCopyEventCookie",
    "XESetEventToWire", "XESetWireToError">>

XlibintPlatformWrapped ==
  <<"XESetBeforeFlush", "_XRegisterInternalConnection", "_XUnregisterInternalConnection",
    "_XProcessInternalConnection", "__XOS2RedirRoot", "_XTextHeight", "_XTextHeight16",
    "_XOpenFile", "_XOpenFileMode", "_XFopenFile", "_XAccessFile", "_XEventToWire",
    "_XF86LoadQueryLocaleFont", "_XProcessWindowAttributes", "_XDefaultError",
    "_XDefaultIOError", "_XSetClipRectangles", "_XGetWindowAttributes", "_XPutBackEvent",
    "_XIsEventCookie", "_XFreeEventCookies", "_XStoreEventCookie", "_XFetchEventCookie",
    "_XCopyEventCookie", "xlocaledir">>

(* XKBlib.h *)

XkblibKeysWrapped ==
  <<"XkbIgnoreExtension", "XkbOpenDisplay", "XkbQueryExtension", "XkbUseExtension",
    "XkbLibraryVersion", "XkbSetXlibControls", "XkbGetXlibControls",
    "XkbXlibControlsImplemented", "XkbSetAtomFuncs", "XkbKeycodeToKeysym",
    "XkbKeysymToModifiers", "XkbLookupKeySym", "XkbLookupKeyBinding",
    "XkbTranslateKeyCode", "XkbTranslateKeySym", "XkbSetAutoRepeatRate",
    "XkbGetAutoRepeatRate", "XkbChangeEnabledControls", "XkbDeviceBell",
    "XkbForceDeviceBell", "XkbDeviceBellEvent", "XkbBell", "XkbForceBell",
    "XkbBellEvent">>

XkblibIndicatorsWrapped ==
  <<"XkbSelectEvents", "XkbSelectEventDetails", "XkbNoteMapChanges", "XkbNoteNameChanges",
    "XkbGetIndicatorState", "XkbGetDeviceIndicatorState", "XkbGetIndicatorMap",
    "XkbSetIndicatorMap", "XkbGetNamedIndicator", "XkbGetNamedDeviceIndicator",
    "XkbSetNamedIndicator", "XkbSetNamedDeviceIndicator", "XkbLockModifiers",
    "XkbLatchModifiers", "XkbLockGroup", "XkbLatchGroup", "XkbSetServerInternalMods",
    "XkbSetIgnoreLockMods", "XkbVirtualModsToReal", "XkbComputeEffectiveMap">>

XkblibMapsWrapped ==
  <<"XkbInitCanonicalKeyTypes", "XkbAllocKeyboard", "XkbFreeKeyboard",
    "XkbAllocClientMap", "XkbAllocServerMap", "XkbFreeClientMap", "XkbFreeServerMap",
    "XkbAddKeyType", "XkbAllocIndicatorMaps", "XkbFreeIndicatorMaps", "XkbGetMap",
    "XkbGetUpdatedMap", "XkbGetMapChanges", "XkbRefreshKeyboardMapping", "XkbGetKeyTypes",
    "XkbGetKeySyms", "XkbGetKeyActions", "XkbGetKeyBehaviors", "XkbGetVirtualMods",
    "XkbGetKeyExplicitComponents", "XkbGetKeyModifierMap", "XkbGetKeyVirtualModMap",
    "XkbAllocControls", "XkbFreeControls", "XkbGetControls", "XkbSetControls",
    "XkbNoteControlsChanges">>

XkblibNamesWrapped ==
  <<"XkbAllocCompatMap", "XkbFreeCompatMap", "XkbGetCompatMap", "XkbSetCompatMap",
    "XkbAddSymInterpret", "XkbAllocNames", "XkbGetNames", "XkbSetNames", "XkbChangeNames",
    "XkbFreeNames", "XkbGetState", "XkbSetMap", "XkbChangeMap",
    "XkbSetDetectableAutoRepeat", "XkbGetDetectableAutoRepeat", "XkbSetAutoResetControls",
    "XkbGetAutoResetControls", "XkbSetPerClientControls", "XkbGetPerClientControls",
    "XkbCopyKeyType", "XkbCopyKeyTypes", "XkbResizeKeyType", "XkbResizeKeySyms",
    "XkbResizeKeyActions", "XkbChangeTypesOfKey", "XkbChangeKeycodeRange",
    "XkbListComponents", "XkbFreeComponentList", "XkbGetKeyboard",
    "XkbGetKeyboardByName">>

XkblibDevicesWrapped ==
  <<"XkbKeyTypesForCoreSymbols", "XkbApplyCompatMapToKey", "XkbUpdateMapFromCore",
    "XkbAddDeviceLedInfo", "XkbResizeDeviceButtonActions", "XkbAllocDeviceInfo",
    "XkbFreeDeviceInfo", "XkbNoteDeviceChanges", "XkbGetDeviceInfo",
    "XkbGetDeviceInfoChanges", "XkbGetDeviceButtonActions", "XkbGetDeviceLedInfo",
    "XkbSetDeviceInfo", "XkbChangeDeviceInfo", "XkbSetDeviceLedInfo",
    "XkbSetDeviceButtonActions", "XkbToControl", "XkbSetDebuggingFlags",
    "XkbApplyVirtualModChanges", "XkbUpdateActionVirtualMods",
    "XkbUpdateKeyTypeVirtualMods">>

(* Xutil.h *)

XutilHintsWrapped ==
  <<"XDestroyImage", "XGetPixel", "XPutPixel", "XSubImage", "XAddPixel",
    "XAllocClassHint", "XAllocIconSize", "XAllocSizeHints", "XAllocStandardColormap",
    "XAllocWMHints", "XClipBox", "XCreateRegion", "XDefaultString", "XDeleteContext",
    "XDestroyRegion", "XEmptyRegion", "XEqualRegion", "XFindContext", "XGetClassHint",
    "XGetIconSizes", "XGetNormalHints", "XGetRGBColormaps", "XGetSizeHints",
    "XGetStandardColormap", "XGetTextProperty", "XGetVisualInfo", "XGetWMClientMachine",
    "XGetWMHints", "XGetWMIconName", "XGetWMName", "XGetWMNormalHints", "XGetWMSizeHints",
    "XGetZoomHints">>

XutilRegionsWrapped ==
  <<"XIntersectRegion", "XConvertCase", "XLookupString", "XMatchVisualInfo",
    "XOffsetRegion", "XPointInRegion", "XPolygonRegion", "XRectInRegion", "XSaveContext",
    "XSetClassHint", "XSetIconSizes", "XSetNormalHints", "XSetRGBColormaps",
    "XSetSizeHints", "XSetStandardProperties", "XSetTextProperty", "XSetWMClientMachine",
    "XSetWMHints", "XSetWMIconName", "XSetWMName", "XSetWMNormalHints",
    "XSetWMProperties", "XmbSetWMProperties", "Xutf8SetWMProperties", "XSetWMSizeHints">>

XutilPropertiesWrapped ==
  <<"XSetRegion", "XSetStandardColormap", "XSetZoomHints", "XShrinkRegion",
    "XStringListToTextProperty", "XSubtractRegion", "XmbTextListToTextProperty",
    "XwcTextListToTextProperty", "Xutf8TextListToTextProperty", "XwcFreeStringList",
    "XTextPropertyToStringList", "XmbTextPropertyToTextList", "XwcTextPropertyToTextList",
    "Xutf8TextPropertyToTextList", "XUnionRectWithRegion", "XUnionRegion", "XWMGeometry",
    "XXorRegion">>

(* Xcursor.h *)

XcursorFilesWrapped ==
  <<"XcursorImageCreate", "XcursorImageDestroy", "XcursorImagesCreate",
    "XcursorImagesDestroy", "XcursorImagesSetName", "XcursorCursorsCreate",
    "XcursorCursorsDestroy", "XcursorAnimateCreate", "XcursorAnimateDestroy",
    "XcursorAnimateNext", "XcursorCommentCreate", "XcursorCommentDestroy",
    "XcursorCommentsCreate", "XcursorCommentsDestroy", "XcursorXcFileLoadImage",
    "XcursorXcFileLoadImages", "XcursorXcFileLoadAllImages", "XcursorXcFileLoad",
    "XcursorXcFileSave", "XcursorFileLoadImage", "XcursorFileLoadImages",
    "XcursorFileLoadAllImages", "XcursorFileLoad", "XcursorFileSaveImages",
    "XcursorFileSave", "XcursorFilenameLoadImage", "XcursorFilenameLoadImages",
    "XcursorFilenameLoadAllImages", "XcursorFilenameLoad", "XcursorFilenameSaveImages",
    "XcursorFilenameSave", "XcursorLibraryLoadImage", "XcursorLibraryLoadImages",
    "XcursorLibraryPath">>

XcursorCursorsWrapped ==
  <<"XcursorLibraryShape", "XcursorImageLoadCursor", "XcursorImagesLoadCursors",
    "XcursorImagesLoadCursor", "XcursorFilenameLoadCursor", "XcursorFilenameLoadCursors",
    "XcursorLibraryLoadCursor", "XcursorLibraryLoadCursors", "XcursorShapeLoadImage",
    "XcursorShapeLoadImages", "XcursorShapeLoadCursor", "XcursorShapeLoadCursors",
    "XcursorTryShapeCursor", "XcursorNoticeCreateBitmap", "XcursorNoticePutBitmap",
    "XcursorTryShapeBitmapCursor", "XcursorImageHash", "XcursorSupportsARGB",
    "XcursorSupportsAnim", "XcursorSetDefaultSize", "XcursorGetDefaultSize",
    "XcursorSetTheme", "XcursorGetTheme", "XcursorGetThemeCore", "XcursorSetThemeCore">>

(* Xinerama.h *)

XineramaWrapped ==
  <<"XineramaQueryExtension", "XineramaQueryVersion", "XineramaIsActive",
    "XineramaQueryScreens">>

-----------------------------------------------------------------------------
(* Looked up: Xlib.h *)

XlibObjectsFetched ==
  <<"_Xmblen", "XLoadQueryFont", "XQueryFont", "XGetMotionEvents",
    "XDeleteModifiermapEntry", "XGetModifierMapping", "XInsertModifiermapEntry",
    "XNewModifiermap", "XCreateImage", "XInitImage", "XGetImage", "XGetSubImage",
    "XOpenDisplay", "XrmInitialize", "XFetchBytes", "XFetchBuffer", "XGetAtomName",
    "XGetAtomNames", "XGetDefault", "XDisplayName", "XKeysymToString", "XSynchronize",
    "XInternAtom", "XInternAtoms", "XCopyColormapAndFree", "XCreateColormap",
    "XCreatePixmapCursor", "XCreateGlyphCursor", "XCreateFontCursor", "XLoadFont",
    "XCreateGC", "XGContextFromGC", "XFlushGC", "XCreatePixmap", "XCreateBitmapFromData",
    "XCreatePixmapFromBitmapData", "XCreateSimpleWindow", "XGetSelectionOwner",
    "XCreateWindow", "XListInstalledColormaps", "XListFonts", "XListFontsWithInfo",
    "XGetFontPath", "XListExtensions", "XListProperties", "XListHosts",
    "XKeycodeToKeysym", "XLookupKeysym", "XGetKeyboardMapping", "XStringToKeysym",
    "XMaxRequestSize", "XExtendedMaxRequestSize", "XResourceManagerString",
    "XScreenResourceString", "XDisplayMotionBufferSize", "XVisualIDFromVisual",
    "XInitThreads", "XLockDisplay", "XUnlockDisplay", "XInitExtension", "XAddExtension",
    "XFindOnExtensionList", "XEHeadOfExtensionList", "XRootWindow", "XDefaultRootWindow",
    "XRootWindowOfScreen", "XDefaultVisual", "XDefaultVisualOfScreen", "XDefaultGC",
    "XDefaultGCOfScreen", "XBlackPixel", "XWhitePixel", "XAllPlanes",
    "XBlackPixelOfScreen", "XWhitePixelOfScreen", "XNextRequest",
    "XLastKnownRequestProcessed", "XServerVendor", "XDisplayString", "XDefaultColormap",
    "XDefaultColormapOfScreen", "XDisplayOfScreen", "XScreenOfDisplay",
    "XDefaultScreenOfDisplay", "XEventMaskOfScreen", "XScreenNumberOfScreen",
    "XSetErrorHandler", "XSetIOErrorHandler", "XListPixmapFormats", "XListDepths",
    "XReconfigureWMWindow", "XGetWMProtocols", "XSetWMProtocols", "XIconifyWindow",
    "XWithdrawWindow", "XGetCommand", "XGetWMColormapWindows", "XSetWMColormapWindows",
    "XFreeStringList", "XSetTransientForHint", "XActivateScreenSaver">>

XlibWindowsFetched ==
  <<"XAddHost", "XAddHosts", "XAddToExtensionList", "XAddToSaveSet", "XAllocColor",
    "XAllocColorCells", "XAllocColorPlanes", "XAllocNamedColor", "XAllowEvents",
    "XAutoRepeatOff", "XAutoRepeatOn", "XBell", "XBitmapBitOrder", "XBitmapPad",
    "XBitmapUnit", "XCellsOfScreen", "XChangeActivePointerGrab", "XChangeGC",
    "XChangeKeyboardControl", "XChangeKeyboardMapping", "XChangePointerControl",
    "XChangeProperty", "XChangeSaveSet", "XChangeWindowAttributes", "XCheckIfEvent",
    "XCheckMaskEvent", "XCheckTypedEvent", "XCheckTypedWindowEvent", "XCheckWindowEvent",
    "XCirculateSubwindows", "XCirculateSubwindowsDown", "XCirculateSubwindowsUp",
    "XClearArea", "XClearWindow", "XCloseDisplay", "XConfigureWindow",
    "XConnectionNumber", "XConvertSelection", "XCopyArea", "XCopyGC", "XCopyPlane",
    "XDefaultDepth", "XDefaultDepthOfScreen", "XDefaultScreen", "XDefineCursor",
    "XDeleteProperty", "XDestroyWindow", "XDestroySubwindows", "XDoesBackingStore",
    "XDoesSaveUnders", "XDisableAccessControl", "XDisplayCells", "XDisplayHeight",
    "XDisplayHeightMM", "XDisplayKeycodes", "XDisplayPlanes", "XDisplayWidth",
    "XDisplayWidthMM", "XDrawArc", "XDrawArcs", "XDrawImageString", "XDrawImageString16",
    "XDrawLine", "XDrawLines", "XDrawPoint", "XDrawPoints", "XDrawRectangle",
    "XDrawRectangles", "XDrawSegments", "XDrawString", "XDrawString16", "XDrawText",
    "XDrawText16", "XEnableAccessControl", "XEventsQueued", "XFetchName", "XFillArc",
    "XFillArcs", "XFillPolygon", "XFillRectangle", "XFillRectangles", "XFlush",
    "XForceScreenSaver", "XFree", "XFreeColormap", "XFreeColors", "XFreeCursor",
    "XFreeExtensionList", "XFreeFont", "XFreeFontInfo", "XFreeFontNames", "XFreeFontPath",
    "XFreeGC", "XFreeModifiermap", "XFreePixmap">>

XlibQueriesFetched ==
  <<"XGeometry", "XGetErrorDatabaseText", "XGetErrorText", "XGetFontProperty",
    "XGetGCValues", "XGetGeometry", "XGetIconName", "XGetInputFocus",
    "XGetKeyboardControl", "XGetPointerControl", "XGetPointerMapping", "XGetScreenSaver",
    "XGetTransientForHint", "XGetWindowProperty", "XGetWindowAttributes", "XGrabButton",
    "XGrabKey", "XGrabKeyboard", "XGrabPointer", "XGrabServer", "XHeightMMOfScreen",
    "XHeightOfScreen", "XIfEvent", "XImageByteOrder", "XInstallColormap",
    "XKeysymToKeycode", "XKillClient", "XLookupColor", "XLowerWindow", "XMapRaised",
    "XMapSubwindows", "XMapWindow", "XMaskEvent", "XMaxCmapsOfScreen",
    "XMinCmapsOfScreen", "XMoveResizeWindow", "XMoveWindow", "XNextEvent", "XNoOp",
    "XParseColor", "XParseGeometry", "XPeekEvent", "XPeekIfEvent", "XPending",
    "XPlanesOfScreen", "XProtocolRevision", "XProtocolVersion", "XPutBackEvent",
    "XPutImage", "XQLength", "XQueryBestCursor", "XQueryBestSize", "XQueryBestStipple",
    "XQueryBestTile", "XQueryColor", "XQueryColors", "XQueryExtension", "XQueryKeymap",
    "XQueryPointer", "XQueryTextExtents", "XQueryTextExtents16", "XQueryTree",
    "XRaiseWindow", "XReadBitmapFile", "XReadBitmapFileData", "XRebindKeysym",
    "XRecolorCursor", "XRefreshKeyboardMapping", "XRemoveFromSaveSet", "XRemoveHost",
    "XRemoveHosts", "XReparentWindow">>

XlibTextsFetched ==
  <<"XResetScreenSaver", "XResizeWindow", "XRestackWindows", "XRotateBuffers",
    "XRotateWindowProperties", "XScreenCount", "XSelectInput", "XSendEvent",
    "XSetAccessControl", "XSetArcMode", "XSetBackground", "XSetClipMask",
    "XSetClipOrigin", "XSetClipRectangles", "XSetCloseDownMode", "XSetCommand",
    "XSetDashes", "XSetFillRule", "XSetFillStyle", "XSetFont", "XSetFontPath",
    "XSetForeground", "XSetFunction", "XSetGraphicsExposures", "XSetIconName",
    "XSetInputFocus", "XSetLineAttributes", "XSetModifierMapping", "XSetPlaneMask",
    "XSetPointerMapping", "XSetScreenSaver", "XSetSelectionOwner", "XSetState",
    "XSetStipple", "XSetSubwindowMode", "XSetTSOrigin", "XSetTile",
    "XSetWindowBackground", "XSetWindowBackgroundPixmap", "XSetWindowBorder",
    "XSetWindowBorderPixmap", "XSetWindowBorderWidth", "XSetWindowColormap",
    "XStoreBuffer", "XStoreBytes", "XStoreColor", "XStoreColors", "XStoreName",
    "XStoreNamedColor", "XSync", "XTextExtents", "XTextExtents16", "XTextWidth",
    "XTextWidth16", "XTranslateCoordinates", "XUndefineCursor", "XUngrabButton",
    "XUngrabKey", "XUngrabKeyboard", "XUngrabPointer", "XUngrabServer",
    "XUninstallColormap", "XUnloadFont", "XUnmapSubwindows", "XUnmapWindow",
    "XVendorRelease", "XWarpPointer", "XWidthMMOfScreen", "XWidthOfScreen",
    "XWindowEvent", "XWriteBitmapFile", "XSupportsLocale", "XSetLocaleModifiers",
    "XOpenOM", "XCloseOM", "XSetOMValues", "XGetOMValues", "XDisplayOfOM", "XLocaleOfOM",
    "XCreateOC", "XDestroyOC", "XOMOfOC", "XSetOCValues", "XGetOCValues",
    "XCreateFontSet", "XFreeFontSet", "XFontsOfFontSet", "XBaseFontNameListOfFontSet",
    "XLocaleOfFontSet", "XContextDependentDrawing", "XDirectionalDependentDrawing",
    "XContextualDrawing", "XExtentsOfFontSet", "XmbTextEscapement", "XwcTextEscapement",
    "Xutf8TextEscapement", "XmbTextExtents", "XwcTextExtents", "Xutf8TextExtents",
    "XmbTextPerCharExtents", "XwcTextPerCharExtents", "Xutf8TextPerCharExtents",
    "XmbDrawText", "XwcDrawText", "Xutf8DrawText", "XmbDrawString", "XwcDrawString",
    "Xutf8DrawString", "XmbDrawImageString", "XwcDrawImageString", "Xutf8DrawImageString",
    "XOpenIM", "XCloseIM", "XGetIMValues", "XSetIMValues", "XDisplayOfIM", "XLocaleOfIM",
    "XCreateIC", "XDestroyIC", "XSetICFocus", "XUnsetICFocus", "XwcResetIC", "XmbResetIC",
    "Xutf8ResetIC", "XSetICValues", "XGetICValues", "XIMOfIC", "XFilterEvent",
    "XmbLookupString", "XwcLookupString", "Xutf8LookupString", "XVaCreateNestedList",
    "XRegisterIMInstantiateCallback", "XUnregisterIMInstantiateCallback",
    "XInternalConnectionNumbers", "XProcessInternalConnection", "XAddConnectionWatch",
    "XRemoveConnectionWatch", "XSetAuthorization", "_Xmbtowc", "_Xwctomb",
    "XGetEventData", "XFreeEventData">>

(* Looked up: Xlib-xcb.h *)

XlibXcbFetched == <<"XGetXCBConnection", "XSetEventQueueOwner">>

(* Looked up: Xlibint.h *)

XlibintFetched ==
  <<"_XGetRequest", "_XFlushGCCache", "_XData32", "_XRead32", "_XDeqAsyncHandler", "Data",
    "_XError", "_XIOError", "_XEatData", "_XEatDataWords", "_XAllocScratch",
    "_XAllocTemp", "_XFreeTemp", "_XVIDtoVisual", "_XSetLastRequestRead", "_XGetHostname",
    "_XScreenOfWindow", "_XAsyncErrorHandler", "_XGetAsyncReply", "_XGetAsyncData",
    "_XFlush", "_XEventsQueued", "_XReadEvents", "_XRead", "_XReadPad", "_XSend",
    "_XReply", "_XEnq", "_XDeq", "_XUnknownWireEvent", "_XUnknownWireEventCookie",
    "_XUnknownCopyEventCookie", "_XUnknownNativeEvent", "_XWireToEvent",
    "_XDefaultWireError", "_XPollfdCacheInit", "_XPollfdCacheAdd", "_XPollfdCacheDel",
    "_XAllocID", "_XAllocIDs", "_XFreeExtData", "XESetCreateGC", "XESetCopyGC",
    "XESetFlushGC", "XESetFreeGC", "XESetCreateFont", "XESetFreeFont",
    "XESetCloseDisplay", "XESetError", "XESetErrorString", "XESetPrintErrorValues",
    "XESetWireToEvent", "XESetWireToEventCookie", "XESetCopyEventCookie",
    "XESetEventToWire", "XESetWireToError", "XESetBeforeFlush",
    "_XRegisterInternalConnection", "_XUnregisterInternalConnection",
    "_XProcessInternalConnection", "__XOS2RedirRoot", "_XTextHeight", "_XTextHeight16",
    "_XOpenFile", "_XOpenFileMode", "_XFopenFile", "_XAccessFile", "_XEventToWire",
    "_XF86LoadQueryLocaleFont", "_XProcessWindowAttributes", "_XDefaultError",
    "_XDefaultIOError", "_XSetClipRectangles", "_XGetWindowAttributes", "_XPutBackEvent",
    "_XIsEventCookie", "_XFreeEventCookies", "_XStoreEventCookie", "_XFetchEventCookie",
    "_XCopyEventCookie", "xlocaledir">>

(* Looked up: XKBlib.h *)

XkblibFetched ==
  <<"XkbIgnoreExtension", "XkbOpenDisplay", "XkbQueryExtension", "XkbUseExtension",
    "XkbLibraryVersion", "XkbSetXlibControls", "XkbGetXlibControls",
    "XkbXlibControlsImplemented", "XkbSetAtomFuncs", "XkbKeycodeToKeysym",
    "XkbKeysymToModifiers", "XkbLookupKeySym", "XkbLookupKeyBinding",
    "XkbTranslateKeyCode", "XkbTranslateKeySym", "XkbSetAutoRepeatRate",
    "XkbGetAutoRepeatRate", "XkbChangeEnabledControls", "XkbDeviceBell",
    "XkbForceDeviceBell", "XkbDeviceBellEvent", "XkbBell", "XkbForceBell", "XkbBellEvent",
    "XkbSelectEvents", "XkbSelectEventDetails", "XkbNoteMapChanges", "XkbNoteNameChanges",
    "XkbGetIndicatorState", "XkbGetDeviceIndicatorState", "XkbGetIndicatorMap",
    "XkbSetIndicatorMap", "XkbGetNamedIndicator", "XkbGetNamedDeviceIndicator",
    "XkbSetNamedIndicator", "XkbSetNamedDeviceIndicator", "XkbLockModifiers",
    "XkbLatchModifiers", "XkbLockGroup", "XkbLatchGroup", "XkbSetServerInternalMods",
    "XkbSetIgnoreLockMods", "XkbVirtualModsToReal", "XkbComputeEffectiveMap",
    "XkbInitCanonicalKeyTypes", "XkbAllocKeyboard", "XkbFreeKeyboard",
    "XkbAllocClientMap", "XkbAllocServerMap", "XkbFreeClientMap", "XkbFreeServerMap",
    "XkbAddKeyType", "XkbAllocIndicatorMaps", "XkbFreeIndicatorMaps", "XkbGetMap",
    "XkbGetUpdatedMap", "XkbGetMapChanges", "XkbRefreshKeyboardMapping", "XkbGetKeyTypes",
    "XkbGetKeySyms", "XkbGetKeyActions", "XkbGetKeyBehaviors", "XkbGetVirtualMods",
    "XkbGetKeyExplicitComponents", "XkbGetKeyModifierMap", "XkbGetKeyVirtualModMap",
    "XkbAllocControls", "XkbFreeControls", "XkbGetControls", "XkbSetControls",
    "XkbNoteControlsChanges", "XkbAllocCompatMap", "XkbFreeCompatMap", "XkbGetCompatMap",
    "XkbSetCompatMap", "XkbAddSymInterpret", "XkbAllocNames", "XkbGetNames",
    "XkbSetNames", "XkbChangeNames", "XkbFreeNames", "XkbGetState", "XkbSetMap",
    "XkbChangeMap", "XkbSetDetectableAutoRepeat", "XkbGetDetectableAutoRepeat",
    "XkbSetAutoResetControls", "XkbGetAutoResetControls", "XkbSetPerClientControls",
    "XkbGetPerClientControls", "XkbCopyKeyType", "XkbCopyKeyTypes", "XkbResizeKeyType",
    "XkbResizeKeySyms", "XkbResizeKeyActions", "XkbChangeTypesOfKey",
    "XkbChangeKeycodeRange", "XkbListComponents", "XkbFreeComponentList",
    "XkbGetKeyboard", "XkbGetKeyboardByName", "XkbKeyTypesForCoreSymbols",
    "XkbApplyCompatMapToKey", "XkbUpdateMapFromCore", "XkbAddDeviceLedInfo",
    "XkbResizeDeviceButtonActions", "XkbAllocDeviceInfo", "XkbFreeDeviceInfo",
    "XkbNoteDeviceChanges", "XkbGetDeviceInfo", "XkbGetDeviceInfoChanges",
    "XkbGetDeviceButtonActions", "XkbGetDeviceLedInfo", "XkbSetDeviceInfo",
    "XkbChangeDeviceInfo", "XkbSetDeviceLedInfo", "XkbSetDeviceButtonActions",
    "XkbToControl", "XkbSetDebuggingFlags", "XkbApplyVirtualModChanges",
    "XkbUpdateActionVirtualMods", "XkbUpdateKeyTypeVirtualMods">>

(* Looked up: Xutil.h *)

XutilFetched ==
  <<"XDestroyImage", "XGetPixel", "XPutPixel", "XSubImage", "XAddPixel",
    "XAllocClassHint", "XAllocIconSize", "XAllocSizeHints", "XAllocStandardColormap",
    "XAllocWMHints", "XClipBox", "XCreateRegion", "XDefaultString", "XDeleteContext",
    "XDestroyRegion", "XEmptyRegion", "XEqualRegion", "XFindContext", "XGetClassHint",
    "XGetIconSizes", "XGetNormalHints", "XGetRGBColormaps", "XGetSizeHints",
    "XGetStandardColormap", "XGetTextProperty", "XGetVisualInfo", "XGetWMClientMachine",
    "XGetWMHints", "XGetWMIconName", "XGetWMName", "XGetWMNormalHints", "XGetWMSizeHints",
    "XGetZoomHints", "XIntersectRegion", "XConvertCase", "XLookupString",
    "XMatchVisualInfo", "XOffsetRegion", "XPointInRegion", "XPolygonRegion",
    "XRectInRegion", "XSaveContext", "XSetClassHint", "XSetIconSizes", "XSetNormalHints",
    "XSetRGBColormaps", "XSetSizeHints", "XSetStandardProperties", "XSetTextProperty",
    "XSetWMClientMachine", "XSetWMHints", "XSetWMIconName", "XSetWMName",
    "XSetWMNormalHints", "XSetWMProperties", "XmbSetWMProperties", "Xutf8SetWMProperties",
    "XSetWMSizeHints", "XSetRegion", "XSetStandardColormap", "XSetZoomHints",
    "XShrinkRegion", "XStringListToTextProperty", "XSubtractRegion",
    "XmbTextListToTextProperty", "XwcTextListToTextProperty",
    "Xutf8TextListToTextProperty", "XwcFreeStringList", "XTextPropertyToStringList",
    "XmbTextPropertyToTextList", "XwcTextPropertyToTextList",
    "Xutf8TextPropertyToTextList", "XUnionRectWithRegion", "XUnionRegion", "XWMGeometry",
    "XXorRegion">>

(* Looked up: Xcursor.h *)

XcursorFetched ==
  <<"XcursorImageCreate", "XcursorImageDestroy", "XcursorImagesCreate",
    "XcursorImagesDestroy", "XcursorImagesSetName", "XcursorCursorsCreate",
    "XcursorCursorsDestroy", "XcursorAnimateCreate", "XcursorAnimateDestroy",
    "XcursorAnimateNext", "XcursorCommentCreate", "XcursorCommentDestroy",
    "XcursorCommentsCreate", "XcursorCommentsDestroy", "XcursorXcFileLoadImage",
    "XcursorXcFileLoadImages", "XcursorXcFileLoadAllImages", "XcursorXcFileLoad",
    "XcursorXcFileSave", "XcursorFileLoadImage", "XcursorFileLoadImages",
    "XcursorFileLoadAllImages", "XcursorFileLoad", "XcursorFileSaveImages",
    "XcursorFileSave", "XcursorFilenameLoadImage", "XcursorFilenameLoadImages",
    "XcursorFilenameLoadAllImages", "XcursorFilenameLoad", "XcursorFilenameSaveImages",
    "XcursorFilenameSave", "XcursorLibraryLoadImage", "XcursorLibraryLoadImages",
    "XcursorLibraryPath", "XcursorLibraryShape", "XcursorImageLoadCursor",
    "XcursorImagesLoadCursors", "XcursorImagesLoadCursor", "XcursorFilenameLoadCursor",
    "XcursorFilenameLoadCursors", "XcursorLibraryLoadCursor", "XcursorLibraryLoadCursors",
    "XcursorShapeLoadImage", "XcursorShapeLoadImages", "XcursorShapeLoadCursor",
    "XcursorShapeLoadCursors", "XcursorTryShapeCursor", "XcursorNoticeCreateBitmap",
    "XcursorNoticePutBitmap", "XcursorTryShapeBitmapCursor", "XcursorImageHash",
    "XcursorSupportsARGB", "XcursorSupportsAnim", "XcursorSetDefaultSize",
    "XcursorGetDefaultSize", "XcursorSetTheme", "XcursorGetTheme", "XcursorGetThemeCore",
    "XcursorSetThemeCore">>

(* Looked up: Xinerama.h *)

XineramaFetched ==
  <<"XineramaQueryExtension", "XineramaQueryVersion", "XineramaIsActive",
    "XineramaQueryScreens">>

-----------------------------------------------------------------------------
\* The wrappers, by header.
X11Wrappers ==
  {[header |-> "Xlib.h", functions
      |-> XlibImagesWrapped \o XlibNamesWrapped \o XlibResourcesWrapped \o
          XlibListsWrapped \o XlibScreensWrapped \o XlibManagersWrapped \o
          XlibChangesWrapped \o XlibAreasWrapped \o XlibDrawingWrapped \o
          XlibFreesWrapped \o XlibQueriesWrapped \o XlibEventsWrapped \o
          XlibPointersWrapped \o XlibBitmapsWrapped \o XlibSettingsWrapped \o
          XlibStoresWrapped \o XlibUngrabsWrapped \o XlibFontSetsWrapped \o
          XlibTextsWrapped \o XlibInputMethodsWrapped],
   [header |-> "Xlib-xcb.h", functions |-> XlibXcbWrapped],
   [header |-> "Xlibint.h", functions
      |-> XlibintRequestsWrapped \o XlibintHooksWrapped \o XlibintPlatformWrapped],
   [header |-> "XKBlib.h", functions
      |-> XkblibKeysWrapped \o XkblibIndicatorsWrapped \o XkblibMapsWrapped \o
          XkblibNamesWrapped \o XkblibDevicesWrapped],
   [header |-> "Xutil.h", functions
      |-> XutilHintsWrapped \o XutilRegionsWrapped \o XutilPropertiesWrapped],
   [header |-> "Xcursor.h", functions |-> XcursorFilesWrapped \o XcursorCursorsWrapped],
   [header |-> "Xinerama.h", functions |-> XineramaWrapped]}

\* The look-ups of fetchPointersFromLibrary: which library, which functions.
X11Loaders ==
  <<[library |-> "x11", functions |-> XlibObjectsFetched],
    [library |-> "x11", functions |-> XlibWindowsFetched],
    [library |-> "x11", functions |-> XlibQueriesFetched],
    [library |-> "x11", functions |-> XlibTextsFetched],
    [library |-> "x11_xcb", functions |-> XlibXcbFetched],
    [library |-> "x11", functions |-> XlibintFetched],
    [library |-> "x11", functions |-> XkblibFetched],
    [library |-> "x11", functions |-> XutilFetched],
    [library |-> "x11_cursor", functions |-> XcursorFetched],
    [library |-> "x11_xinerama", functions |-> XineramaFetched]>>

\* Variadic functions: to the application, macros for their functors.
X11Macros ==
  {[header |-> "Xlib.h",
    functions |->
     <<"XSetOMValues", "XGetOMValues", "XCreateOC", "XSetOCValues", "XGetOCValues",
       "XGetIMValues", "XSetIMValues", "XCreateIC", "XSetICValues", "XGetICValues",
       "XVaCreateNestedList">>]}

\* Wrappers inside of conditions that hold on no Linux: these are looked up
\* all the same.
X11Guarded ==
  {"_XOpenFileMode", "_XOpenFile", "_XFopenFile", "_XAccessFile", "__XOS2RedirRoot",
   "Data", "XDestroyImage", "XGetPixel", "XPutPixel", "XSubImage", "XAddPixel"}
=============================================================================
